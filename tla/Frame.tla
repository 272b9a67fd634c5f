------------------------------- MODULE Frame -------------------------------
(***************************************************************************)
(* The UI thread of RustyTools between two events of the window system:    *)
(* update() drains the event channel, draws the selected page, on which    *)
(* the user may click once, and asks for a further frame or not.           *)
(*                                                                         *)
(* The background jobs of the pages (DnsRun, VendorLookup, NetRefresh,     *)
(* PacketRun) run between these steps; Pages puts them together.  Draining *)
(* is one step: a thread only appends to the channel, so an event sent     *)
(* while it is drained might as well have been sent before.  Drawing a page *)
(* and the test at the end of update() are one step too: each looks at the *)
(* threads once, and after a click the outcome of the test is immaterial.  *)
(*                                                                         *)
(* Which page a frame shows is free: the user can always select another    *)
(* one first, in a frame that changes nothing else.                        *)
(***************************************************************************)
EXTENDS Naturals, Sequences

CONSTANT MaxStarts   \* bound: jobs started, of all pages together

ASSUME FrameAssumption == MaxStarts \in Nat

VARIABLES
  ui,       \* "out" of update(), or "page": events drained
  input,    \* the frame handles user input
  repaint,  \* a further frame has been requested
  chan,     \* the event channel, tx to rx
  starts    \* jobs started so far; the last one's number

frameVars == <<ui, input, repaint>>

UIStates == {"out", "page"}

FrameInit ==
  /\ ui = "out" /\ input = FALSE /\ repaint = TRUE
  /\ chan = <<>> /\ starts = 0

\* What one arm of the match in drain_events gets of s: the events of the set E,
\* in their order.
Kept(s, E) ==
  LET kept[n \in 0 .. Len(s)] ==
        IF n = 0 THEN <<>>
        ELSE IF s[n] \in E THEN Append(kept[n - 1], s[n]) ELSE kept[n - 1]
  IN  kept[Len(s)]

\* drain_events takes every event there is; what becomes of them is up to the
\* components.
BeginFrame ==
  /\ ui = "out" /\ ui' = "page"
  /\ repaint' = FALSE /\ chan' = <<>>
  /\ UNCHANGED starts

\* egui calls update() because a frame was requested, or on user input.
RepaintFrame == repaint /\ BeginFrame /\ input' = FALSE
InputFrame == BeginFrame /\ input' = TRUE

\* A page is drawn, with a click of the user on it or without, and update()
\* ends (Pages says with which repaint').
DrawPage ==
  /\ ui = "page" /\ ui' = "out" /\ input' = FALSE
  /\ UNCHANGED chan
Click == DrawPage /\ input

\* It starts a job, with the next number.
Launch == starts < MaxStarts /\ starts' = starts + 1

\* A thread sends an event.
SendEvent(e) ==
  /\ chan' = Append(chan, e)
  /\ UNCHANGED <<frameVars, starts>>

Quiet == UNCHANGED <<frameVars, chan, starts>>

\* The channel holds an event of this set.
InChan(E) == \E i \in 1 .. Len(chan) : chan[i] \in E
=============================================================================
