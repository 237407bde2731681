-------------------------------- MODULE OBD2 --------------------------------
(***************************************************************************)
(* Reassembly of multi-frame OBD-2 responses (ISO 15765-2): the table of   *)
(* partial messages OBD2::processFrame keeps, between saveFrame, which     *)
(* hands on a frame only when it differs from the last one stored, and     *)
(* processOBDResponse.                                                     *)
(*                                                                         *)
(* An ECU sends a first frame, and the consecutive frames once somebody    *)
(* asks for them: this program, another tester on the bus, or whoever did  *)
(* when a log was recorded.  Any frame may be lost on the way.  A frame    *)
(* that comes twice in a row changes nothing, since the second is not      *)
(* handed on, so repeats need no action.  A message is a response of 8 to  *)
(* 255 bytes, the lengths total_len is right for.                          *)
(***************************************************************************)
EXTENDS Integers, Sequences

CONSTANTS
  Ecus,          \* ECUs of every bus obdii is registered for
  CanIds,        \* response ids
  IdOf,          \* the id an ECU responds with: two buses may use the same
  Messages,      \* what a multi-frame response can be
  Length,        \* its length, as its first frame gives it
  RollingLimit,  \* values of the 4-bit rolling count: 16
  None

ASSUME IdOfAssumption    == IdOf \in [Ecus -> CanIds]
ASSUME NoneAssumption    == None \notin Messages
ASSUME LengthAssumption  == Length \in [Messages -> 8 .. 255]
ASSUME RollingAssumption == RollingLimit \in Nat /\ RollingLimit > 1

VARIABLES
  sending,    \* ECUs: the message each is sending, and its last frame sent
  stored,     \* FrameDB: the last frame stored from each ECU
  partial,    \* _ecu_messages
  answered,   \* history: what processOBDResponse was last given for an id
  clearing,   \* the console is between the two steps of a clearFrames()
  tainted,    \* history: ids with a partial message that may not be one message
  intact      \* history: ECUs of whose message every frame so far was taken

histories == <<tainted, intact>>
vars == <<sending, stored, partial, answered, clearing, histories>>

-----------------------------------------------------------------------------
(* Frames.                                                                 *)

\* Frame n of a message; the first frame is frame 0.  Any single-frame response
\* will do as one.
Frame(m, n) == [msg |-> m, n |-> n]
SingleFrame == Frame(None, 1)
NoFrame     == Frame(None, 0)

\* The rolling count after c.
NextCount(c) == IF c + 1 = RollingLimit THEN 0 ELSE c + 1

Idle == [msg |-> None, n |-> 0, count |-> 0]

\* The first frame carries the mode, the pid and 4 bytes more; each of the rest
\* carries 7.
FirstBytes == 4
NextBytes  == 7
TotalLen(m)  == Length[m] - 2
LastFrame(m) == (TotalLen(m) - FirstBytes + NextBytes - 1) \div NextBytes

NoPartial  == [owner |-> None, msg |-> None, rollingcnt |-> 0, total_len |-> 0,
               current_len |-> 0, buffer |-> <<>>]
NoResponse == [msg |-> None, whole |-> FALSE, clean |-> FALSE]

\* What the buffer holds once every frame has come.
Whole(m) == [i \in 1 .. LastFrame(m) + 1 |-> Frame(m, i - 1)]

Least(a, b) == IF a < b THEN a ELSE b

Init ==
  /\ sending = [e \in Ecus |-> Idle]
  /\ stored = [e \in Ecus |-> NoFrame]
  /\ partial = [id \in CanIds |-> NoPartial]
  /\ answered = [id \in CanIds |-> NoResponse]
  /\ clearing = FALSE
  /\ tainted = {} /\ intact = {}

-----------------------------------------------------------------------------
(* OBD2::processFrame.                                                     *)

\* Mutant of StoreFirst: insert() for operator[], which keeps what is there.
StoreFirstInserts(e, m) ==
  /\ partial' = [partial EXCEPT ![IdOf[e]] =
       IF @ # NoPartial THEN @
       ELSE [owner |-> e, msg |-> m, rollingcnt |-> 1, total_len |-> TotalLen(m),
             current_len |-> FirstBytes, buffer |-> <<Frame(m, 0)>>]]
  /\ tainted' = tainted \ {IdOf[e]}
  /\ intact' = {f \in intact : IdOf[f] # IdOf[e]} \cup {e}

\* "only store te continue if we were successful": a log is being read, or the
\* flow control frame that asks for the rest was sent.
StoreFirst(e, m) ==
  /\ partial' = [partial EXCEPT ![IdOf[e]] =
       [owner |-> e, msg |-> m, rollingcnt |-> 1, total_len |-> TotalLen(m),
        current_len |-> FirstBytes, buffer |-> <<Frame(m, 0)>>]]
  /\ tainted' = tainted \ {IdOf[e]}
  /\ intact' = {f \in intact : IdOf[f] # IdOf[e]} \cup {e}

\* The first frame is not stored, and what was partial of the ECU's stays.
MissFirst(e) ==
  /\ tainted' = IF partial[IdOf[e]].owner = e THEN tainted \cup {IdOf[e]} ELSE tainted
  /\ intact' = intact \ {e}
  /\ UNCHANGED partial

\* A consecutive frame nobody waits for, or not the next one.
IgnoreNext(e, count) ==
  /\ partial[IdOf[e]] = NoPartial \/ partial[IdOf[e]].rollingcnt # count
  /\ UNCHANGED <<partial, answered, tainted, intact>>

\* Mutants of Extended: 7 bytes are taken whatever is left to come; the rolling
\* count stays.
ExtendedBySeven(p, frame) ==
  [p EXCEPT !.rollingcnt = NextCount(@), !.buffer = Append(@, frame), !.current_len = @ + NextBytes]
ExtendedUncounted(p, frame) ==
  [p EXCEPT !.buffer = Append(@, frame),
            !.current_len = @ + Least(p.total_len - @, NextBytes)]

\* A partial message with one more frame.
Extended(p, frame) ==
  [p EXCEPT !.rollingcnt = NextCount(@), !.buffer = Append(@, frame),
            !.current_len = @ + Least(p.total_len - @, NextBytes)]

\* The frame waited for; the last one takes the message to processOBDResponse.
AppendNext(e, frame, count) ==
  LET id == IdOf[e]
      p  == partial[id]
      q  == Extended(p, frame)
  IN
  /\ p # NoPartial /\ p.rollingcnt = count
  /\ tainted' = IF p.owner = e THEN tainted ELSE tainted \cup {id}
  /\ intact' = {f \in intact : IdOf[f] = id => f = e /\ p.owner = e}
  /\ IF q.current_len = q.total_len
       THEN /\ answered' = [answered EXCEPT ![id] =
                 [msg |-> p.msg, whole |-> q.buffer = Whole(p.msg), clean |-> id \notin tainted']]
            /\ partial' = [partial EXCEPT ![id] = NoPartial]
       ELSE partial' = [partial EXCEPT ![id] = q] /\ UNCHANGED answered

-----------------------------------------------------------------------------
(* A frame on its way: lost, stored and handed on, or the same as the last *)
(* frame stored from the ECU and so not handed on.                         *)

Respond(e, m) ==
  /\ sending[e] = Idle
  /\ sending' = [sending EXCEPT ![e] = [msg |-> m, n |-> 0, count |-> 0]]
  /\ \/ /\ MissFirst(e) /\ UNCHANGED stored             \* lost
     \/ /\ stored[e] # Frame(m, 0)                     \* handed on
        /\ stored' = [stored EXCEPT ![e] = Frame(m, 0)]
        /\ StoreFirst(e, m) \/ MissFirst(e)
     \/ /\ stored[e] = Frame(m, 0)                     \* nothing new
        /\ intact' = intact \ {e}
        /\ UNCHANGED <<stored, partial, tainted>>
  /\ UNCHANGED <<answered, clearing>>

\* The ECU is idle again after its last frame.
Continue(e) ==
  LET s     == sending[e]
      frame == Frame(s.msg, s.n + 1)
      count == NextCount(s.count)
  IN
  /\ s # Idle
  /\ sending' = [sending EXCEPT ![e] =
       IF s.n + 1 = LastFrame(s.msg) THEN Idle
                                     ELSE [msg |-> s.msg, n |-> s.n + 1, count |-> count]]
  /\ \/ /\ intact' = intact \ {e}                      \* lost
        /\ UNCHANGED <<stored, partial, answered, tainted>>
     \/ /\ stored[e] # frame                           \* handed on
        /\ stored' = [stored EXCEPT ![e] = frame]
        /\ IgnoreNext(e, count) \/ AppendNext(e, frame, count)
     \/ /\ stored[e] = frame                           \* nothing new
        /\ UNCHANGED <<stored, partial, answered, tainted, intact>>
  /\ UNCHANGED clearing

\* Nobody asked for the rest in time.
GiveUp(e) ==
  /\ sending[e] # Idle
  /\ sending' = [sending EXCEPT ![e] = Idle]
  /\ intact' = intact \ {e}
  /\ UNCHANGED <<stored, partial, answered, clearing, tainted>>

\* A response in one frame leaves _ecu_messages alone.
Single(e) ==
  /\ sending[e] = Idle
  /\ stored' = [stored EXCEPT ![e] = SingleFrame]
  /\ UNCHANGED <<sending, partial, answered, clearing, histories>>

\* clearFrames() on the console's thread: OBD2::reset(), then the frames.
Reset ==
  /\ ~clearing /\ clearing' = TRUE
  /\ partial' = [id \in CanIds |-> NoPartial]
  /\ intact' = {}
  /\ UNCHANGED <<sending, stored, answered, tainted>>

ClearFrames ==
  /\ clearing /\ clearing' = FALSE
  /\ stored' = [e \in Ecus |-> NoFrame]
  /\ UNCHANGED <<sending, partial, answered, histories>>

Next ==
  \/ \E e \in Ecus : (\E m \in Messages : Respond(e, m)) \/ Continue(e) \/ GiveUp(e) \/ Single(e)
  \/ Reset \/ ClearFrames

Spec == Init /\ [][Next]_vars

-----------------------------------------------------------------------------
(* Properties.                                                             *)

Frames == [msg : Messages, n : Nat] \cup {SingleFrame, NoFrame}
Counts == 0 .. RollingLimit - 1
Partials ==
  [owner : Ecus, msg : Messages, rollingcnt : Counts, total_len : 6 .. 253,
   current_len : 4 .. 253, buffer : Seq(Frames)] \cup {NoPartial}

\* Every entry has its type, and a partial message is never filled beyond, or up
\* to, its length: the uint16_t difference total_len - current_len cannot wrap.
TypeOK ==
  /\ sending \in [Ecus -> [msg : Messages, n : Nat, count : Counts] \cup {Idle}]
  /\ stored \in [Ecus -> Frames]
  /\ partial \in [CanIds -> Partials]
  /\ answered \in [CanIds -> [msg : Messages \cup {None}, whole : BOOLEAN, clean : BOOLEAN]]
  /\ clearing \in BOOLEAN
  /\ tainted \subseteq CanIds /\ intact \subseteq Ecus
  /\ \A id \in CanIds : partial[id] # NoPartial => partial[id].current_len < partial[id].total_len

\* A response is put together from the frames of one message, all of them and in
\* their order, whatever consecutive frames are lost and however the rolling
\* count wraps, unless since its first frame another first frame was lost or not
\* asked about, or an ECU of another bus with the same id was taken for this one.
CleanIsWhole == \A id \in CanIds : answered[id].clean => answered[id].whole

\* A message whose frames all came in, outside a clear and without one of another
\* ECU between them, is answered with its last frame, though the console may
\* clear, other responses end and the same message was begun and left before.
IntactIsAnswered ==
  [][\A e \in Ecus :
       e \in intact' /\ sending[e] # Idle /\ sending'[e] = Idle
         => answered'[IdOf[e]].msg = sending[e].msg /\ answered'[IdOf[e]].whole]_vars
=============================================================================
