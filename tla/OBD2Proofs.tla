----------------------------- MODULE OBD2Proofs -----------------------------
(* What holds of OBD-2 reassembly for any ECUs, ids, messages and rolling limit. *)
EXTENDS OBD2, TLAPS

-----------------------------------------------------------------------------
(* Lengths and frames.                                                     *)

\* TLC's LastFrame is right: the first frame and k more fill the message exactly
\* when k is at least LastFrame.
LEMMA Lengths == ASSUME NEW m \in Messages
                 PROVE  /\ TotalLen(m) \in 6 .. 253
                        /\ LastFrame(m) \in Nat \ {0}
                        /\ \A k \in Nat : k < LastFrame(m) <=> 4 + 7 * k < TotalLen(m)
<1>1. TotalLen(m) \in 6 .. 253
  BY LengthAssumption DEF TotalLen
<1>2. LastFrame(m) = (TotalLen(m) + 2) \div 7
  BY <1>1 DEF LastFrame, FirstBytes, NextBytes
<1>3. QED
  BY <1>1, <1>2

\* A buffer that begins with a message's first frame and goes on with frames of
\* the same message, each further along than the one before.
Sequenced(b, m) ==
  /\ Len(b) >= 1 /\ b[1].n = 0
  /\ \A i \in 1 .. Len(b) : b[i].n \in Nat /\ b[i] = Frame(m, b[i].n)
  /\ \A i, j \in 1 .. Len(b) : i <= j => b[i].n - i <= b[j].n - j

\* A frame further along may follow.
LEMMA SequencedAppend ==
  ASSUME NEW S, NEW b \in Seq(S), NEW m, Sequenced(b, m), NEW n \in Nat, b[Len(b)].n < n,
         Frame(m, n) \in S
  PROVE  Sequenced(Append(b, Frame(m, n)), m)
<1> DEFINE c == Append(b, Frame(m, n))
           k == Len(b)
<1>1. k \in Nat /\ Len(c) = k + 1 /\ c[k + 1] = Frame(m, n) /\ \A i \in 1 .. k : c[i] = b[i]
  OBVIOUS
<1>2. \A i \in 1 .. k : b[i].n \in Nat /\ b[i].n - i <= b[k].n - k
  BY <1>1 DEF Sequenced
<1>3. Frame(m, n).n = n
  BY DEF Frame
<1>4. \A i \in 1 .. Len(c) : c[i].n \in Nat /\ c[i] = Frame(m, c[i].n)
  BY <1>1, <1>3 DEF Sequenced
<1>5. ASSUME NEW i \in 1 .. Len(c), NEW j \in 1 .. Len(c), i <= j
      PROVE  c[i].n - i <= c[j].n - j
  <2>1. CASE j <= k
    BY <1>1, <1>5, <2>1 DEF Sequenced
  <2>2. CASE i = k + 1
    BY <1>1, <1>4, <1>5, <2>2
  <2>3. CASE j = k + 1 /\ i <= k
    <3>1. k \in 1 .. k /\ b[k].n \in Nat
      BY <1>1, <1>2 DEF Sequenced
    <3>2. c[i].n - i <= b[k].n - k
      BY <1>1, <1>2, <2>3
    <3>3. c[j].n = n
      BY <1>1, <1>3, <2>3
    <3>4. c[i].n \in Nat
      BY <1>4
    <3>5. QED
      BY <1>1, <2>3, <3>1, <3>2, <3>3, <3>4
  <2>4. QED
    BY <1>1, <1>5, <2>1, <2>2, <2>3
<1>6. Len(c) >= 1 /\ c[1].n = 0
  BY <1>1 DEF Sequenced
<1>7. QED
  BY <1>4, <1>5, <1>6 DEF Sequenced

\* Such a buffer with as many frames as the message has holds each once.
LEMMA SequencedWhole ==
  ASSUME NEW S, NEW b \in Seq(S), NEW m \in Messages, Sequenced(b, m),
         Len(b) - 1 >= LastFrame(m), b[Len(b)].n <= LastFrame(m)
  PROVE  b = Whole(m)
<1> DEFINE k == Len(b)
<1>1. k \in Nat /\ k >= 1 /\ LastFrame(m) \in Nat
  BY Lengths DEF Sequenced
<1>2. b[k].n \in Nat /\ b[1].n = 0 /\ b[1].n - 1 <= b[k].n - k
  BY <1>1 DEF Sequenced
<1>3. k - 1 = LastFrame(m) /\ b[k].n = k - 1
  BY <1>1, <1>2
<1>4. ASSUME NEW i \in 1 .. k PROVE b[i] = Frame(m, i - 1)
  <2>1. b[1].n - 1 <= b[i].n - i /\ b[i].n - i <= b[k].n - k /\ b[i].n \in Nat
    BY <1>1 DEF Sequenced
  <2>2. b[i].n = i - 1
    BY <1>1, <1>2, <1>3, <2>1
  <2>3. QED
    BY <2>2 DEF Sequenced
<1>5. b = [i \in 1 .. k |-> b[i]]
  OBVIOUS
<1>6. QED
  BY <1>1, <1>3, <1>4, <1>5 DEF Whole

-----------------------------------------------------------------------------
(* The invariant.                                                          *)

\* An ECU in a message still has a frame to send.
MoreToSend ==
  \A e \in Ecus : sending[e] # Idle => sending[e].n < LastFrame(sending[e].msg)

\* A partial message belongs to an ECU of its id, and is as full as its frames
\* make it.
PartialsFilled ==
  \A id \in CanIds : partial[id] # NoPartial =>
    LET p == partial[id] IN
      /\ IdOf[p.owner] = id /\ p.total_len = TotalLen(p.msg)
      /\ Len(p.buffer) >= 1 /\ p.current_len = 4 + 7 * (Len(p.buffer) - 1)

\* An untainted one holds frames of one message, none beyond what its ECU has
\* sent; and if the ECU's last stored frame is a first frame, it is that one.
CleanFrom(p) ==
  LET last == p.buffer[Len(p.buffer)].n
      s    == sending[p.owner]
  IN
  /\ Sequenced(p.buffer, p.msg)
  /\ s # Idle => s.msg = p.msg /\ last <= s.n
  /\ \A m \in Messages : stored[p.owner] = Frame(m, 0) => p.msg = m /\ last = 0
CleanPartials ==
  \A id \in CanIds \ tainted : partial[id] # NoPartial => CleanFrom(partial[id])

\* The message of an intact ECU is all there, and waits for its next frame.
IntactFor(e) ==
  LET p == partial[IdOf[e]]
      s == sending[e]
  IN
  /\ p # NoPartial /\ IdOf[e] \notin tainted
  /\ p.owner = e /\ p.msg = s.msg
  /\ Len(p.buffer) = s.n + 1 /\ p.rollingcnt = NextCount(s.count)
  /\ stored[e] \in {Frame(s.msg, s.n), NoFrame}
IntactHeld == \A e \in intact : sending[e] # Idle => IntactFor(e)

IInv == TypeOK /\ MoreToSend /\ PartialsFilled /\ CleanPartials /\ IntactHeld /\ CleanIsWhole

\* Idle and NoPartial are told by their msg, which is no message.
LEMMA Nothing == ASSUME TypeOK
                 PROVE  /\ \A e \in Ecus : sending[e] # Idle <=> sending[e].msg \in Messages
                        /\ \A id \in CanIds : partial[id] # NoPartial <=> partial[id].msg \in Messages
<1>1. \A e \in Ecus : sending[e] # Idle <=> sending[e].msg \in Messages
  BY NoneAssumption DEF TypeOK, Idle
<1>2. \A id \in CanIds : partial[id] # NoPartial <=> partial[id].msg \in Messages
  BY NoneAssumption DEF TypeOK, Partials, NoPartial
<1>3. QED
  BY <1>1, <1>2

-----------------------------------------------------------------------------
(* A first frame.                                                          *)

\* An ECU that begins a message leaves the partial messages as they are, but for
\* its id's, which it starts anew or taints.
LEMMA RespondStep == ASSUME IInv, NEW e \in Ecus, NEW m \in Messages, Respond(e, m) PROVE IInv'
<1> USE DEF IInv
<1>1. sending[e] = Idle /\ IdOf[e] \in CanIds /\ UNCHANGED <<answered, clearing>>
  BY IdOfAssumption DEF Respond
<1>2. sending' = [sending EXCEPT ![e] = [msg |-> m, n |-> 0, count |-> 0]]
  BY DEF Respond
<1>3. /\ [msg |-> m, n |-> 0, count |-> 0] \in [msg : Messages, n : Nat, count : Counts]
      /\ [msg |-> m, n |-> 0, count |-> 0] # Idle
  BY RollingAssumption, NoneAssumption DEF Counts, Idle
<1>4. sending' \in [Ecus -> [msg : Messages, n : Nat, count : Counts] \cup {Idle}]
  BY <1>2, <1>3 DEF TypeOK
<1>5. \A f \in Ecus : sending'[f] = IF f = e THEN [msg |-> m, n |-> 0, count |-> 0] ELSE sending[f]
  BY <1>2 DEF TypeOK
<1>6. MoreToSend'
  BY <1>5, Lengths DEF MoreToSend
<1>7. CleanIsWhole'
  BY <1>1 DEF CleanIsWhole
<1>8. Frame(m, 0) \in Frames
  BY DEF Frame, Frames
<1>9. CASE MissFirst(e) /\ (UNCHANGED stored \/ stored' = [stored EXCEPT ![e] = Frame(m, 0)])
  <2> USE <1>9 DEF MissFirst
  <2>1. \A f \in Ecus \ {e} : stored'[f] = stored[f] /\ sending'[f] = sending[f]
    BY <1>5 DEF TypeOK
  <2>2. TypeOK'
    <3>1. stored' \in [Ecus -> Frames]
      BY <1>8 DEF TypeOK
    <3>2. tainted' \subseteq CanIds /\ intact' \subseteq Ecus
      BY <1>1 DEF TypeOK, Respond
    <3>3. QED
      BY <1>1, <1>4, <3>1, <3>2 DEF TypeOK
  <2>3. PartialsFilled'
    BY DEF PartialsFilled
  <2>4. CleanPartials'
    <3>1. ASSUME NEW id \in CanIds \ tainted', partial[id] # NoPartial
          PROVE  CleanFrom(partial[id]) /\ partial[id].owner \in Ecus \ {e}
      BY <1>1, <3>1 DEF CleanPartials, PartialsFilled, TypeOK, Partials
    <3>2. QED
      BY <2>1, <3>1 DEF CleanPartials, CleanFrom
  <2>5. IntactHeld'
    <3>1. ASSUME NEW f \in intact', sending'[f] # Idle
          PROVE  f \in Ecus \ {e} /\ IntactFor(f) /\ IdOf[f] \notin tainted'
      BY <1>1, <1>5, <3>1 DEF IntactHeld, IntactFor, TypeOK
    <3>2. QED
      BY <2>1, <3>1 DEF IntactHeld, IntactFor
  <2>6. QED
    BY <1>6, <1>7, <2>2, <2>3, <2>4, <2>5
<1>10. CASE stored' = [stored EXCEPT ![e] = Frame(m, 0)] /\ StoreFirst(e, m)
  <2> DEFINE p == [owner |-> e, msg |-> m, rollingcnt |-> 1, total_len |-> TotalLen(m),
                   current_len |-> FirstBytes, buffer |-> <<Frame(m, 0)>>]
  <2> USE <1>10
  <2>1. /\ p \in Partials /\ p # NoPartial /\ p.current_len < p.total_len
        /\ NextCount(0) = 1
    <3>1. <<Frame(m, 0)>> \in Seq(Frames)
      BY <1>8
    <3>2. TotalLen(m) \in 6 .. 253
      BY Lengths
    <3>3. 1 \in Counts
      BY RollingAssumption DEF Counts
    <3>4. p \in Partials
      BY <3>1, <3>2, <3>3 DEF Partials, FirstBytes
    <3>5. p # NoPartial
      BY NoneAssumption DEF NoPartial
    <3>6. NextCount(0) = 1
      BY RollingAssumption DEF NextCount
    <3>7. QED
      BY <3>2, <3>4, <3>5, <3>6 DEF FirstBytes
  <2>2. /\ partial' = [partial EXCEPT ![IdOf[e]] = p]
        /\ tainted' = tainted \ {IdOf[e]}
        /\ intact' = {f \in intact : IdOf[f] # IdOf[e]} \cup {e}
    BY DEF StoreFirst
  <2>3. \A id \in CanIds : partial'[id] = IF id = IdOf[e] THEN p ELSE partial[id]
    BY <2>2 DEF TypeOK
  <2>4. \A f \in Ecus : stored'[f] = IF f = e THEN Frame(m, 0) ELSE stored[f]
    BY DEF TypeOK
  <2> HIDE DEF p
  <2>5. TypeOK'
    <3>1. stored' \in [Ecus -> Frames]
      BY <1>8 DEF TypeOK
    <3>2. tainted' \subseteq CanIds /\ intact' \subseteq Ecus
      BY <2>2 DEF TypeOK, Respond
    <3>3. partial' \in [CanIds -> Partials]
      BY <2>1, <2>2 DEF TypeOK
    <3>4. \A id \in CanIds : partial'[id] # NoPartial => partial'[id].current_len < partial'[id].total_len
      BY <2>1, <2>3 DEF TypeOK
    <3>5. QED
      BY <1>1, <1>4, <3>1, <3>2, <3>3, <3>4 DEF TypeOK
  <2>6. /\ p.owner = e /\ p.msg = m /\ p.buffer = <<Frame(m, 0)>> /\ Len(p.buffer) = 1
        /\ p.buffer[1] = Frame(m, 0) /\ p.buffer[1].n = 0
        /\ p.total_len = TotalLen(m) /\ p.current_len = 4 /\ p.rollingcnt = 1
    BY DEF p, Frame, FirstBytes
  <2>7. PartialsFilled'
    <3>1. /\ IdOf[p.owner] = IdOf[e] /\ p.total_len = TotalLen(p.msg)
          /\ Len(p.buffer) >= 1 /\ p.current_len = 4 + 7 * (Len(p.buffer) - 1)
      BY <2>6
    <3>2. QED
      BY <2>3, <3>1 DEF PartialsFilled
  <2>8. CleanPartials'
    <3>1. CleanFrom(p)'
      <4>1. Sequenced(p.buffer, m)
        BY <2>6 DEF Sequenced
      <4>2. \A l \in Messages : Frame(m, 0) = Frame(l, 0) => m = l
        BY DEF Frame
      <4>3. QED
        BY <1>5, <2>4, <2>6, <4>1, <4>2 DEF CleanFrom
    <3>2. ASSUME NEW id \in CanIds \ tainted', partial[id] # NoPartial, id # IdOf[e]
          PROVE  CleanFrom(partial[id]) /\ partial[id].owner \in Ecus \ {e}
      BY <2>2, <3>2 DEF CleanPartials, PartialsFilled, TypeOK, Partials
    <3>3. ASSUME NEW id \in CanIds \ tainted', partial[id] # NoPartial, id # IdOf[e]
          PROVE  CleanFrom(partial[id])'
      BY <1>5, <2>3, <2>4, <3>2, <3>3 DEF CleanFrom
    <3>4. QED
      BY <2>3, <3>1, <3>3 DEF CleanPartials
  <2>9. IntactHeld'
    <3>1. IntactFor(e)'
      <4>1. /\ partial'[IdOf[e]] = p /\ IdOf[e] \notin tainted' /\ stored'[e] = Frame(m, 0)
            /\ sending'[e].msg = m /\ sending'[e].n = 0 /\ sending'[e].count = 0
        BY <1>1, <1>5, <2>2, <2>3, <2>4
      <4>2. Len(p.buffer) = 0 + 1 /\ p.rollingcnt = NextCount(0)
        BY <2>1, <2>6
      <4>3. QED
        BY <2>1, <2>6, <4>1, <4>2 DEF IntactFor
    <3>2. ASSUME NEW f \in intact', sending'[f] # Idle, f # e
          PROVE  f \in Ecus \ {e} /\ IntactFor(f) /\ IdOf[f] # IdOf[e]
      BY <1>5, <2>2, <3>2 DEF IntactHeld, TypeOK
    <3>3. ASSUME NEW f \in intact', sending'[f] # Idle, f # e PROVE IntactFor(f)'
      <4>1. f \in Ecus \ {e} /\ IntactFor(f) /\ IdOf[f] # IdOf[e] /\ IdOf[f] \in CanIds
        BY <3>2, <3>3, IdOfAssumption
      <4>2. QED
        BY <1>5, <2>2, <2>3, <2>4, <4>1 DEF IntactFor
    <3>4. QED
      BY <3>1, <3>3 DEF IntactHeld
  <2>10. QED
    BY <1>6, <1>7, <2>5, <2>7, <2>8, <2>9
<1>11. CASE /\ stored[e] = Frame(m, 0) /\ intact' = intact \ {e}
            /\ UNCHANGED <<stored, partial, tainted>>
  <2> USE <1>11
  <2>1. TypeOK'
    BY <1>1, <1>4 DEF TypeOK, Respond
  <2>2. PartialsFilled'
    BY DEF PartialsFilled
  <2>3. CleanPartials'
    <3>1. ASSUME NEW id \in CanIds \ tainted', partial[id] # NoPartial
          PROVE  CleanFrom(partial[id])'
      <4>1. CleanFrom(partial[id]) /\ partial[id].owner \in Ecus
        BY <3>1 DEF CleanPartials, TypeOK, Partials, NoPartial
      <4>2. CASE partial[id].owner # e
        BY <1>5, <4>1, <4>2 DEF CleanFrom
      <4>3. CASE partial[id].owner = e
        BY <1>5, <4>1, <4>3 DEF CleanFrom
      <4>4. QED
        BY <4>2, <4>3
    <3>2. QED
      BY <3>1 DEF CleanPartials
  <2>4. IntactHeld'
    BY <1>5 DEF IntactHeld, IntactFor, TypeOK
  <2>5. QED
    BY <1>6, <1>7, <2>1, <2>2, <2>3, <2>4
<1>12. QED
  BY <1>9, <1>10, <1>11 DEF Respond

-----------------------------------------------------------------------------
(* A consecutive frame.                                                    *)

\* The count after a count is a count.
LEMMA CountNext == ASSUME NEW c \in Counts PROVE NextCount(c) \in Counts
BY RollingAssumption DEF Counts, NextCount

\* What is below a total length is a length.
LEMMA Unfilled == \A t \in 6 .. 253, k \in Nat : 4 + 7 * k < t => 4 + 7 * k \in 4 .. 253
OBVIOUS

\* One more frame fills the message, or leaves it 7 bytes fuller and unfilled.
LEMMA ExtendedFills ==
  ASSUME NEW p \in Partials, p.msg \in Messages, p.total_len = TotalLen(p.msg),
         p.current_len < p.total_len, p.current_len = 4 + 7 * (Len(p.buffer) - 1),
         NEW frame \in Frames
  PROVE  LET q == Extended(p, frame) IN
           /\ q.owner = p.owner /\ q.msg = p.msg /\ q.total_len = p.total_len
           /\ q.buffer = Append(p.buffer, frame) /\ Len(q.buffer) = Len(p.buffer) + 1
           /\ q.rollingcnt = NextCount(p.rollingcnt)
           /\ q.current_len = q.total_len <=> Len(p.buffer) >= LastFrame(p.msg)
           /\ q.current_len # q.total_len =>
                /\ q \in Partials /\ q # NoPartial /\ q.current_len < q.total_len
                /\ q.current_len = 4 + 7 * (Len(q.buffer) - 1)
<1> DEFINE q == Extended(p, frame)
           k == Len(p.buffer)
<1>1. /\ p \in [owner : Ecus, msg : Messages, rollingcnt : Counts, total_len : 6 .. 253,
                current_len : 4 .. 253, buffer : Seq(Frames)]
      /\ p.buffer \in Seq(Frames) /\ k \in Nat
  BY NoneAssumption DEF Partials, NoPartial
<1>2. /\ q = [p EXCEPT !.rollingcnt = NextCount(p.rollingcnt), !.buffer = Append(p.buffer, frame),
                       !.current_len = p.current_len + Least(p.total_len - p.current_len, 7)]
      /\ q.owner = p.owner /\ q.msg = p.msg /\ q.total_len = p.total_len
      /\ q.buffer = Append(p.buffer, frame) /\ q.rollingcnt = NextCount(p.rollingcnt)
      /\ q.current_len = p.current_len + Least(p.total_len - p.current_len, 7)
  BY <1>1 DEF Extended, NextBytes
<1>3. Len(q.buffer) = k + 1 /\ q.buffer \in Seq(Frames)
  BY <1>1, <1>2
<1>4. LastFrame(p.msg) \in Nat /\ (k < LastFrame(p.msg) <=> 4 + 7 * k < p.total_len)
  BY <1>1, Lengths
<1>5. q.current_len = IF 4 + 7 * k < p.total_len THEN 4 + 7 * k ELSE p.total_len
  <2>1. /\ p.current_len \in Int /\ p.total_len \in Int /\ p.current_len < p.total_len
        /\ p.current_len = 4 + 7 * (k - 1)
    BY <1>1
  <2>2. p.current_len + 7 = 4 + 7 * k
    BY <1>1, <2>1
  <2>3. CASE 7 <= p.total_len - p.current_len
    BY <1>2, <2>1, <2>2, <2>3 DEF Least
  <2>4. CASE p.total_len - p.current_len < 7
    BY <1>2, <2>1, <2>2, <2>4 DEF Least
  <2>5. QED
    BY <2>1, <2>3, <2>4
<1>6. q.current_len = q.total_len <=> k >= LastFrame(p.msg)
  BY <1>1, <1>2, <1>4, <1>5
<1>7. ASSUME q.current_len # q.total_len
      PROVE  /\ q.current_len \in 4 .. 253 /\ q.current_len < q.total_len
             /\ q.current_len = 4 + 7 * (Len(q.buffer) - 1)
  <2>1. p.total_len \in 6 .. 253
    BY <1>1
  <2>2. q.current_len = 4 + 7 * k /\ 4 + 7 * k < p.total_len
    BY <1>2, <1>5, <1>7
  <2>3. 4 + 7 * k \in 4 .. 253
    BY <1>1, <2>1, <2>2, Unfilled
  <2>4. Len(q.buffer) - 1 = k
    BY <1>1, <1>3
  <2>5. QED
    BY <1>2, <2>2, <2>3, <2>4
<1>8. ASSUME q.current_len # q.total_len PROVE q \in Partials /\ q # NoPartial
  <2>1. NextCount(p.rollingcnt) \in Counts
    BY <1>1, CountNext
  <2>2. q \in [owner : Ecus, msg : Messages, rollingcnt : Counts, total_len : 6 .. 253,
               current_len : 4 .. 253, buffer : Seq(Frames)]
    BY <1>1, <1>2, <1>3, <1>7, <1>8, <2>1
  <2>3. QED
    BY <1>2, <2>2, NoneAssumption DEF Partials, NoPartial
<1>9. QED
  BY <1>2, <1>3, <1>6, <1>7, <1>8

\* What an ECU is at after a consecutive frame.
LEMMA ContinueSends ==
  ASSUME IInv, NEW e \in Ecus, Continue(e)
  PROVE  /\ sending[e] \in [msg : Messages, n : Nat, count : Counts] /\ sending[e] # Idle
         /\ IdOf[e] \in CanIds /\ sending[e].n < LastFrame(sending[e].msg)
         /\ LastFrame(sending[e].msg) \in Nat
         /\ NextCount(sending[e].count) \in Counts
         /\ Frame(sending[e].msg, sending[e].n + 1) \in Frames
         /\ \A f \in Ecus \ {e} : sending'[f] = sending[f]
         /\ sending'[e] = Idle <=> sending[e].n + 1 = LastFrame(sending[e].msg)
         /\ sending[e].msg \in Messages /\ sending[e].n \in Nat
         /\ sending'[e] # Idle =>
              /\ sending'[e].msg = sending[e].msg /\ sending'[e].n = sending[e].n + 1
              /\ sending'[e].count = NextCount(sending[e].count)
         /\ sending' \in [Ecus -> [msg : Messages, n : Nat, count : Counts] \cup {Idle}]
         /\ MoreToSend'
<1> DEFINE s == sending[e]
           t == [msg |-> s.msg, n |-> s.n + 1, count |-> NextCount(s.count)]
<1>1. s # Idle /\ s \in [msg : Messages, n : Nat, count : Counts]
  BY DEF Continue, IInv, TypeOK
<1>2. s.msg \in Messages /\ s.n \in Nat /\ s.count \in Counts
  BY <1>1
<1>3. NextCount(s.count) \in Counts
  BY <1>2, CountNext
<1>4. s.n < LastFrame(s.msg) /\ LastFrame(s.msg) \in Nat
  BY <1>1, <1>2, Lengths DEF IInv, MoreToSend
<1>5. t \in [msg : Messages, n : Nat, count : Counts] /\ t # Idle
  BY <1>2, <1>3, NoneAssumption DEF Idle
<1>6. sending' = [sending EXCEPT ![e] = IF s.n + 1 = LastFrame(s.msg) THEN Idle ELSE t]
  BY DEF Continue
<1>7. /\ \A f \in Ecus \ {e} : sending'[f] = sending[f]
      /\ sending'[e] = IF s.n + 1 = LastFrame(s.msg) THEN Idle ELSE t
      /\ sending' \in [Ecus -> [msg : Messages, n : Nat, count : Counts] \cup {Idle}]
  BY <1>5, <1>6 DEF IInv, TypeOK
<1>8. MoreToSend'
  <2>1. s.n + 1 # LastFrame(s.msg) => t.n < LastFrame(t.msg)
    BY <1>2, <1>4
  <2>2. QED
    BY <1>5, <1>7, <2>1 DEF IInv, MoreToSend
<1>9. t.msg = s.msg /\ t.n = s.n + 1 /\ t.count = NextCount(s.count)
  OBVIOUS
<1>10. IdOf[e] \in CanIds /\ Frame(s.msg, s.n + 1) \in Frames
  BY <1>2, IdOfAssumption DEF Frame, Frames
<1> HIDE DEF t
<1>11. QED
  BY <1>1, <1>2, <1>3, <1>4, <1>5, <1>7, <1>8, <1>9, <1>10

\* A frame that is not appended.
LEMMA PassedStep ==
  ASSUME IInv, NEW e \in Ecus, Continue(e), intact' = intact \ {e},
         UNCHANGED <<partial, answered, tainted, clearing>>,
         \/ UNCHANGED stored
         \/ stored' = [stored EXCEPT ![e] = Frame(sending[e].msg, sending[e].n + 1)]
  PROVE  IInv'
<1> USE DEF IInv
<1> DEFINE frame == Frame(sending[e].msg, sending[e].n + 1)
<1>1. /\ \A f \in Ecus \ {e} : sending'[f] = sending[f] /\ stored'[f] = stored[f]
      /\ stored'[e] \in {stored[e], frame} /\ stored' \in [Ecus -> Frames]
  <2>1. stored \in [Ecus -> Frames] /\ frame \in Frames
    BY ContinueSends DEF TypeOK
  <2>2. \A f \in Ecus \ {e} : sending'[f] = sending[f]
    BY ContinueSends
  <2> HIDE DEF frame
  <2>3. \A f \in Ecus \ {e} : stored'[f] = stored[f]
    BY <2>1 DEF frame
  <2>4. stored'[e] \in {stored[e], frame} /\ stored' \in [Ecus -> Frames]
    BY <2>1 DEF frame
  <2>5. QED
    BY <2>2, <2>3, <2>4
<1>2. TypeOK'
  BY <1>1, ContinueSends DEF TypeOK
<1>3. MoreToSend' /\ PartialsFilled' /\ CleanIsWhole'
  BY ContinueSends DEF PartialsFilled, CleanIsWhole
<1>4. CleanPartials'
  <2>1. ASSUME NEW id \in CanIds \ tainted', partial[id] # NoPartial
        PROVE  CleanFrom(partial[id])'
    <3>1. CleanFrom(partial[id]) /\ partial[id].owner \in Ecus
      BY <2>1 DEF CleanPartials, TypeOK, Partials, NoPartial
    <3>2. CASE partial[id].owner # e
      BY <1>1, <3>1, <3>2 DEF CleanFrom
    <3>3. CASE partial[id].owner = e
      <4> DEFINE last == partial[id].buffer[Len(partial[id].buffer)].n
      <4>1. /\ Sequenced(partial[id].buffer, partial[id].msg)
            /\ sending[e].msg = partial[id].msg /\ last <= sending[e].n
        BY <3>1, <3>3, ContinueSends DEF CleanFrom
      <4>2. last \in Nat
        <5>1. partial[id].buffer \in Seq(Frames)
          BY <2>1, <1>2 DEF TypeOK, Partials
        <5>2. Len(partial[id].buffer) \in 1 .. Len(partial[id].buffer)
          BY <4>1, <5>1 DEF Sequenced
        <5>3. QED
          BY <4>1, <5>2 DEF Sequenced
      <4> HIDE DEF last
      <4>3. sending'[e] # Idle => sending'[e].msg = partial[id].msg /\ last <= sending'[e].n
        <5>1. sending[e].n \in Nat
          BY ContinueSends
        <5>2. sending'[e] # Idle =>
                sending'[e].msg = sending[e].msg /\ sending'[e].n = sending[e].n + 1
          BY ContinueSends
        <5>3. QED
          BY <4>1, <4>2, <5>1, <5>2
      <4>4. \A m \in Messages : frame # Frame(m, 0)
        <5>1. sending[e].n \in Nat
          BY ContinueSends
        <5>2. sending[e].n + 1 # 0 /\ frame.n = sending[e].n + 1 /\ \A m \in Messages : Frame(m, 0).n = 0
          BY <5>1 DEF Frame
        <5> HIDE DEF frame
        <5>3. QED
          BY <5>2
      <4>5. \A m \in Messages : stored'[e] = Frame(m, 0) => partial[id].msg = m /\ last = 0
        BY <1>1, <3>1, <3>3, <4>4 DEF CleanFrom, last
      <4>6. QED
        BY <3>3, <4>1, <4>3, <4>5 DEF CleanFrom, last
    <3>4. QED
      BY <3>2, <3>3
  <2>2. QED
    BY <2>1 DEF CleanPartials
<1>5. IntactHeld'
  <2>1. ASSUME NEW f \in intact', sending'[f] # Idle
        PROVE  f \in Ecus \ {e} /\ IntactFor(f)
    BY <1>1, <2>1 DEF IntactHeld, TypeOK
  <2>2. QED
    BY <1>1, <2>1 DEF IntactHeld, IntactFor
<1>6. QED
  BY <1>2, <1>3, <1>4, <1>5

\* A frame that is appended, whether or not it is the last; an intact message
\* that ends with it is answered.
LEMMA AppendStep ==
  ASSUME IInv, NEW e \in Ecus, Continue(e),
         stored' = [stored EXCEPT ![e] = Frame(sending[e].msg, sending[e].n + 1)],
         AppendNext(e, Frame(sending[e].msg, sending[e].n + 1), NextCount(sending[e].count)),
         UNCHANGED clearing
  PROVE  /\ IInv'
         /\ e \in intact' /\ sending'[e] = Idle =>
              answered'[IdOf[e]].msg = sending[e].msg /\ answered'[IdOf[e]].whole
<1> USE DEF IInv
<1> DEFINE s     == sending[e]
           id    == IdOf[e]
           frame == Frame(s.msg, s.n + 1)
           p     == partial[id]
           q     == Extended(p, frame)
           k     == Len(p.buffer)
<1>1. /\ id \in CanIds /\ s # Idle /\ s.n \in Nat /\ s.msg \in Messages /\ frame \in Frames
      /\ LastFrame(s.msg) \in Nat /\ s.n < LastFrame(s.msg)
      /\ \A f \in Ecus \ {e} : sending'[f] = sending[f]
      /\ sending'[e] = Idle <=> s.n + 1 = LastFrame(s.msg)
      /\ sending'[e] # Idle => /\ sending'[e].msg = s.msg /\ sending'[e].n = s.n + 1
                               /\ sending'[e].count = NextCount(s.count)
  BY ContinueSends
<1>2. /\ p # NoPartial /\ p.rollingcnt = NextCount(s.count)
      /\ tainted' = IF p.owner = e THEN tainted ELSE tainted \cup {id}
      /\ intact' = {f \in intact : IdOf[f] = id => f = e /\ p.owner = e}
      /\ IF q.current_len = q.total_len
           THEN /\ answered' = [answered EXCEPT ![id] =
                     [msg |-> p.msg, whole |-> q.buffer = Whole(p.msg), clean |-> id \notin tainted']]
                /\ partial' = [partial EXCEPT ![id] = NoPartial]
           ELSE partial' = [partial EXCEPT ![id] = q] /\ UNCHANGED answered
  BY DEF AppendNext
<1>3. /\ p \in Partials /\ p.msg \in Messages /\ p.total_len = TotalLen(p.msg)
      /\ p.current_len < p.total_len /\ p.current_len = 4 + 7 * (k - 1)
      /\ p.buffer \in Seq(Frames) /\ k \in Nat /\ k >= 1
  <2>1. p \in Partials /\ p.msg \in Messages /\ p.current_len < p.total_len
    BY <1>1, <1>2, Nothing DEF TypeOK
  <2>2. p.buffer \in Seq(Frames)
    BY <1>2, <2>1 DEF Partials
  <2>3. p.total_len = TotalLen(p.msg) /\ p.current_len = 4 + 7 * (k - 1) /\ k >= 1
    BY <1>1, <1>2 DEF PartialsFilled
  <2>4. QED
    BY <2>1, <2>2, <2>3
<1>4. /\ q.owner = p.owner /\ q.msg = p.msg /\ q.total_len = p.total_len
      /\ q.buffer = Append(p.buffer, frame) /\ Len(q.buffer) = k + 1
      /\ q.rollingcnt = NextCount(p.rollingcnt)
      /\ q.current_len = q.total_len <=> k >= LastFrame(p.msg)
      /\ q.current_len # q.total_len =>
           /\ q \in Partials /\ q # NoPartial /\ q.current_len < q.total_len
           /\ q.current_len = 4 + 7 * (Len(q.buffer) - 1)
  BY <1>1, <1>3, ExtendedFills
<1>5. /\ \A i \in CanIds \ {id} : partial'[i] = partial[i] /\ answered'[i] = answered[i]
      /\ partial'[id] = IF q.current_len = q.total_len THEN NoPartial ELSE q
  BY <1>1, <1>2 DEF TypeOK
<1>6. /\ \A f \in Ecus \ {e} : stored'[f] = stored[f]
      /\ stored'[e] = frame /\ stored' \in [Ecus -> Frames]
  BY <1>1 DEF TypeOK
<1>7. frame.n = s.n + 1 /\ \A m \in Messages : frame # Frame(m, 0)
  <2>1. frame.n = s.n + 1 /\ \A m \in Messages : Frame(m, 0).n = 0
    BY DEF Frame
  <2> HIDE DEF frame
  <2>2. QED
    BY <1>1, <2>1
<1>8. ASSUME id \notin tainted'
      PROVE  /\ id \notin tainted /\ p.owner = e /\ p.msg = s.msg /\ tainted' = tainted
             /\ Sequenced(q.buffer, p.msg) /\ q.buffer[Len(q.buffer)].n = s.n + 1
  <2>1. id \notin tainted /\ p.owner = e /\ tainted' = tainted
    BY <1>2, <1>8
  <2>2. CleanFrom(p)
    BY <1>1, <1>2, <2>1 DEF CleanPartials
  <2>3. Sequenced(p.buffer, p.msg) /\ p.msg = s.msg /\ p.buffer[k].n <= s.n
    BY <1>1, <2>1, <2>2 DEF CleanFrom
  <2>4. p.buffer[k].n \in Nat
    BY <1>3, <2>3 DEF Sequenced
  <2>5. p.buffer[k].n < s.n + 1 /\ s.n + 1 \in Nat
    BY <1>1, <2>3, <2>4
  <2>6. Sequenced(Append(p.buffer, frame), p.msg)
    BY <1>1, <1>3, <2>3, <2>5, SequencedAppend
  <2>7. q.buffer[Len(q.buffer)] = frame
    BY <1>1, <1>3, <1>4
  <2>8. QED
    BY <1>4, <1>7, <2>1, <2>3, <2>6, <2>7
<1>9. ASSUME q.current_len = q.total_len, id \notin tainted' PROVE q.buffer = Whole(p.msg)
  <2>1. q.buffer \in Seq(Frames) /\ Len(q.buffer) - 1 >= LastFrame(p.msg)
    <3>1. q.buffer = Append(p.buffer, frame) /\ Len(q.buffer) = k + 1 /\ k >= LastFrame(p.msg)
      BY <1>4, <1>9
    <3>2. LastFrame(p.msg) \in Nat
      BY <1>3, Lengths
    <3> HIDE DEF q, frame
    <3>3. q.buffer \in Seq(Frames)
      BY <1>1, <1>3, <3>1
    <3>4. QED
      BY <1>3, <3>1, <3>2, <3>3
  <2>2. q.buffer[Len(q.buffer)].n <= LastFrame(p.msg)
    BY <1>1, <1>8, <1>9
  <2>3. QED
    BY <1>3, <1>8, <1>9, <2>1, <2>2, SequencedWhole
<1>10. ASSUME e \in intact'
       PROVE  /\ id \notin tainted' /\ p.owner = e /\ p.msg = s.msg /\ k = s.n + 1
              /\ q.current_len = q.total_len <=> sending'[e] = Idle
  <2>1. IntactFor(e)
    BY <1>1, <1>2, <1>10 DEF IntactHeld
  <2>2. id \notin tainted' /\ p.owner = e /\ p.msg = s.msg /\ k = s.n + 1
    BY <1>2, <2>1 DEF IntactFor
  <2>3. QED
    BY <1>1, <1>4, <2>2
<1> HIDE DEF q
<1>11. q.current_len = q.total_len =>
         /\ answered'[id].msg = p.msg
         /\ answered'[id].whole = (q.buffer = Whole(p.msg))
         /\ answered'[id].clean = (id \notin tainted')
  BY <1>1, <1>2 DEF TypeOK
<1>12. TypeOK'
  <2>1. answered' \in [CanIds -> [msg : Messages \cup {None}, whole : BOOLEAN, clean : BOOLEAN]]
    <3>1. [msg |-> p.msg, whole |-> q.buffer = Whole(p.msg), clean |-> id \notin tainted']
            \in [msg : Messages \cup {None}, whole : BOOLEAN, clean : BOOLEAN]
      BY <1>3, Zenon
    <3>2. QED
      BY <1>1, <1>2, <3>1 DEF TypeOK
  <2>2. partial' \in [CanIds -> Partials]
    <3>1. NoPartial \in Partials
      BY DEF Partials
    <3>2. QED
      BY <1>1, <1>2, <1>4, <3>1 DEF TypeOK
  <2>3. tainted' \subseteq CanIds /\ intact' \subseteq Ecus
    BY <1>1, <1>2 DEF TypeOK
  <2>4. \A i \in CanIds : partial'[i] # NoPartial => partial'[i].current_len < partial'[i].total_len
    BY <1>4, <1>5 DEF TypeOK
  <2>5. QED
    BY <1>6, <2>1, <2>2, <2>3, <2>4, ContinueSends DEF TypeOK
<1>13. PartialsFilled'
  <2>1. IdOf[q.owner] = id /\ q.total_len = TotalLen(q.msg) /\ Len(q.buffer) >= 1
    BY <1>1, <1>2, <1>3, <1>4 DEF PartialsFilled
  <2>2. QED
    BY <1>4, <1>5, <2>1 DEF PartialsFilled
<1>14. CleanPartials'
  <2>1. ASSUME id \notin tainted', partial'[id] # NoPartial PROVE CleanFrom(partial[id])'
    <3>1. partial'[id] = q
      BY <1>5, <2>1
    <3>2. sending'[e] # Idle => sending'[e].msg = q.msg /\ s.n + 1 <= sending'[e].n
      BY <1>1, <1>4, <1>8, <2>1
    <3>3. q.owner = e /\ q.msg = p.msg /\ Sequenced(q.buffer, q.msg) /\ q.buffer[Len(q.buffer)].n = s.n + 1
      BY <1>4, <1>8, <2>1
    <3> HIDE DEF frame
    <3>4. \A m \in Messages : stored'[e] # Frame(m, 0)
      BY <1>6, <1>7
    <3>5. QED
      BY <3>1, <3>2, <3>3, <3>4 DEF CleanFrom
  <2>2. ASSUME NEW i \in CanIds \ tainted', i # id, partial[i] # NoPartial
        PROVE  CleanFrom(partial[i])'
    <3>1. CleanFrom(partial[i]) /\ partial[i].owner \in Ecus \ {e}
      BY <1>2, <2>2 DEF CleanPartials, PartialsFilled, TypeOK, Partials
    <3>2. QED
      BY <1>1, <1>5, <1>6, <2>2, <3>1 DEF CleanFrom
  <2>3. QED
    <3>1. \A i \in CanIds \ tainted' : partial'[i] # NoPartial => CleanFrom(partial[i])'
      BY <1>5, <2>1, <2>2
    <3>2. QED
      BY <3>1 DEF CleanPartials
<1>15. IntactHeld'
  <2>1. ASSUME e \in intact', sending'[e] # Idle PROVE IntactFor(e)'
    <3>1. partial'[id] = q /\ q # NoPartial
      BY <1>4, <1>5, <1>10, <2>1
    <3>2. Frame(sending'[e].msg, sending'[e].n) = frame
      BY <1>1, <2>1
    <3>3. Len(q.buffer) = sending'[e].n + 1 /\ q.rollingcnt = NextCount(sending'[e].count)
      BY <1>1, <1>2, <1>4, <1>10, <2>1
    <3>4. QED
      BY <1>1, <1>4, <1>6, <1>10, <2>1, <3>1, <3>2, <3>3 DEF IntactFor
  <2>2. ASSUME NEW f \in intact', f # e, sending'[f] # Idle PROVE IntactFor(f)'
    <3>1. f \in Ecus \ {e} /\ f \in intact /\ IdOf[f] # id /\ IdOf[f] \in CanIds
      BY <1>2, <2>2, IdOfAssumption DEF TypeOK
    <3>2. IntactFor(f) /\ IdOf[f] \notin tainted'
      BY <1>1, <1>2, <2>2, <3>1 DEF IntactHeld, IntactFor
    <3>3. QED
      BY <1>1, <1>5, <1>6, <3>1, <3>2 DEF IntactFor
  <2>3. QED
    BY <2>1, <2>2 DEF IntactHeld
<1>16. CleanIsWhole'
  <2>1. CASE q.current_len = q.total_len
    BY <1>5, <1>9, <1>11, <2>1 DEF CleanIsWhole
  <2>2. CASE q.current_len # q.total_len
    BY <1>2, <2>2 DEF CleanIsWhole
  <2>3. QED
    BY <2>1, <2>2
<1>17. e \in intact' /\ sending'[e] = Idle => answered'[id].msg = s.msg /\ answered'[id].whole
  BY <1>9, <1>10, <1>11
<1>18. QED
  BY <1>12, <1>13, <1>14, <1>15, <1>16, <1>17, ContinueSends

\* A consecutive frame, lost, ignored, appended or nothing new.
LEMMA ContinueStep ==
  ASSUME IInv, NEW e \in Ecus, Continue(e)
  PROVE  /\ IInv'
         /\ e \in intact' /\ sending'[e] = Idle =>
              answered'[IdOf[e]].msg = sending[e].msg /\ answered'[IdOf[e]].whole
<1> DEFINE frame == Frame(sending[e].msg, sending[e].n + 1)
           count == NextCount(sending[e].count)
<1>1. e \in intact => IntactFor(e)
  BY ContinueSends DEF IInv, IntactHeld
<1>2. /\ UNCHANGED clearing
      /\ \/ intact' = intact \ {e} /\ UNCHANGED <<stored, partial, answered, tainted>>
         \/ /\ stored' = [stored EXCEPT ![e] = frame]
            /\ IgnoreNext(e, count) \/ AppendNext(e, frame, count)
         \/ stored[e] = frame /\ UNCHANGED <<stored, partial, answered, tainted, intact>>
  BY DEF Continue
<1>3. CASE intact' = intact \ {e} /\ UNCHANGED <<stored, partial, answered, tainted>>
  BY <1>2, <1>3, PassedStep
<1>4. CASE stored' = [stored EXCEPT ![e] = frame] /\ IgnoreNext(e, count)
  <2>1. e \notin intact /\ UNCHANGED <<partial, answered, tainted, intact>>
    BY <1>1, <1>4 DEF IgnoreNext, IntactFor
  <2>2. intact' = intact \ {e}
    BY <2>1
  <2>3. QED
    BY <1>2, <1>4, <2>1, <2>2, PassedStep
<1>5. CASE stored' = [stored EXCEPT ![e] = frame] /\ AppendNext(e, frame, count)
  BY <1>2, <1>5, AppendStep
<1>6. CASE stored[e] = frame /\ UNCHANGED <<stored, partial, answered, tainted, intact>>
  <2>1. sending[e].n \in Nat /\ sending[e].msg # None
    BY ContinueSends, NoneAssumption
  <2>2. frame.n = sending[e].n + 1 /\ Frame(sending[e].msg, sending[e].n).n = sending[e].n
        /\ frame.msg = sending[e].msg /\ NoFrame.msg = None
    BY DEF Frame, NoFrame
  <2>3. stored[e] \notin {Frame(sending[e].msg, sending[e].n), NoFrame}
    BY <1>6, <2>1, <2>2
  <2>4. e \notin intact
    BY <1>1, <2>3 DEF IntactFor
  <2>5. intact' = intact \ {e}
    BY <1>6, <2>4
  <2>6. QED
    BY <1>2, <1>6, <2>4, <2>5, PassedStep
<1>7. QED
  BY <1>2, <1>3, <1>4, <1>5, <1>6

-----------------------------------------------------------------------------
(* The other steps.                                                        *)

LEMMA GiveUpStep == ASSUME IInv, NEW e \in Ecus, GiveUp(e) PROVE IInv'
<1> USE DEF IInv, GiveUp
<1>1. /\ \A f \in Ecus : sending'[f] = IF f = e THEN Idle ELSE sending[f]
      /\ sending' \in [Ecus -> [msg : Messages, n : Nat, count : Counts] \cup {Idle}]
  BY DEF TypeOK
<1>2. TypeOK' /\ MoreToSend' /\ PartialsFilled' /\ CleanIsWhole'
  BY <1>1 DEF TypeOK, MoreToSend, PartialsFilled, CleanIsWhole
<1>3. CleanPartials'
  <2>1. ASSUME NEW id \in CanIds \ tainted', partial[id] # NoPartial PROVE CleanFrom(partial[id])'
    <3>1. CleanFrom(partial[id]) /\ partial[id].owner \in Ecus
      BY <2>1 DEF CleanPartials, TypeOK, Partials, NoPartial
    <3>2. QED
      BY <1>1, <3>1 DEF CleanFrom
  <2>2. QED
    BY <2>1 DEF CleanPartials
<1>4. IntactHeld'
  <2>1. ASSUME NEW f \in intact', sending'[f] # Idle PROVE f \in Ecus \ {e} /\ IntactFor(f)
    BY <1>1, <2>1 DEF IntactHeld, TypeOK
  <2>2. QED
    BY <1>1, <2>1 DEF IntactHeld, IntactFor
<1>5. QED
  BY <1>2, <1>3, <1>4

\* A single frame, and the two steps of clearFrames(), leave what ECUs send alone.
LEMMA SingleStep == ASSUME IInv, NEW e \in Ecus, Single(e) PROVE IInv'
<1> USE DEF IInv, Single, histories
<1>1. SingleFrame \in Frames /\ \A m \in Messages : SingleFrame # Frame(m, 0)
  <2>1. SingleFrame.n = 1 /\ \A m \in Messages : Frame(m, 0).n = 0
    BY DEF SingleFrame, Frame
  <2>2. SingleFrame \in Frames
    BY DEF Frames
  <2>3. QED
    BY <2>1, <2>2
<1>2. /\ \A f \in Ecus : stored'[f] = IF f = e THEN SingleFrame ELSE stored[f]
      /\ stored' \in [Ecus -> Frames]
  BY <1>1 DEF TypeOK
<1>3. TypeOK' /\ MoreToSend' /\ PartialsFilled' /\ CleanIsWhole'
  BY <1>2 DEF TypeOK, MoreToSend, PartialsFilled, CleanIsWhole
<1>4. CleanPartials'
  <2>1. ASSUME NEW id \in CanIds \ tainted', partial[id] # NoPartial PROVE CleanFrom(partial[id])'
    <3>1. CleanFrom(partial[id]) /\ partial[id].owner \in Ecus
      BY <2>1 DEF CleanPartials, TypeOK, Partials, NoPartial
    <3>2. QED
      BY <1>1, <1>2, <3>1 DEF CleanFrom
  <2>2. QED
    BY <2>1 DEF CleanPartials
<1>5. IntactHeld'
  <2>1. ASSUME NEW f \in intact', sending'[f] # Idle PROVE f \in Ecus \ {e} /\ IntactFor(f)
    BY <2>1 DEF IntactHeld, TypeOK
  <2>2. QED
    BY <1>2, <2>1 DEF IntactHeld, IntactFor
<1>6. QED
  BY <1>3, <1>4, <1>5

LEMMA ResetStep == ASSUME IInv, Reset PROVE IInv'
<1> USE DEF IInv, Reset
<1>1. partial' \in [CanIds -> Partials] /\ \A id \in CanIds : partial'[id] = NoPartial
  BY DEF Partials
<1>2. TypeOK' /\ MoreToSend' /\ PartialsFilled' /\ CleanIsWhole'
  BY <1>1 DEF TypeOK, MoreToSend, PartialsFilled, CleanIsWhole
<1>3. CleanPartials' /\ IntactHeld'
  BY <1>1 DEF CleanPartials, IntactHeld
<1>4. QED
  BY <1>2, <1>3

LEMMA ClearStep == ASSUME IInv, ClearFrames PROVE IInv'
<1> USE DEF IInv, ClearFrames, histories
<1>1. NoFrame \in Frames /\ \A m \in Messages : NoFrame # Frame(m, 0)
  <2>1. NoFrame.msg = None /\ \A m \in Messages : Frame(m, 0).msg = m
    BY DEF NoFrame, Frame
  <2>2. QED
    BY <2>1, NoneAssumption DEF Frames
<1>2. stored' \in [Ecus -> Frames] /\ \A f \in Ecus : stored'[f] = NoFrame
  BY <1>1
<1>3. TypeOK' /\ MoreToSend' /\ PartialsFilled' /\ CleanIsWhole'
  BY <1>2 DEF TypeOK, MoreToSend, PartialsFilled, CleanIsWhole
<1>4. CleanPartials'
  <2>1. ASSUME NEW id \in CanIds \ tainted', partial[id] # NoPartial PROVE CleanFrom(partial[id])'
    <3>1. CleanFrom(partial[id]) /\ partial[id].owner \in Ecus
      BY <2>1 DEF CleanPartials, TypeOK, Partials, NoPartial
    <3>2. QED
      BY <1>1, <1>2, <3>1 DEF CleanFrom
  <2>2. QED
    BY <2>1 DEF CleanPartials
<1>5. IntactHeld'
  BY <1>2 DEF IntactHeld, IntactFor, TypeOK
<1>6. QED
  BY <1>3, <1>4, <1>5

LEMMA InitInv == Init => IInv
<1> SUFFICES ASSUME Init PROVE IInv
  OBVIOUS
<1> USE DEF Init
<1>1. TypeOK
  <2>1. NoFrame \in Frames /\ NoPartial \in Partials
    BY DEF Frames, Partials
  <2>2. NoResponse \in [msg : Messages \cup {None}, whole : BOOLEAN, clean : BOOLEAN]
    BY DEF NoResponse
  <2>3. QED
    BY <2>1, <2>2 DEF TypeOK
<1>2. \A id \in CanIds : answered[id] = NoResponse /\ ~NoResponse.clean
  BY DEF NoResponse
<1>3. MoreToSend /\ PartialsFilled /\ CleanPartials /\ IntactHeld /\ CleanIsWhole
  BY <1>2 DEF MoreToSend, PartialsFilled, CleanPartials, IntactHeld, CleanIsWhole
<1>4. QED
  BY <1>1, <1>3 DEF IInv

LEMMA StepInv == IInv /\ [Next]_vars => IInv'
<1> SUFFICES ASSUME IInv, [Next]_vars PROVE IInv'
  OBVIOUS
<1>1. CASE UNCHANGED vars
  BY <1>1 DEF vars, histories, IInv, TypeOK, MoreToSend, PartialsFilled, CleanPartials,
              CleanFrom, IntactHeld, IntactFor, CleanIsWhole
<1>2. CASE Next
  BY <1>2, RespondStep, ContinueStep, GiveUpStep, SingleStep, ResetStep, ClearStep DEF Next
<1>3. QED
  BY <1>1, <1>2

-----------------------------------------------------------------------------
(* The theorems.                                                           *)

\* The reassembly's state keeps its types, and total_len - current_len of a partial
\* message never wraps, whatever frames OBD2::processFrame is given.
THEOREM TypeCorrect == Spec => []TypeOK
<1>1. IInv => TypeOK
  BY DEF IInv
<1>2. QED
  BY <1>1, InitInv, StepInv, PTL DEF Spec

\* A response OBD2::processFrame completes without a first frame lost or an ECU
\* taken for another holds every frame of one message, in order.
THEOREM Reassembled == Spec => []CleanIsWhole
<1>1. IInv => CleanIsWhole
  BY DEF IInv
<1>2. QED
  BY <1>1, InitInv, StepInv, PTL DEF Spec

\* A message none of whose frames is missed reaches processOBDResponse with its last.
THEOREM Answered == Spec => IntactIsAnswered
<1> DEFINE Ends(e) ==
             e \in intact' /\ sending[e] # Idle /\ sending'[e] = Idle
               => answered'[IdOf[e]].msg = sending[e].msg /\ answered'[IdOf[e]].whole
<1>1. ASSUME IInv, Next, NEW e \in Ecus PROVE Ends(e)
  <2>1. CASE sending'[e] = sending[e]
    BY <2>1
  <2>2. ASSUME NEW f \in Ecus, NEW m \in Messages, Respond(f, m) PROVE Ends(e)
    <3>1. sending[f] = Idle /\ sending' = [sending EXCEPT ![f] = [msg |-> m, n |-> 0, count |-> 0]]
      BY <2>2 DEF Respond
    <3>2. e # f => sending'[e] = sending[e]
      BY <1>1, <3>1 DEF IInv, TypeOK
    <3>3. QED
      BY <3>1, <3>2
  <2>3. ASSUME NEW f \in Ecus, Continue(f) PROVE Ends(e)
    BY <1>1, <2>3, ContinueStep, ContinueSends
  <2>4. ASSUME NEW f \in Ecus, GiveUp(f) PROVE Ends(e)
    BY <1>1, <2>4 DEF GiveUp, IInv, TypeOK
  <2>5. QED
    BY <1>1, <2>1, <2>2, <2>3, <2>4 DEF Next, Single, Reset, ClearFrames
<1>2. IInv /\ [Next]_vars => [\A e \in Ecus : Ends(e)]_vars
  BY <1>1
<1>3. QED
  BY <1>2, InitInv, StepInv, PTL DEF Spec, IntactIsAnswered
=============================================================================
