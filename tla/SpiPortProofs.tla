--------------------------- MODULE SpiPortProofs ---------------------------
(***************************************************************************)
(* Theorems about SpiPort, for frames of every length and every pace of    *)
(* the port.  Each function of SG2_CC2420.c carries a proof outline: a     *)
(* label before each of its steps, which says what is known there of the   *)
(* port, such that every step leads from its label to the next one.        *)
(***************************************************************************)
EXTENDS SpiPort, SequenceTheorems, TLAPS

(* Every call but CC2420_write_RAM, which waits for BSY alone. *)
Waiting == [f : {"cmd_strobe", "write_reg", "read_reg"}]
           \cup [f : {"write_TXFIFO"}, length : Nat]
           \cup [f : {"read_RXFIFO"}, pktlen : 0 .. 255, max : 0 .. 255]
NoAddressWrites == Calls \subseteq Waiting

(* held: the caller has the lock; sel: CSn is low; quiet: nothing is in    *)
(* the transmit queue or on the wires; owed: bytes put whose answers were  *)
(* not taken, at most; exact: exactly that many, and their answers come in *)
(* order; taken: the call took answers.                                    *)
Labels == [held : BOOLEAN, sel : BOOLEAN, quiet : BOOLEAN, owed : 0 .. FIFO_DEPTH,
           exact : BOOLEAN, taken : BOOLEAN]

Inside(s, q, o, e, t) ==
  [held |-> TRUE, sel |-> s, quiet |-> q, owed |-> o, exact |-> e, taken |-> t]
Idle == [held |-> FALSE, sel |-> FALSE, quiet |-> TRUE, owed |-> FIFO_DEPTH,
         exact |-> FALSE, taken |-> FALSE]

Follows(step, l, m) ==
  \/ step = "lock" /\ l = Idle /\ m = Inside(FALSE, TRUE, FIFO_DEPTH, FALSE, FALSE)
  \/ /\ l.held
     /\ \/ step = "drain" /\ l.quiet /\ m = Inside(l.sel, TRUE, 0, FALSE, l.taken)
        \/ step = "until_idle" /\ l.quiet /\ m = l
        \/ /\ step = "select" /\ ~l.sel /\ l.quiet /\ l.owed = 0 /\ ~l.taken
           /\ m = Inside(TRUE, TRUE, 0, TRUE, FALSE)
        \/ /\ step = "put" /\ l.sel /\ l.owed < FIFO_DEPTH
           /\ m = Inside(TRUE, FALSE, l.owed + 1, l.exact, l.taken)
        \/ step = "wait" /\ m = Inside(l.sel, TRUE, l.owed, l.exact, l.taken)
        \/ /\ step = "get" /\ l.exact /\ l.quiet /\ l.owed > 0
           /\ m = Inside(l.sel, TRUE, l.owed - 1, TRUE, TRUE)
        \/ step = "deselect" /\ l.sel /\ l.quiet /\ m = Inside(FALSE, TRUE, l.owed, l.exact, l.taken)
        \/ step = "unlock" /\ ~l.sel /\ l.quiet /\ m = Idle

(* The steps s lead from label l to label m. *)
Outline(s, lab) ==
  /\ lab \in [1 .. Len(s) + 1 -> Labels]
  /\ \A i \in 1 .. Len(s) : Follows(s[i], lab[i], lab[i + 1])
Leads(s, l, m) ==
  /\ s \in Seq(StepNames)
  /\ \E lab : Outline(s, lab) /\ lab[1] = l /\ lab[Len(s) + 1] = m
-----------------------------------------------------------------------------
LEMMA Depth == FIFO_DEPTH \in Nat
  BY DEF FIFO_DEPTH

LEMMA InsideLabel ==
  \A s, q, e, t \in BOOLEAN, o \in 0 .. FIFO_DEPTH : Inside(s, q, o, e, t) \in Labels
  BY DEF Inside, Labels

LEMMA IdleLabel == Idle \in Labels
  BY DEF Idle, Labels, FIFO_DEPTH

(* One after the other. *)
LEMMA Joined ==
  ASSUME NEW s, NEW t, NEW l, NEW m, NEW n, Leads(s, l, m), Leads(t, m, n)
  PROVE  Leads(s \o t, l, n)
<1>1. /\ s \in Seq(StepNames) /\ t \in Seq(StepNames)
      /\ Len(s) \in Nat /\ Len(t) \in Nat
  BY DEF Leads
<1>2. PICK a : Outline(s, a) /\ a[1] = l /\ a[Len(s) + 1] = m
  BY DEF Leads
<1>3. PICK b : Outline(t, b) /\ b[1] = m /\ b[Len(t) + 1] = n
  BY DEF Leads
<1> DEFINE lab == [i \in 1 .. Len(s) + Len(t) + 1 |-> IF i =< Len(s) THEN a[i] ELSE b[i - Len(s)]]
<1>4. /\ s \o t \in Seq(StepNames)
      /\ Len(s \o t) = Len(s) + Len(t)
      /\ \A i \in 1 .. Len(s) : (s \o t)[i] = s[i]
      /\ \A i \in Len(s) + 1 .. Len(s) + Len(t) : (s \o t)[i] = t[i - Len(s)]
  BY <1>1
<1>5. \A i \in 1 .. Len(s) + 1 : i \in 1 .. Len(s) + Len(t) + 1 /\ lab[i] = a[i]
  BY <1>1, <1>2, <1>3
<1>6. \A i \in Len(s) + 1 .. Len(s) + Len(t) + 1 : lab[i] = b[i - Len(s)]
  BY <1>1, <1>2, <1>3
<1>7. \A i \in 1 .. Len(s) + Len(t) + 1 : lab[i] \in Labels
  <2>1. \A i \in 1 .. Len(s) + 1 : a[i] \in Labels
    BY <1>2 DEF Outline
  <2>2. \A i \in 1 .. Len(t) + 1 : b[i] \in Labels
    BY <1>3 DEF Outline
  <2>3. \A i \in Len(s) + 1 .. Len(s) + Len(t) + 1 : i - Len(s) \in 1 .. Len(t) + 1
    BY <1>1
  <2>4. \A i \in 1 .. Len(s) + Len(t) + 1 : i \in 1 .. Len(s) + 1 \/ i \in Len(s) + 1 .. Len(s) + Len(t) + 1
    BY <1>1
  <2> HIDE DEF lab
  <2> QED BY <1>5, <1>6, <2>1, <2>2, <2>3, <2>4
<1>8. lab[1] = l /\ lab[Len(s \o t) + 1] = n
  BY <1>1, <1>2, <1>3, <1>4, <1>5, <1>6
<1>9. lab \in [1 .. Len(s \o t) + 1 -> Labels]
  BY <1>4, <1>7
<1>10. ASSUME NEW i \in 1 .. Len(s \o t) PROVE Follows((s \o t)[i], lab[i], lab[i + 1])
  <2> HIDE DEF lab
  <2>1. CASE i \in 1 .. Len(s)
    <3>1. i \in 1 .. Len(s) + 1 /\ i + 1 \in 1 .. Len(s) + 1
      BY <1>1, <2>1
    <3> QED BY <1>2, <1>4, <1>5, <2>1, <3>1 DEF Outline
  <2>2. CASE i \in Len(s) + 1 .. Len(s) + Len(t)
    <3> DEFINE j == i - Len(s)
    <3>1. /\ j \in 1 .. Len(t) /\ (i + 1) - Len(s) = j + 1
          /\ i \in Len(s) + 1 .. Len(s) + Len(t) + 1
          /\ i + 1 \in Len(s) + 1 .. Len(s) + Len(t) + 1
      BY <1>1, <2>2
    <3>2. Follows(t[j], b[j], b[j + 1])
      BY <1>3, <3>1 DEF Outline
    <3> QED BY <1>4, <1>6, <2>2, <3>1, <3>2
  <2> QED BY <1>1, <1>4, <2>1, <2>2
<1> HIDE DEF lab
<1> QED BY <1>4, <1>8, <1>9, <1>10 DEF Leads, Outline

(* A single step. *)
LEMMA Single ==
  ASSUME NEW step \in StepNames, NEW l \in Labels, NEW m \in Labels, Follows(step, l, m)
  PROVE  Leads(<< step >>, l, m)
<1> DEFINE lab == << l, m >>
<1>1. /\ << step >> \in Seq(StepNames) /\ Len(<< step >>) = 1 /\ << step >>[1] = step
      /\ lab[1] = l /\ lab[2] = m /\ lab \in [1 .. 2 -> Labels]
  OBVIOUS
<1>2. Outline(<< step >>, lab)
  BY <1>1 DEF Outline
<1> QED BY <1>1, <1>2 DEF Leads

LEMMA Pair ==
  ASSUME NEW x \in StepNames, NEW y \in StepNames, NEW l \in Labels, NEW m \in Labels,
         NEW n \in Labels, Follows(x, l, m), Follows(y, m, n)
  PROVE  Leads(<< x, y >>, l, n)
<1> DEFINE lab == << l, m, n >>
<1>1. /\ << x, y >> \in Seq(StepNames) /\ Len(<< x, y >>) = 2
      /\ << x, y >>[1] = x /\ << x, y >>[2] = y
      /\ lab[1] = l /\ lab[2] = m /\ lab[3] = n /\ lab \in [1 .. 3 -> Labels]
  OBVIOUS
<1>2. Outline(<< x, y >>, lab)
  <2>1. \A i \in 1 .. 2 : i = 1 \/ i = 2
    OBVIOUS
  <2> QED BY <1>1, <2>1 DEF Outline
<1> QED BY <1>1, <1>2 DEF Leads

(* What is left after the first step. *)
LEMMA Onwards ==
  ASSUME NEW s, NEW l, NEW m, Leads(s, l, m), s # << >>
  PROVE  /\ Head(s) \in StepNames /\ Tail(s) \in Seq(StepNames)
         /\ \E k \in Labels : Follows(Head(s), l, k) /\ Leads(Tail(s), k, m)
<1>1. /\ s \in Seq(StepNames) /\ Len(s) \in Nat /\ Len(s) > 0
      /\ Head(s) = s[1] /\ Tail(s) \in Seq(StepNames) /\ Len(Tail(s)) = Len(s) - 1
      /\ \A i \in 1 .. Len(s) - 1 : Tail(s)[i] = s[i + 1]
      /\ s[1] \in StepNames
  BY DEF Leads
<1>2. PICK lab : Outline(s, lab) /\ lab[1] = l /\ lab[Len(s) + 1] = m
  BY DEF Leads
<1> DEFINE rest == [i \in 1 .. Len(s) |-> lab[i + 1]]
<1>3. Follows(s[1], l, lab[2]) /\ lab[2] \in Labels
  BY <1>1, <1>2 DEF Outline
<1>4. /\ rest \in [1 .. Len(Tail(s)) + 1 -> Labels] /\ rest[1] = lab[2]
      /\ rest[Len(Tail(s)) + 1] = m
  BY <1>1, <1>2 DEF Outline
<1>5. ASSUME NEW i \in 1 .. Len(Tail(s)) PROVE Follows(Tail(s)[i], rest[i], rest[i + 1])
  BY <1>1, <1>2 DEF Outline
<1>6. Outline(Tail(s), rest)
  BY <1>4, <1>5 DEF Outline
<1>7. Leads(Tail(s), lab[2], m)
  BY <1>1, <1>4, <1>6 DEF Leads
<1> QED BY <1>1, <1>3, <1>7

LEMMA EmptyLeads == ASSUME NEW l \in Labels PROVE Leads(<< >>, l, l)
<1> DEFINE lab == << l >>
<1>1. << >> \in Seq(StepNames) /\ Len(<< >>) = 0 /\ lab \in [1 .. 1 -> Labels] /\ lab[1] = l
  OBVIOUS
<1> HIDE DEF lab
<1>2. Outline(<< >>, lab)
  BY <1>1 DEF Outline
<1> QED BY <1>1, <1>2 DEF Leads

LEMMA Nothing == ASSUME NEW l \in Labels, NEW m, Leads(<< >>, l, m) PROVE l = m
  BY DEF Leads, Outline
-----------------------------------------------------------------------------
(* What each step does to a label. *)
LEMMA StepEffects ==
  ASSUME NEW s \in BOOLEAN, NEW q \in BOOLEAN, NEW e \in BOOLEAN, NEW t \in BOOLEAN,
         NEW o \in 0 .. FIFO_DEPTH
  PROVE  /\ o < FIFO_DEPTH =>
              Follows("put", Inside(TRUE, q, o, e, t), Inside(TRUE, FALSE, o + 1, e, t))
         /\ o > 0 => Follows("get", Inside(s, TRUE, o, TRUE, t), Inside(s, TRUE, o - 1, TRUE, TRUE))
         /\ Follows("wait", Inside(s, q, o, e, t), Inside(s, TRUE, o, e, t))
         /\ Follows("drain", Inside(s, TRUE, o, e, t), Inside(s, TRUE, 0, FALSE, t))
         /\ Follows("until_idle", Inside(s, TRUE, o, e, t), Inside(s, TRUE, o, e, t))
         /\ Follows("deselect", Inside(TRUE, TRUE, o, e, t), Inside(FALSE, TRUE, o, e, t))
         /\ Follows("unlock", Inside(FALSE, TRUE, o, e, t), Idle)
  BY DEF Follows, Inside

(* n bytes put, which a wait sees shifted out; n answers taken. *)
LEMMA PutsShifted ==
  ASSUME NEW n \in 0 .. FIFO_DEPTH, NEW q \in BOOLEAN, NEW e \in BOOLEAN, NEW t \in BOOLEAN,
         NEW o \in 0 .. FIFO_DEPTH, o + n =< FIFO_DEPTH
  PROVE  /\ Inside(TRUE, TRUE, o + n, e, t) \in Labels
         /\ \E l \in Labels : /\ Leads(Put(n), Inside(TRUE, q, o, e, t), l)
                              /\ Follows("wait", l, Inside(TRUE, TRUE, o + n, e, t))
<1> DEFINE p(i) == IF i = 1 THEN q ELSE FALSE
           l(i) == Inside(TRUE, p(i), o + i - 1, e, t)
           lab == [i \in 1 .. n + 1 |-> l(i)]
<1>1. /\ Put(n) \in Seq(StepNames) /\ Len(Put(n)) = n
      /\ \A i \in 1 .. n : Put(n)[i] = "put"
  BY Depth DEF Put, Times, StepNames
<1>2. \A i \in 1 .. n + 1 : /\ p(i) \in BOOLEAN /\ o + i - 1 \in 0 .. FIFO_DEPTH
                            /\ i =< n => o + i - 1 < FIFO_DEPTH /\ p(i + 1) = FALSE
  <2>1. \A i \in 1 .. n + 1 : /\ o + i - 1 \in 0 .. FIFO_DEPTH /\ i + 1 # 1
                              /\ i =< n => o + i - 1 < FIFO_DEPTH
    BY Depth
  <2>2. \A i : p(i) \in BOOLEAN
    BY Zenon
  <2>3. \A i : i # 1 => p(i) = FALSE
    BY Zenon
  <2> HIDE DEF p
  <2> QED BY <2>1, <2>2, <2>3
<1> HIDE DEF p
<1>3. \A i \in 1 .. n + 1 : l(i) \in Labels
  BY <1>2, InsideLabel
<1>4. \A i \in 1 .. n : Follows("put", l(i), l(i + 1))
  <2>1. SUFFICES ASSUME NEW i \in 1 .. n PROVE Follows("put", l(i), l(i + 1))
    OBVIOUS
  <2>2. /\ p(i) \in BOOLEAN /\ o + i - 1 \in 0 .. FIFO_DEPTH /\ o + i - 1 < FIFO_DEPTH
        /\ (o + i - 1) + 1 = o + (i + 1) - 1
        /\ p(i + 1) = FALSE
    <3>1. i \in 1 .. n + 1 /\ i =< n
      BY Depth
    <3> QED BY <1>2, <3>1, Depth
  <2>3. Follows("put", Inside(TRUE, p(i), o + i - 1, e, t), Inside(TRUE, FALSE, (o + i - 1) + 1, e, t))
    BY <2>2, StepEffects
  <2> QED BY <2>2, <2>3
<1>5. l(1) = Inside(TRUE, q, o, e, t)
  BY Depth DEF p
<1>6. Follows("wait", l(n + 1), Inside(TRUE, TRUE, o + n, e, t))
  <2>1. p(n + 1) \in BOOLEAN /\ o + (n + 1) - 1 = o + n /\ o + n \in 0 .. FIFO_DEPTH
    BY <1>2, Depth
  <2> QED BY <2>1, StepEffects
<1>7. /\ Inside(TRUE, TRUE, o + n, e, t) \in Labels /\ l(n + 1) \in Labels
      /\ n + 1 \in 1 .. n + 1
  <2>1. o + n \in 0 .. FIFO_DEPTH /\ n + 1 \in 1 .. n + 1
    BY Depth
  <2> QED BY <2>1, <1>3, InsideLabel
<1> HIDE DEF l
<1>8. Outline(Put(n), lab)
  BY <1>1, <1>3, <1>4 DEF Outline
<1>9. lab[1] = l(1) /\ lab[n + 1] = l(n + 1)
  BY <1>7
<1> HIDE DEF lab
<1>10. Leads(Put(n), Inside(TRUE, q, o, e, t), l(n + 1))
  BY <1>1, <1>5, <1>8, <1>9 DEF Leads
<1> QED BY <1>6, <1>7, <1>10

LEMMA GetsAnswers ==
  ASSUME NEW n \in 1 .. FIFO_DEPTH, NEW s \in BOOLEAN, NEW t \in BOOLEAN,
         NEW o \in 0 .. FIFO_DEPTH, n =< o
  PROVE  Leads(Get(n), Inside(s, TRUE, o, TRUE, t), Inside(s, TRUE, o - n, TRUE, TRUE))
<1> DEFINE p(i) == IF i = 1 THEN t ELSE TRUE
           l(i) == Inside(s, TRUE, o - (i - 1), TRUE, p(i))
           lab == [i \in 1 .. n + 1 |-> l(i)]
<1>1. /\ Get(n) \in Seq(StepNames) /\ Len(Get(n)) = n
      /\ \A i \in 1 .. n : Get(n)[i] = "get"
  BY Depth DEF Get, Times, StepNames
<1>2. /\ \A i \in 1 .. n + 1 : p(i) \in BOOLEAN /\ o - (i - 1) \in 0 .. FIFO_DEPTH
      /\ \A i \in 1 .. n : o - (i - 1) > 0 /\ (o - (i - 1)) - 1 = o - ((i + 1) - 1) /\ p(i + 1) = TRUE
      /\ 1 \in 1 .. n + 1 /\ n + 1 \in 1 .. n + 1
      /\ p(1) = t /\ p(n + 1) = TRUE /\ o - (1 - 1) = o /\ o - ((n + 1) - 1) = o - n
  <2>1. /\ \A i \in 1 .. n + 1 : o - (i - 1) \in 0 .. FIFO_DEPTH
        /\ \A i \in 1 .. n : o - (i - 1) > 0 /\ (o - (i - 1)) - 1 = o - ((i + 1) - 1) /\ i + 1 # 1
        /\ 1 \in 1 .. n + 1 /\ n + 1 \in 1 .. n + 1 /\ n + 1 # 1
        /\ o - (1 - 1) = o /\ o - ((n + 1) - 1) = o - n
    BY Depth
  <2>2. (\A i : p(i) \in BOOLEAN) /\ p(1) = t
    BY Zenon
  <2>3. \A i : i # 1 => p(i) = TRUE
    BY Zenon
  <2> HIDE DEF p
  <2> QED BY <2>1, <2>2, <2>3
<1> HIDE DEF p
<1>3. \A i \in 1 .. n + 1 : l(i) \in Labels
  BY <1>2, InsideLabel
<1>4. \A i \in 1 .. n : Follows("get", l(i), l(i + 1))
  <2>1. SUFFICES ASSUME NEW i \in 1 .. n PROVE Follows("get", l(i), l(i + 1))
    OBVIOUS
  <2>2. p(i) \in BOOLEAN /\ o - (i - 1) \in 0 .. FIFO_DEPTH
    <3>1. i \in 1 .. n + 1
      BY Depth
    <3> QED BY <1>2, <3>1
  <2>3. Follows("get", Inside(s, TRUE, o - (i - 1), TRUE, p(i)), Inside(s, TRUE, (o - (i - 1)) - 1, TRUE, TRUE))
    BY <1>2, <2>2, StepEffects
  <2> QED BY <1>2, <2>3
<1>5. l(1) = Inside(s, TRUE, o, TRUE, t) /\ l(n + 1) = Inside(s, TRUE, o - n, TRUE, TRUE)
  BY <1>2
<1> HIDE DEF l
<1>6. Outline(Get(n), lab)
  BY <1>1, <1>3, <1>4 DEF Outline
<1>7. lab[1] = l(1) /\ lab[n + 1] = l(n + 1)
  BY <1>2
<1> HIDE DEF lab
<1> QED BY <1>1, <1>5, <1>6, <1>7 DEF Leads

(* A loop whose body comes back to its label.  The bodies have 33 steps,   *)
(* 16 bytes exchanged, or 19, 16 bytes written and their answers dropped.  *)
LEMMA Loop ==
  ASSUME NEW body, NEW k \in Nat, NEW l, Leads(body, l, l), Len(body) \in {19, 33}
  PROVE  Leads(Times(body, k), l, l)
<1>1. PICK a : Outline(body, a) /\ a[1] = l /\ a[Len(body) + 1] = l
  BY DEF Leads
<1> DEFINE L == Len(body)
           loop == Times(body, k)
           lab == [i \in 1 .. k * L + 1 |-> a[((i - 1) % L) + 1]]
<1>2. k * L \in Nat
  BY SMT
<1>3. \A i \in 1 .. k * L + 1 : ((i - 1) % L) + 1 \in 1 .. L
  <2>1. CASE L = 19
    BY <2>1
  <2>2. CASE L = 33
    BY <2>2
  <2> QED BY <2>1, <2>2
<1>4. /\ loop \in Seq(StepNames) /\ Len(loop) = k * L
      /\ \A i \in 1 .. k * L : loop[i] = body[((i - 1) % L) + 1]
  <2>1. \A i \in 1 .. k * L : body[((i - 1) % L) + 1] \in StepNames
    <3>1. \A j \in 1 .. L : body[j] \in StepNames
      BY DEF Leads
    <3>2. \A i \in 1 .. k * L : i \in 1 .. k * L + 1
      BY <1>2
    <3> HIDE DEF L
    <3> QED BY <1>3, <3>1, <3>2
  <2>2. loop = [i \in 1 .. k * L |-> body[((i - 1) % L) + 1]]
    BY DEF Times
  <2> HIDE DEF L, loop
  <2> QED BY <1>2, <2>1, <2>2
<1>5. \A i \in 1 .. k * L : \/ ((i + 1) - 1) % L = ((i - 1) % L) + 1 /\ ((i - 1) % L) + 2 =< L
                            \/ ((i + 1) - 1) % L = 0 /\ ((i - 1) % L) + 1 = L
  <2>1. CASE L = 19
    BY <2>1
  <2>2. CASE L = 33
    BY <2>2
  <2> QED BY <2>1, <2>2
<1>6. (k * L) % L = 0 /\ 0 % L = 0
  <2>1. CASE L = 19
    BY <2>1
  <2>2. CASE L = 33
    BY <2>2
  <2> QED BY <2>1, <2>2
<1>7. L \in Nat /\ L > 0
  BY SMT
<1>8. \A i \in 1 .. L : Follows(body[i], a[i], a[i + 1])
  BY <1>1 DEF Outline
<1>9. \A i \in 1 .. L + 1 : a[i] \in Labels
  BY <1>1 DEF Outline
<1> HIDE DEF L, loop
<1>10. lab \in [1 .. Len(loop) + 1 -> Labels]
  <2>1. \A i \in 1 .. k * L + 1 : a[((i - 1) % L) + 1] \in Labels
    BY <1>3, <1>7, <1>9
  <2> QED BY <1>4, <2>1
<1>11. lab[1] = l /\ lab[Len(loop) + 1] = l
  <2>1. lab[1] = a[((1 - 1) % L) + 1] /\ lab[k * L + 1] = a[(((k * L + 1) - 1) % L) + 1]
    BY <1>2
  <2>2. (1 - 1) % L = 0 /\ ((k * L + 1) - 1) % L = 0
    BY <1>2, <1>6
  <2> QED BY <1>1, <1>4, <2>1, <2>2
<1>12. ASSUME NEW i \in 1 .. Len(loop) PROVE Follows(loop[i], lab[i], lab[i + 1])
  <2> DEFINE j == ((i - 1) % L) + 1
  <2>1. /\ i \in 1 .. k * L /\ i \in 1 .. k * L + 1 /\ i + 1 \in 1 .. k * L + 1
    BY <1>2, <1>4
  <2>2. j \in 1 .. L
    BY <1>3, <2>1
  <2>3. Follows(body[j], a[j], a[j + 1])
    BY <1>8, <2>2
  <2>4. lab[i] = a[j] /\ loop[i] = body[j]
    BY <1>4, <2>1
  <2>5. lab[i + 1] = a[(((i + 1) - 1) % L) + 1]
    BY <2>1
  <2>6. lab[i + 1] = a[j + 1]
    <3>1. CASE ((i + 1) - 1) % L = ((i - 1) % L) + 1
      BY <2>5, <3>1
    <3>2. CASE ((i + 1) - 1) % L = 0 /\ j = L
      <4>1. a[j + 1] = a[L + 1] /\ a[0 + 1] = a[1]
        BY <3>2
      <4> QED BY <1>1, <2>5, <3>2, <4>1 DEF L
    <3> QED BY <1>5, <2>1, <3>1, <3>2
  <2> HIDE DEF j, lab
  <2> QED BY <2>3, <2>4, <2>6
<1> HIDE DEF lab
<1>13. Outline(loop, lab)
  BY <1>10, <1>12 DEF Outline
<1>14. Leads(loop, l, l)
  BY <1>4, <1>11, <1>13 DEF Leads
<1> QED BY <1>14 DEF loop
-----------------------------------------------------------------------------
(* The proof outlines of the functions. *)
LEMMA Names == {"lock", "drain", "until_idle", "select", "put", "wait", "get",
                "deselect", "unlock"} \subseteq StepNames
  BY DEF StepNames

LEMMA FlushLeads ==
  ASSUME NEW s \in BOOLEAN, NEW o \in 0 .. FIFO_DEPTH, NEW e \in BOOLEAN, NEW t \in BOOLEAN
  PROVE  Leads(Flush, Inside(s, TRUE, o, e, t), Inside(s, TRUE, 0, FALSE, t))
<1>1. 0 \in 0 .. FIFO_DEPTH
  BY Depth
<1>2. /\ Inside(s, TRUE, o, e, t) \in Labels /\ Inside(s, TRUE, 0, FALSE, t) \in Labels
      /\ "drain" \in StepNames /\ "until_idle" \in StepNames
  BY <1>1, InsideLabel, Names
<1>3. /\ Follows("drain", Inside(s, TRUE, o, e, t), Inside(s, TRUE, 0, FALSE, t))
      /\ Follows("until_idle", Inside(s, TRUE, 0, FALSE, t), Inside(s, TRUE, 0, FALSE, t))
  BY <1>1, StepEffects
<1> QED BY <1>2, <1>3, Pair DEF Flush

Opened == Inside(TRUE, TRUE, 0, TRUE, FALSE)

LEMMA OpenLeads == Opened \in Labels /\ Leads(Open, Idle, Opened)
<1> DEFINE in == Inside(FALSE, TRUE, FIFO_DEPTH, FALSE, FALSE)
           flushed == Inside(FALSE, TRUE, 0, FALSE, FALSE)
<1>1. 0 \in 0 .. FIFO_DEPTH /\ FIFO_DEPTH \in 0 .. FIFO_DEPTH
  BY Depth
<1>2. in \in Labels /\ flushed \in Labels /\ Opened \in Labels
  BY <1>1, InsideLabel DEF Opened
<1>3. Leads(<< "lock" >>, Idle, in)
  <2>1. Follows("lock", Idle, in)
    BY DEF Follows
  <2> QED BY <1>2, <2>1, IdleLabel, Names, Single
<1>4. Leads(Flush, in, flushed)
  BY <1>1, FlushLeads
<1>5. Leads(<< "select" >>, flushed, Opened)
  <2>1. Follows("select", flushed, Opened)
    BY DEF Follows, Inside, Opened
  <2> QED BY <1>2, <2>1, Names, Single
<1> QED BY <1>2, <1>3, <1>4, <1>5, Joined DEF Open

LEMMA UnlockLeads ==
  ASSUME NEW o \in 0 .. FIFO_DEPTH, NEW e \in BOOLEAN, NEW t \in BOOLEAN
  PROVE  Leads(<< "unlock" >>, Inside(FALSE, TRUE, o, e, t), Idle)
<1>1. Follows("unlock", Inside(FALSE, TRUE, o, e, t), Idle)
  BY StepEffects
<1>2. Inside(FALSE, TRUE, o, e, t) \in Labels
  BY InsideLabel
<1> QED BY <1>1, <1>2, IdleLabel, Names, Single

LEMMA CloseLeads ==
  ASSUME NEW o \in 0 .. FIFO_DEPTH, NEW e \in BOOLEAN, NEW t \in BOOLEAN
  PROVE  Leads(Close, Inside(TRUE, TRUE, o, e, t), Idle)
<1>1. 0 \in 0 .. FIFO_DEPTH
  BY Depth
<1>2. Leads(<< "deselect" >>, Inside(TRUE, TRUE, o, e, t), Inside(FALSE, TRUE, o, e, t))
  <2>1. Follows("deselect", Inside(TRUE, TRUE, o, e, t), Inside(FALSE, TRUE, o, e, t))
    BY StepEffects
  <2>2. Inside(TRUE, TRUE, o, e, t) \in Labels /\ Inside(FALSE, TRUE, o, e, t) \in Labels
    BY InsideLabel
  <2> QED BY <2>1, <2>2, Names, Single
<1>3. Leads(Flush, Inside(FALSE, TRUE, o, e, t), Inside(FALSE, TRUE, 0, FALSE, t))
  BY FlushLeads
<1>4. Leads(<< "unlock" >>, Inside(FALSE, TRUE, 0, FALSE, t), Idle)
  BY <1>1, UnlockLeads
<1> QED BY <1>2, <1>3, <1>4, Joined DEF Close

(* Up to 16 bytes of a transaction are put and shifted out. *)
LEMMA PutWaitLeads ==
  ASSUME NEW n \in 0 .. FIFO_DEPTH, NEW e \in BOOLEAN, NEW t \in BOOLEAN, NEW s, NEW l0,
         Leads(s, l0, Inside(TRUE, TRUE, 0, e, t))
  PROVE  Leads(s \o Put(n) \o << "wait" >>, l0, Inside(TRUE, TRUE, n, e, t))
<1>1. 0 \in 0 .. FIFO_DEPTH /\ 0 + n =< FIFO_DEPTH /\ 0 + n = n
  BY Depth
<1>2. Inside(TRUE, TRUE, n, e, t) \in Labels
  BY InsideLabel
<1>3. PICK l \in Labels : /\ Leads(Put(n), Inside(TRUE, TRUE, 0, e, t), l)
                          /\ Follows("wait", l, Inside(TRUE, TRUE, n, e, t))
  BY <1>1, PutsShifted
<1>4. Leads(<< "wait" >>, l, Inside(TRUE, TRUE, n, e, t))
  BY <1>2, <1>3, Names, Single
<1> QED BY <1>3, <1>4, Joined

(* Put, wait and deselect, as the functions do that work on registers. *)
LEMMA RegisterLeads ==
  ASSUME NEW n \in 1 .. 3
  PROVE  /\ Leads(Open \o Put(n) \o << "wait", "deselect" >>, Idle, Inside(FALSE, TRUE, n, TRUE, FALSE))
         /\ n \in 0 .. FIFO_DEPTH
<1>1. 0 \in 0 .. FIFO_DEPTH /\ 0 + n =< FIFO_DEPTH /\ 0 + n = n /\ n \in 0 .. FIFO_DEPTH
  BY DEF FIFO_DEPTH
<1>2. Inside(TRUE, TRUE, n, TRUE, FALSE) \in Labels /\ Inside(FALSE, TRUE, n, TRUE, FALSE) \in Labels
  BY <1>1, InsideLabel
<1>3. PICK l \in Labels : /\ Leads(Put(n), Opened, l)
                          /\ Follows("wait", l, Inside(TRUE, TRUE, n, TRUE, FALSE))
  BY <1>1, PutsShifted DEF Opened
<1>4. Follows("deselect", Inside(TRUE, TRUE, n, TRUE, FALSE), Inside(FALSE, TRUE, n, TRUE, FALSE))
  BY <1>1, StepEffects
<1>5. Leads(<< "wait", "deselect" >>, l, Inside(FALSE, TRUE, n, TRUE, FALSE))
  BY <1>2, <1>3, <1>4, Names, Pair
<1> QED BY <1>1, <1>3, <1>5, OpenLeads, Joined

LEMMA StrobeLeads == Leads(cmd_strobe, Idle, Idle)
<1>1. /\ Leads(Open \o Put(1) \o << "wait", "deselect" >>, Idle, Inside(FALSE, TRUE, 1, TRUE, FALSE))
      /\ 1 \in 1 .. FIFO_DEPTH /\ 1 \in 0 .. FIFO_DEPTH /\ 0 \in 0 .. FIFO_DEPTH
      /\ 1 - 1 = 0 /\ 1 =< 1
  <2>1. 1 \in 1 .. 3
    OBVIOUS
  <2>2. Leads(Open \o Put(1) \o << "wait", "deselect" >>, Idle, Inside(FALSE, TRUE, 1, TRUE, FALSE))
    BY <2>1, RegisterLeads, Zenon
  <2>3. 1 \in 1 .. FIFO_DEPTH /\ 1 \in 0 .. FIFO_DEPTH /\ 0 \in 0 .. FIFO_DEPTH /\ 1 - 1 = 0 /\ 1 =< 1
    BY DEF FIFO_DEPTH
  <2> QED BY <2>2, <2>3
<1>2. Leads(Get(1), Inside(FALSE, TRUE, 1, TRUE, FALSE), Inside(FALSE, TRUE, 1 - 1, TRUE, TRUE))
  BY <1>1, GetsAnswers
<1>3. Leads(<< "unlock" >>, Inside(FALSE, TRUE, 0, TRUE, TRUE), Idle)
  BY <1>1, UnlockLeads
<1> QED BY <1>1, <1>2, <1>3, Joined DEF cmd_strobe

LEMMA RegLeads == Leads(write_reg, Idle, Idle) /\ Leads(read_reg, Idle, Idle)
<1>1. /\ Leads(Open \o Put(3) \o << "wait", "deselect" >>, Idle, Inside(FALSE, TRUE, 3, TRUE, FALSE))
      /\ 1 \in 1 .. FIFO_DEPTH /\ 3 \in 1 .. FIFO_DEPTH /\ 3 \in 0 .. FIFO_DEPTH /\ 2 \in 0 .. FIFO_DEPTH
      /\ 0 \in 0 .. FIFO_DEPTH /\ 3 - 1 = 2 /\ 3 - 3 = 0 /\ 1 =< 3 /\ 3 =< 3
  <2>1. 3 \in 1 .. 3
    OBVIOUS
  <2>2. Leads(Open \o Put(3) \o << "wait", "deselect" >>, Idle, Inside(FALSE, TRUE, 3, TRUE, FALSE))
    BY <2>1, RegisterLeads, Zenon
  <2>3. /\ 1 \in 1 .. FIFO_DEPTH /\ 3 \in 1 .. FIFO_DEPTH /\ 3 \in 0 .. FIFO_DEPTH /\ 2 \in 0 .. FIFO_DEPTH
        /\ 0 \in 0 .. FIFO_DEPTH /\ 3 - 1 = 2 /\ 3 - 3 = 0 /\ 1 =< 3 /\ 3 =< 3
    BY DEF FIFO_DEPTH
  <2> QED BY <2>2, <2>3
<1>2. /\ Leads(Get(1), Inside(FALSE, TRUE, 3, TRUE, FALSE), Inside(FALSE, TRUE, 3 - 1, TRUE, TRUE))
      /\ Leads(Get(3), Inside(FALSE, TRUE, 3, TRUE, FALSE), Inside(FALSE, TRUE, 3 - 3, TRUE, TRUE))
  BY <1>1, GetsAnswers
<1>3. /\ Leads(Flush, Inside(FALSE, TRUE, 2, TRUE, TRUE), Inside(FALSE, TRUE, 0, FALSE, TRUE))
      /\ Leads(Flush, Inside(FALSE, TRUE, 0, TRUE, TRUE), Inside(FALSE, TRUE, 0, FALSE, TRUE))
  BY <1>1, FlushLeads
<1>4. Leads(<< "unlock" >>, Inside(FALSE, TRUE, 0, FALSE, TRUE), Idle)
  BY <1>1, UnlockLeads
<1>5. Leads(write_reg, Idle, Idle)
  BY <1>1, <1>2, <1>3, <1>4, Joined DEF write_reg
<1>6. Leads(read_reg, Idle, Idle)
  BY <1>1, <1>2, <1>3, <1>4, Joined DEF read_reg
<1> QED BY <1>5, <1>6

(* The chunks of a frame: full ones, and a last one of at most 16 bytes.   *)
LEMMA Chunked ==
  ASSUME NEW n \in Nat
  PROVE  /\ FullChunks(n) \in Nat /\ LastChunk(n) \in 0 .. FIFO_DEPTH
         /\ n # 0 => LastChunk(n) \in 1 .. FIFO_DEPTH
  BY DEF FullChunks, LastChunk, FIFO_DEPTH

LEMMA ChunkLengths ==
  /\ Len(Put(16) \o << "wait" >> \o Flush) = 19
  /\ Len(Exchange(16)) = 33
<1>1. ASSUME NEW p \in Seq(StepNames), NEW w \in Seq(StepNames), NEW r \in Seq(StepNames)
      PROVE  Len(p \o w \o r) = Len(p) + Len(w) + Len(r)
  OBVIOUS
<1>2. /\ Put(16) \in Seq(StepNames) /\ Len(Put(16)) = 16
      /\ Get(16) \in Seq(StepNames) /\ Len(Get(16)) = 16
  BY DEF Put, Get, Times, StepNames
<1>3. << "wait" >> \in Seq(StepNames) /\ Len(<< "wait" >>) = 1
  BY DEF StepNames
<1>4. Flush \in Seq(StepNames) /\ Len(Flush) = 2
  BY DEF StepNames, Flush
<1>5. /\ Len(Put(16) \o << "wait" >> \o Flush) = Len(Put(16)) + Len(<< "wait" >>) + Len(Flush)
      /\ Len(Put(16) \o << "wait" >> \o Get(16)) = Len(Put(16)) + Len(<< "wait" >>) + Len(Get(16))
  BY <1>1, <1>2, <1>3, <1>4, Zenon
<1>6. 16 + 1 + 2 = 19 /\ 16 + 1 + 16 = 33
  OBVIOUS
<1> QED BY <1>2, <1>3, <1>4, <1>5, <1>6, Zenon DEF Exchange

LEMMA ExchangeLeads ==
  ASSUME NEW n \in 1 .. FIFO_DEPTH, NEW t \in BOOLEAN
  PROVE  Leads(Exchange(n), Inside(TRUE, TRUE, 0, TRUE, t), Inside(TRUE, TRUE, 0, TRUE, TRUE))
<1>1. n \in 0 .. FIFO_DEPTH /\ 0 \in 0 .. FIFO_DEPTH /\ 0 + n =< FIFO_DEPTH /\ 0 + n = n /\ n - n = 0 /\ n =< n
  BY Depth
<1>2. Inside(TRUE, TRUE, n, TRUE, t) \in Labels
  BY <1>1, InsideLabel
<1>3. PICK l \in Labels : Leads(Put(n), Inside(TRUE, TRUE, 0, TRUE, t), l) /\ Follows("wait", l, Inside(TRUE, TRUE, n, TRUE, t))
  BY <1>1, PutsShifted
<1>4. Leads(<< "wait" >>, l, Inside(TRUE, TRUE, n, TRUE, t))
  BY <1>2, <1>3, Names, Single
<1>5. Leads(Get(n), Inside(TRUE, TRUE, n, TRUE, t), Inside(TRUE, TRUE, n - n, TRUE, TRUE))
  BY <1>1, GetsAnswers
<1> QED BY <1>1, <1>3, <1>4, <1>5, Joined DEF Exchange

LEMMA ReadLeads ==
  ASSUME NEW pktlen \in 0 .. 255, NEW max \in 0 .. 255
  PROVE  Leads(read_RXFIFO(pktlen, max), Idle, Idle)
<1> DEFINE n == BytesToRead(pktlen, max)
           R == Inside(TRUE, TRUE, 0, TRUE, TRUE)
           last == IF n = 0 THEN << >> ELSE Exchange(LastChunk(n))
           chunks == Times(Exchange(16), FullChunks(n))
<1>1. n \in Nat
  BY DEF BytesToRead
<1> HIDE DEF n
<1>2. /\ 2 \in 1 .. FIFO_DEPTH /\ 16 \in 1 .. FIFO_DEPTH /\ 0 \in 0 .. FIFO_DEPTH
  BY DEF FIFO_DEPTH
<1>3. R \in Labels
  BY <1>2, InsideLabel
<1>4. Leads(Exchange(2), Opened, R)
  BY <1>2, ExchangeLeads DEF Opened
<1>5. Leads(chunks, R, R)
  <2>1. Leads(Exchange(16), R, R)
    BY <1>2, ExchangeLeads
  <2> QED BY <1>1, <2>1, Chunked, ChunkLengths, Loop
<1>6. Leads(last, R, R)
  <2>1. CASE n = 0
    BY <1>3, <2>1, EmptyLeads
  <2>2. CASE n # 0
    BY <1>1, <2>2, Chunked, ExchangeLeads
  <2> QED BY <2>1, <2>2
<1>7. Leads(<< "deselect", "unlock" >>, R, Idle)
  <2>1. Follows("deselect", R, Inside(FALSE, TRUE, 0, TRUE, TRUE)) /\ Follows("unlock", Inside(FALSE, TRUE, 0, TRUE, TRUE), Idle)
    BY <1>2, StepEffects
  <2>2. Inside(FALSE, TRUE, 0, TRUE, TRUE) \in Labels
    BY <1>2, InsideLabel
  <2> QED BY <1>3, <2>1, <2>2, IdleLabel, Names, Pair
<1>8. Leads(Open \o Exchange(2) \o chunks \o last \o << "deselect", "unlock" >>, Idle, Idle)
  <2> HIDE DEF chunks, last, R
  <2> QED BY <1>4, <1>5, <1>6, <1>7, OpenLeads, Joined
<1> QED BY <1>8 DEF read_RXFIFO, n

LEMMA WriteLeads == ASSUME NEW length \in Nat PROVE Leads(write_TXFIFO(length), Idle, Idle)
<1> DEFINE W(o) == Inside(TRUE, TRUE, o, FALSE, FALSE)
           chunk == Put(16) \o << "wait" >> \o Flush
           chunks == Times(chunk, FullChunks(length))
<1>1. /\ 0 \in 0 .. FIFO_DEPTH /\ 1 \in 0 .. FIFO_DEPTH /\ 16 \in 0 .. FIFO_DEPTH
      /\ 0 + 16 =< FIFO_DEPTH /\ 0 + 16 = 16
  BY DEF FIFO_DEPTH
<1>2. Leads(Open \o Put(1) \o << "wait" >>, Idle, Inside(TRUE, TRUE, 1, TRUE, FALSE))
  BY <1>1, OpenLeads, PutWaitLeads DEF Opened
<1>3. Leads(Flush, Inside(TRUE, TRUE, 1, TRUE, FALSE), W(0))
  BY <1>1, FlushLeads
<1>4. Leads(chunk, W(0), W(0))
  <2>1. PICK l \in Labels : Leads(Put(16), W(0), l) /\ Follows("wait", l, W(16))
    BY <1>1, PutsShifted
  <2>2. W(16) \in Labels
    BY <1>1, InsideLabel
  <2>3. Leads(<< "wait" >>, l, W(16))
    BY <2>1, <2>2, Names, Single
  <2>4. Leads(Flush, W(16), W(0))
    BY <1>1, FlushLeads
  <2> QED BY <2>1, <2>3, <2>4, Joined
<1>5. Leads(chunks, W(0), W(0))
  BY <1>4, Chunked, ChunkLengths, Loop
<1>6. Leads(Open \o Put(1) \o << "wait" >> \o Flush \o chunks, Idle, W(0))
  <2> HIDE DEF chunks
  <2> QED BY <1>2, <1>3, <1>5, Joined
<1>7. Leads(Open \o Put(1) \o << "wait" >> \o Flush \o chunks \o Put(LastChunk(length)) \o << "wait" >>,
            Idle, W(LastChunk(length)))
  <2> HIDE DEF chunks
  <2> QED BY <1>6, Chunked, PutWaitLeads
<1>8. Leads(Close, W(LastChunk(length)), Idle)
  BY Chunked, CloseLeads
<1> QED BY <1>7, <1>8, Joined DEF write_TXFIFO

LEMMA StepsLead == ASSUME NoAddressWrites, NEW c \in Calls PROVE Leads(Steps(c), Idle, Idle)
<1>1. c \in Waiting
  BY DEF NoAddressWrites
<1>2. CASE c.f = "cmd_strobe"
  BY <1>2, StrobeLeads DEF Steps
<1>3. CASE c.f = "write_reg"
  BY <1>3, RegLeads DEF Steps
<1>4. CASE c.f = "read_reg"
  BY <1>4, RegLeads DEF Steps
<1>5. CASE c.f = "write_TXFIFO" /\ c.length \in Nat
  BY <1>5, WriteLeads DEF Steps
<1>6. CASE c.f = "read_RXFIFO" /\ c.pktlen \in 0 .. 255 /\ c.max \in 0 .. 255
  BY <1>6, ReadLeads DEF Steps
<1> QED BY <1>1, <1>2, <1>3, <1>4, <1>5, <1>6 DEF Waiting
-----------------------------------------------------------------------------
(* What a label says of the port while actor a is there; OnTheWay counts   *)
(* the bytes the port has not shifted yet.  Whoever does not hold the lock *)
(* is at the beginning of a function or outside of all, and the port rests *)
(* while nobody holds it.                                                  *)
OnTheWay == level + (IF shifting THEN 1 ELSE 0)

Holds(a, l) ==
  /\ selected <=> l.sel
  /\ l.sel \/ l.quiet
  /\ l.quiet => level = 0 /\ ~shifting
  /\ OnTheWay + Len(rx) =< l.owed
  /\ l.sel => put = chip + OnTheWay
  /\ l.exact => /\ OnTheWay + Len(rx) = l.owed /\ chip = Len(got[a]) + Len(rx)
                /\ \A i \in 1 .. Len(rx) : rx[i] = Len(got[a]) + i
  /\ ~l.taken => got[a] = << >>

PortType == /\ got \in [Actors -> Seq(Nat)] /\ rx \in Seq(Nat)
            /\ level \in Nat /\ put \in Nat /\ chip \in Nat
            /\ shifting \in BOOLEAN /\ selected \in BOOLEAN
            /\ overrun = FALSE
            /\ ~shifting => level < FIFO_DEPTH
            /\ AnswersRight

Waits(a) == got[a] = << >> /\ Leads(todo[a], Idle, Idle)
Works(a) == \E l \in Labels : l.held /\ Holds(a, l) /\ Leads(todo[a], l, Idle)
AtRest == level = 0 /\ ~shifting /\ ~selected /\ Len(rx) =< FIFO_DEPTH

SpiInv == /\ PortType
          /\ owner \in Actors \cup {None} /\ todo \in [Actors -> Seq(StepNames)]
          /\ \A a \in Actors : IF owner = a THEN Works(a) ELSE Waits(a)
          /\ owner = None => AtRest
          /\ owner = "process" => todo["interrupt"] = << >>

LEMMA InitSpiInv == Init => SpiInv
<1> SUFFICES ASSUME Init PROVE SpiInv
  OBVIOUS
<1>1. PortType /\ AtRest
  <2>1. got \in [Actors -> Seq(Nat)] /\ \A a \in Actors : got[a] = << >>
    BY DEF Init
  <2>2. AnswersRight
    BY <2>1 DEF AnswersRight
  <2>3. 0 < FIFO_DEPTH /\ Len(<< >>) = 0 /\ 0 =< FIFO_DEPTH
    BY DEF FIFO_DEPTH
  <2>4. PortType
    <3>1. rx \in Seq(Nat) /\ level \in Nat /\ put \in Nat /\ chip \in Nat
      BY DEF Init
    <3>2. shifting \in BOOLEAN /\ selected \in BOOLEAN /\ ~overrun /\ level < FIFO_DEPTH
      BY <2>3 DEF Init
    <3> QED BY <2>1, <2>2, <3>1, <3>2 DEF PortType
  <2> QED BY <2>3, <2>4, Depth DEF Init, AtRest
<1>2. \A a \in Actors : Waits(a) /\ owner # a
  BY EmptyLeads, IdleLabel, NoneAssumption DEF Init, Waits
<1>3. todo \in [Actors -> Seq(StepNames)] /\ owner = None /\ owner # "process"
  BY NoneAssumption DEF Init, Actors
<1> QED BY <1>1, <1>2, <1>3 DEF SpiInv

(* Only the holder of the lock takes a step other than lock.               *)
LEMMA AtStep ==
  ASSUME SpiInv, NEW a \in Actors, NEW step, At(a, step), step # "lock"
  PROVE  /\ owner = a
         /\ \E l, k \in Labels : /\ l.held /\ Holds(a, l) /\ Follows(step, l, k)
                                /\ Leads(Tail(todo[a]), k, Idle)
<1>1. todo[a] # << >> /\ Head(todo[a]) = step
  BY DEF At
<1>2. ASSUME owner # a PROVE FALSE
  <2>1. Leads(todo[a], Idle, Idle)
    BY <1>2 DEF SpiInv, Waits
  <2>2. PICK k \in Labels : Follows(step, Idle, k)
    BY <1>1, <2>1, Onwards
  <2> QED BY <2>2 DEF Follows, Idle
<1>3. PICK l \in Labels : l.held /\ Holds(a, l) /\ Leads(todo[a], l, Idle)
  BY <1>2 DEF SpiInv, Works
<1>4. PICK k \in Labels : Follows(step, l, k) /\ Leads(Tail(todo[a]), k, Idle)
  BY <1>1, <1>3, Onwards
<1> QED BY <1>2, <1>3, <1>4

(* A step that leaves the holder a function to go on with.                 *)
LEMMA GoesOnInv ==
  ASSUME SpiInv, NEW a \in Actors, owner = a, UNCHANGED owner, todo[a] # << >>, GoesOn(a),
         NEW k \in Labels, k.held, Holds(a, k)', Leads(Tail(todo[a]), k, Idle),
         PortType', \A b \in Actors \ {a} : got'[b] = got[b]
  PROVE  SpiInv'
<1>1. Tail(todo[a]) \in Seq(StepNames)
  BY DEF Leads
<1>2. /\ todo' \in [Actors -> Seq(StepNames)] /\ todo'[a] = Tail(todo[a])
      /\ \A b \in Actors \ {a} : todo'[b] = todo[b]
  BY <1>1 DEF GoesOn, SpiInv
<1>3. Works(a)'
  BY <1>2 DEF Works
<1>4. \A b \in Actors \ {a} : Waits(b)'
  BY <1>2 DEF SpiInv, Waits
<1>5. owner' = a /\ owner' # None
  BY NoneAssumption
<1>6. (owner = "process" => todo["interrupt"] = << >>)'
  BY <1>2, <1>5 DEF SpiInv, Actors
<1> QED BY <1>2, <1>3, <1>4, <1>5, <1>6 DEF SpiInv

LEMMA BeginInv ==
  ASSUME NoAddressWrites, SpiInv, NEW a \in Actors, NEW c \in Calls, Begin(a, c)
  PROVE  SpiInv'
<1>1. owner # a
  <2>1. ASSUME owner = a PROVE FALSE
    <3>1. PICK l \in Labels : l.held /\ Leads(<< >>, l, Idle)
      BY <2>1 DEF SpiInv, Works, Begin
    <3>2. l = Idle
      BY <3>1, Nothing
    <3> QED BY <3>1, <3>2 DEF Idle
  <2> QED BY <2>1
<1>2. Leads(Steps(c), Idle, Idle)
  BY StepsLead
<1>3. Steps(c) \in Seq(StepNames)
  BY <1>2 DEF Leads
<1>4. /\ todo' \in [Actors -> Seq(StepNames)] /\ todo'[a] = Steps(c)
      /\ \A b \in Actors \ {a} : todo'[b] = todo[b]
  BY <1>3 DEF Begin, SpiInv
<1>5. /\ owner' = owner /\ got' = got /\ selected' = selected /\ put' = put
      /\ level' = level /\ shifting' = shifting /\ rx' = rx /\ overrun' = overrun /\ chip' = chip
  BY DEF Begin, portVars
<1>6. PortType' /\ (AtRest' <=> AtRest)
  BY <1>5 DEF SpiInv, PortType, AtRest, AnswersRight
<1>7. Waits(a)'
  BY <1>1, <1>2, <1>4, <1>5 DEF SpiInv, Waits
<1>8. ASSUME NEW b \in Actors \ {a} PROVE (Waits(b)' <=> Waits(b)) /\ (Works(b)' <=> Works(b))
  BY <1>4, <1>5 DEF Waits, Works, Holds, OnTheWay
<1>9. owner = "process" => todo'["interrupt"] = << >>
  BY <1>4 DEF SpiInv, Begin, MayRun, Actors
<1>10. \A b \in Actors : IF owner' = b THEN Works(b)' ELSE Waits(b)'
  <2>1. CASE owner \in Actors \ {a}
    BY <1>1, <1>5, <1>7, <1>8, <2>1 DEF SpiInv
  <2>2. CASE owner \notin Actors
    BY <1>1, <1>5, <1>7, <1>8, <2>2 DEF SpiInv
  <2> QED BY <1>1, <2>1, <2>2
<1> QED BY <1>4, <1>5, <1>6, <1>9, <1>10 DEF SpiInv

LEMMA LockInv == ASSUME SpiInv, NEW a \in Actors, Lock(a) PROVE SpiInv'
<1> DEFINE in == Inside(FALSE, TRUE, FIFO_DEPTH, FALSE, FALSE)
<1>1. /\ owner = None /\ owner' = a /\ todo[a] # << >> /\ Head(todo[a]) = "lock" /\ GoesOn(a)
      /\ got' = got /\ selected' = selected /\ put' = put
      /\ level' = level /\ shifting' = shifting /\ rx' = rx /\ overrun' = overrun /\ chip' = chip
  BY DEF Lock, At, portVars
<1>2. \A b \in Actors : Waits(b)
  BY <1>1, NoneAssumption DEF SpiInv
<1>3. Leads(Tail(todo[a]), in, Idle)
  <2>1. PICK k \in Labels : Follows("lock", Idle, k) /\ Leads(Tail(todo[a]), k, Idle)
    BY <1>1, <1>2, Onwards DEF Waits
  <2> QED BY <2>1 DEF Follows
<1>4. in \in Labels
  <2>1. FIFO_DEPTH \in 0 .. FIFO_DEPTH
    BY Depth
  <2> QED BY <2>1, InsideLabel
<1>5. Tail(todo[a]) \in Seq(StepNames)
  BY <1>3 DEF Leads
<1>6. /\ todo' \in [Actors -> Seq(StepNames)] /\ todo'[a] = Tail(todo[a])
      /\ \A b \in Actors \ {a} : todo'[b] = todo[b]
  BY <1>1, <1>5 DEF GoesOn, SpiInv
<1>7. PortType'
  BY <1>1 DEF SpiInv, PortType, AnswersRight
<1>8. Holds(a, in)'
  <2>1. AtRest /\ got[a] = << >> /\ rx \in Seq(Nat)
    BY <1>1, <1>2 DEF SpiInv, Waits, PortType
  <2> QED BY <1>1, <2>1, Depth DEF Holds, Inside, OnTheWay, AtRest
<1>9. in.held
  BY DEF Inside
<1>10. Works(a)'
  BY <1>3, <1>4, <1>6, <1>8, <1>9 DEF Works
<1>11. \A b \in Actors \ {a} : Waits(b)'
  BY <1>1, <1>2, <1>6 DEF Waits
<1>12. owner' = "process" => todo'["interrupt"] = << >>
  BY <1>1, <1>6 DEF Lock, At, MayRun, Actors
<1>13. owner' # None
  BY <1>1, NoneAssumption
<1> QED BY <1>1, <1>6, <1>7, <1>10, <1>11, <1>12, <1>13 DEF SpiInv

LEMMA UnlockInv == ASSUME SpiInv, NEW a \in Actors, Unlock(a) PROVE SpiInv'
<1>1. /\ At(a, "unlock") /\ owner' = None /\ GoesOn(a) /\ got' = [got EXCEPT ![a] = << >>]
      /\ selected' = selected /\ put' = put
      /\ level' = level /\ shifting' = shifting /\ rx' = rx /\ overrun' = overrun /\ chip' = chip
  BY DEF Unlock, portVars
<1>2. PICK l, k \in Labels : /\ l.held /\ Holds(a, l) /\ Follows("unlock", l, k)
                            /\ Leads(Tail(todo[a]), k, Idle)
  BY <1>1, AtStep
<1>3. owner = a
  BY <1>1, AtStep
<1>4. k = Idle /\ ~l.sel /\ l.quiet /\ l.owed \in 0 .. FIFO_DEPTH
  BY <1>2 DEF Follows, Labels
<1>5. Tail(todo[a]) \in Seq(StepNames)
  BY <1>2 DEF Leads
<1>6. /\ todo' \in [Actors -> Seq(StepNames)] /\ todo'[a] = Tail(todo[a])
      /\ \A b \in Actors \ {a} : todo'[b] = todo[b]
  BY <1>1, <1>5 DEF GoesOn, SpiInv
<1>7. /\ got' \in [Actors -> Seq(Nat)] /\ got'[a] = << >>
      /\ \A b \in Actors \ {a} : got'[b] = got[b]
  BY <1>1 DEF SpiInv, PortType
<1>8. PortType'
  <2>1. \A b \in Actors : \A i \in DOMAIN got'[b] : got'[b][i] = i
    <3>1. \A i \in DOMAIN got'[a] : got'[a][i] = i
      BY <1>7
    <3>2. \A b \in Actors \ {a} : \A i \in DOMAIN got'[b] : got'[b][i] = i
      BY <1>7 DEF SpiInv, PortType, AnswersRight
    <3> QED BY <3>1, <3>2
  <2> QED BY <1>1, <1>7, <2>1 DEF SpiInv, PortType, AnswersRight
<1>9. AtRest'
  <2>1. rx \in Seq(Nat)
    BY DEF SpiInv, PortType
  <2> QED BY <1>1, <1>2, <1>4, <2>1, Depth DEF Holds, AtRest, OnTheWay
<1>10. \A b \in Actors : Waits(b)'
  <2>1. Waits(a)'
    BY <1>2, <1>4, <1>6, <1>7 DEF Waits
  <2>2. \A b \in Actors \ {a} : Waits(b)'
    BY <1>3, <1>6, <1>7 DEF SpiInv, Waits
  <2> QED BY <2>1, <2>2
<1>11. owner' \notin Actors /\ owner' # "process"
  BY <1>1, NoneAssumption DEF Actors
<1> QED BY <1>1, <1>6, <1>8, <1>9, <1>10, <1>11 DEF SpiInv

LEMMA DrainInv == ASSUME SpiInv, NEW a \in Actors, Drain(a) PROVE SpiInv'
<1>1. /\ At(a, "drain") /\ GoesOn(a) /\ todo[a] # << >>
      /\ owner' = owner /\ got' = got /\ level' = level /\ shifting' = shifting /\ rx' = << >>
      /\ overrun' = FALSE /\ selected' = selected /\ put' = put /\ chip' = chip
  BY DEF Drain, At, portVars
<1>2. PICK l, k \in Labels : /\ l.held /\ Holds(a, l) /\ Follows("drain", l, k)
                            /\ Leads(Tail(todo[a]), k, Idle)
  BY <1>1, AtStep
<1>3. owner = a
  BY <1>1, AtStep
<1>4. k = Inside(l.sel, TRUE, 0, FALSE, l.taken) /\ l.quiet /\ l.sel \in BOOLEAN /\ l.taken \in BOOLEAN
  BY <1>2 DEF Follows, Labels
<1>5. PortType
  BY DEF SpiInv
<1>6. PortType'
  BY <1>1, <1>5 DEF PortType, AnswersRight
<1>7. Holds(a, k)' /\ k.held
  BY <1>1, <1>2, <1>4, <1>5 DEF Holds, Inside, OnTheWay, PortType
<1>8. \A b \in Actors \ {a} : got'[b] = got[b]
  BY <1>1, <1>5 DEF PortType
<1> QED BY <1>1, <1>2, <1>3, <1>6, <1>7, <1>8, GoesOnInv

(* The port has come to rest whenever a function flushes it. *)
LEMMA UntilIdleInv == ASSUME SpiInv, NEW a \in Actors, UntilIdle(a) PROVE SpiInv'
<1>1. /\ At(a, "until_idle") /\ todo[a] # << >>
      /\ todo' = [todo EXCEPT ![a] = IF shifting THEN << "drain" >> \o @ ELSE Tail(@)]
      /\ owner' = owner /\ got' = got /\ level' = level /\ shifting' = shifting /\ rx' = rx
      /\ overrun' = overrun /\ selected' = selected /\ put' = put /\ chip' = chip
  BY DEF UntilIdle, At, portVars
<1>2. PICK l, k \in Labels : /\ l.held /\ Holds(a, l) /\ Follows("until_idle", l, k)
                            /\ Leads(Tail(todo[a]), k, Idle)
  BY <1>1, AtStep
<1>3. owner = a
  BY <1>1, AtStep
<1>4. k = l /\ l.quiet
  BY <1>2 DEF Follows
<1>5. ~shifting
  BY <1>2, <1>4 DEF Holds
<1>6. GoesOn(a)
  BY <1>1, <1>5 DEF GoesOn
<1>7. PortType' /\ \A b \in Actors \ {a} : got'[b] = got[b]
  BY <1>1 DEF SpiInv, PortType, AnswersRight
<1>8. Holds(a, k)' /\ k.held
  BY <1>1, <1>2, <1>4 DEF Holds, OnTheWay
<1> QED BY <1>1, <1>2, <1>3, <1>6, <1>7, <1>8, GoesOnInv

LEMMA SelectInv == ASSUME SpiInv, NEW a \in Actors, Select(a) PROVE SpiInv'
<1>1. /\ At(a, "select") /\ GoesOn(a) /\ todo[a] # << >>
      /\ owner' = owner /\ got' = got /\ level' = level /\ shifting' = shifting /\ rx' = rx
      /\ overrun' = overrun /\ selected' = TRUE /\ put' = 0 /\ chip' = 0
  BY DEF Select, At, portVars
<1>2. PICK l, k \in Labels : /\ l.held /\ Holds(a, l) /\ Follows("select", l, k)
                            /\ Leads(Tail(todo[a]), k, Idle)
  BY <1>1, AtStep
<1>3. owner = a
  BY <1>1, AtStep
<1>4. k = Inside(TRUE, TRUE, 0, TRUE, FALSE) /\ ~l.sel /\ l.quiet /\ l.owed = 0 /\ ~l.taken
  BY <1>2 DEF Follows, Labels
<1>5. PortType
  BY DEF SpiInv
<1>6. PortType'
  BY <1>1, <1>5 DEF PortType, AnswersRight
<1>7. Holds(a, k)' /\ k.held
  <2>1. rx = << >> /\ got[a] = << >> /\ level = 0 /\ ~shifting
    BY <1>2, <1>4, <1>5 DEF Holds, PortType, OnTheWay
  <2> QED BY <1>1, <1>4, <2>1 DEF Holds, Inside, OnTheWay
<1>8. \A b \in Actors \ {a} : got'[b] = got[b]
  BY <1>1, <1>5 DEF PortType
<1> QED BY <1>1, <1>2, <1>3, <1>6, <1>7, <1>8, GoesOnInv

LEMMA PutInv == ASSUME SpiInv, NEW a \in Actors, PutByte(a) PROVE SpiInv'
<1>1. /\ At(a, "put") /\ GoesOn(a) /\ todo[a] # << >>
      /\ owner' = owner /\ got' = got /\ level' = level + 1 /\ shifting' = shifting /\ rx' = rx
      /\ overrun' = overrun /\ selected' = selected /\ put' = put + 1 /\ chip' = chip
      /\ level < FIFO_DEPTH - 1 \/ shifting
  BY DEF PutByte, At, portVars
<1>2. PICK l, k \in Labels : /\ l.held /\ Holds(a, l) /\ Follows("put", l, k)
                            /\ Leads(Tail(todo[a]), k, Idle)
  BY <1>1, AtStep
<1>3. owner = a
  BY <1>1, AtStep
<1>4. /\ k = Inside(TRUE, FALSE, l.owed + 1, l.exact, l.taken) /\ l.sel
      /\ l.owed \in 0 .. FIFO_DEPTH /\ l.exact \in BOOLEAN /\ l.taken \in BOOLEAN
  BY <1>2 DEF Follows, Labels
<1>5. PortType
  BY DEF SpiInv
<1>6. PortType'
  BY <1>1, <1>5, Depth DEF PortType, AnswersRight
<1>7. Holds(a, k)' /\ k.held
  <2>1. l.owed \in Nat /\ Len(rx) \in Nat
    BY <1>4, <1>5, Depth DEF PortType
  <2>2. OnTheWay \in Nat /\ OnTheWay' = OnTheWay + 1
    BY <1>1, <1>5 DEF OnTheWay, PortType
  <2>3. selected /\ put = chip + OnTheWay /\ OnTheWay + Len(rx) =< l.owed /\ chip \in Nat
    BY <1>2, <1>4, <1>5 DEF Holds, PortType
  <2>4. /\ k.sel = TRUE /\ k.quiet = FALSE /\ k.owed = l.owed + 1 /\ k.exact = l.exact
        /\ k.taken = l.taken /\ k.held
    BY <1>4 DEF Inside
  <2> QED BY <1>1, <1>2, <2>1, <2>2, <2>3, <2>4 DEF Holds
<1>8. \A b \in Actors \ {a} : got'[b] = got[b]
  BY <1>1, <1>5 DEF PortType
<1> QED BY <1>1, <1>2, <1>3, <1>6, <1>7, <1>8, GoesOnInv

LEMMA DeselectInv == ASSUME SpiInv, NEW a \in Actors, Deselect(a) PROVE SpiInv'
<1>1. /\ At(a, "deselect") /\ GoesOn(a) /\ todo[a] # << >>
      /\ owner' = owner /\ got' = got /\ level' = level /\ shifting' = shifting /\ rx' = rx
      /\ overrun' = overrun /\ selected' = FALSE /\ put' = put /\ chip' = chip
  BY DEF Deselect, At, portVars
<1>2. PICK l, k \in Labels : /\ l.held /\ Holds(a, l) /\ Follows("deselect", l, k)
                            /\ Leads(Tail(todo[a]), k, Idle)
  BY <1>1, AtStep
<1>3. owner = a
  BY <1>1, AtStep
<1>4. k = Inside(FALSE, TRUE, l.owed, l.exact, l.taken) /\ l.sel /\ l.quiet
  BY <1>2 DEF Follows, Labels
<1>5. PortType
  BY DEF SpiInv
<1>6. PortType'
  BY <1>1, <1>5 DEF PortType, AnswersRight
<1>7. Holds(a, k)' /\ k.held
  BY <1>1, <1>2, <1>4, <1>5 DEF Holds, Inside, OnTheWay, PortType
<1>8. \A b \in Actors \ {a} : got'[b] = got[b]
  BY <1>1, <1>5 DEF PortType
<1> QED BY <1>1, <1>2, <1>3, <1>6, <1>7, <1>8, GoesOnInv

(* Neither field is enough alone; together they say that all is shifted.   *)
LEMMA WaitInv == ASSUME SpiInv, NEW a \in Actors, Wait(a) PROVE SpiInv'
<1>1. PICK step \in {"wait", "wait_bsy"} :
        At(a, step) /\ IF step = "wait" THEN NothingInFlight ELSE ~shifting
  BY DEF Wait
<1>2. /\ GoesOn(a) /\ todo[a] # << >> /\ owner' = owner /\ got' = got /\ level' = level
      /\ shifting' = shifting /\ rx' = rx /\ overrun' = overrun /\ selected' = selected
      /\ put' = put /\ chip' = chip
  BY <1>1 DEF Wait, At, portVars
<1>3. PICK l, k \in Labels : /\ l.held /\ Holds(a, l) /\ Follows(step, l, k)
                            /\ Leads(Tail(todo[a]), k, Idle)
  BY <1>1, AtStep
<1>4. owner = a
  BY <1>1, AtStep
<1>5. /\ step = "wait" /\ k = Inside(l.sel, TRUE, l.owed, l.exact, l.taken)
      /\ l.sel \in BOOLEAN /\ l.exact \in BOOLEAN /\ l.taken \in BOOLEAN
  BY <1>1, <1>3 DEF Follows, Labels
<1>6. PortType
  BY DEF SpiInv
<1>7. level = 0 /\ ~shifting
  <2>1. ~shifting /\ level % 16 = 0
    BY <1>1, <1>5 DEF NothingInFlight
  <2>2. level \in Nat /\ level < 16
    BY <1>6, <2>1 DEF PortType, FIFO_DEPTH
  <2> QED BY <2>1, <2>2
<1>8. PortType' /\ \A b \in Actors \ {a} : got'[b] = got[b]
  BY <1>2, <1>6 DEF PortType, AnswersRight
<1>9. Holds(a, k)' /\ k.held
  <2>1. OnTheWay' = OnTheWay
    BY <1>2 DEF OnTheWay
  <2> QED BY <1>2, <1>3, <1>5, <1>7, <2>1 DEF Holds, Inside
<1> QED BY <1>2, <1>3, <1>4, <1>8, <1>9, GoesOnInv

LEMMA TakeInv == ASSUME SpiInv, NEW a \in Actors, Take(a) PROVE SpiInv'
<1>1. PICK step \in {"get", "drop"} :
        /\ At(a, step)
        /\ got' = IF step = "drop" THEN got
                  ELSE [got EXCEPT ![a] = Append(@, IF rx = << >> THEN 0 ELSE Head(rx))]
  BY DEF Take
<1>2. /\ rx' = (IF rx = << >> THEN rx ELSE Tail(rx))
      /\ GoesOn(a) /\ todo[a] # << >> /\ owner' = owner /\ level' = level /\ shifting' = shifting
      /\ overrun' = overrun /\ selected' = selected /\ put' = put /\ chip' = chip
  BY <1>1 DEF Take, At
<1>3. PICK l, k \in Labels : /\ l.held /\ Holds(a, l) /\ Follows(step, l, k)
                            /\ Leads(Tail(todo[a]), k, Idle)
  BY <1>1, AtStep
<1>4. owner = a
  BY <1>1, AtStep
<1>5. /\ step = "get" /\ k = Inside(l.sel, TRUE, l.owed - 1, TRUE, TRUE)
      /\ l.exact /\ l.quiet /\ l.owed > 0 /\ l.owed \in 0 .. FIFO_DEPTH
  BY <1>1, <1>3 DEF Follows, Labels
<1>6. PortType
  BY DEF SpiInv
<1>7. /\ level = 0 /\ ~shifting /\ OnTheWay = 0 /\ Len(rx) = l.owed /\ chip = Len(got[a]) + Len(rx)
      /\ \A i \in 1 .. Len(rx) : rx[i] = Len(got[a]) + i
      /\ rx \in Seq(Nat) /\ got[a] \in Seq(Nat)
  BY <1>3, <1>5, <1>6, Depth DEF Holds, OnTheWay, PortType
<1>8. /\ rx # << >> /\ Len(rx) \in Nat /\ Len(got[a]) \in Nat /\ 1 \in 1 .. Len(rx)
      /\ Head(rx) = Len(got[a]) + 1
      /\ rx' \in Seq(Nat) /\ Len(rx') = Len(rx) - 1
      /\ \A i \in 1 .. Len(rx) - 1 : rx'[i] = rx[i + 1]
  BY <1>2, <1>5, <1>7
<1>9. /\ got' \in [Actors -> Seq(Nat)] /\ got'[a] = Append(got[a], Len(got[a]) + 1)
      /\ \A b \in Actors \ {a} : got'[b] = got[b]
  <2>1. got' = [got EXCEPT ![a] = Append(got[a], Head(rx))]
    BY <1>1, <1>5, <1>8
  <2>2. Append(got[a], Len(got[a]) + 1) \in Seq(Nat)
    BY <1>7, <1>8
  <2> QED BY <1>6, <1>8, <2>1, <2>2 DEF PortType
<1>10. Len(got'[a]) = Len(got[a]) + 1 /\ \A i \in DOMAIN got'[a] : got'[a][i] = i
  <2>1. \A i \in DOMAIN got[a] : got[a][i] = i
    BY <1>6 DEF PortType, AnswersRight
  <2> QED BY <1>7, <1>9, <2>1
<1>11. PortType'
  <2>1. AnswersRight'
    BY <1>6, <1>9, <1>10 DEF PortType, AnswersRight
  <2> QED BY <1>2, <1>6, <1>8, <1>9, <2>1 DEF PortType
<1>12. Holds(a, k)' /\ k.held
  <2>1. OnTheWay' = 0
    BY <1>2, <1>7 DEF OnTheWay
  <2>2. \A i \in 1 .. Len(rx') : rx'[i] = Len(got'[a]) + i
    BY <1>7, <1>8, <1>10
  <2>3. /\ k.sel = l.sel /\ k.quiet = TRUE /\ k.owed = l.owed - 1 /\ k.exact = TRUE
        /\ k.taken = TRUE /\ k.held
    BY <1>5 DEF Inside
  <2>4. l.sel => put = chip + OnTheWay
    BY <1>3 DEF Holds
  <2>5. selected <=> l.sel
    BY <1>3 DEF Holds
  <2> QED BY <1>2, <1>7, <1>8, <1>10, <2>1, <2>2, <2>3, <2>4, <2>5 DEF Holds
<1> QED BY <1>2, <1>3, <1>4, <1>9, <1>11, <1>12, GoesOnInv

(* The port moves only while the holder of the lock has the chip selected. *)
LEMMA PortStepsInv == ASSUME SpiInv, PortSteps PROVE SpiInv'
<1>1. /\ owner' = owner /\ todo' = todo /\ got' = got /\ selected' = selected /\ put' = put
      /\ shifting \/ level > 0
  BY DEF PortSteps, TakeUp, Shifted
<1>2. PortType
  BY DEF SpiInv
<1>3. owner \in Actors
  BY <1>1, <1>2 DEF SpiInv, AtRest, PortType
<1>4. PICK l \in Labels : l.held /\ Holds(owner, l) /\ Leads(todo[owner], l, Idle)
  BY <1>3 DEF SpiInv, Works
<1>5. /\ l.sel /\ ~l.quiet /\ selected /\ put = chip + OnTheWay /\ OnTheWay + Len(rx) =< l.owed
      /\ l.owed \in Nat /\ l.owed =< FIFO_DEPTH /\ OnTheWay \in Nat /\ OnTheWay > 0
      /\ Len(rx) \in Nat
  <2>1. l.sel /\ ~l.quiet /\ selected
    BY <1>1, <1>2, <1>4 DEF Holds, PortType
  <2>2. l.owed \in Nat /\ l.owed =< FIFO_DEPTH
    BY Depth DEF Labels
  <2> QED BY <1>1, <1>2, <1>4, <2>1, <2>2 DEF Holds, OnTheWay, PortType
<1>6. PortType' /\ Holds(owner, l)'
  <2>1. CASE TakeUp
    <3>1. OnTheWay' = OnTheWay /\ rx' = rx /\ chip' = chip /\ overrun' = overrun
          /\ shifting' = TRUE /\ level' \in Nat
      BY <1>2, <2>1 DEF TakeUp, OnTheWay, PortType
    <3>2. PortType'
      BY <1>1, <1>2, <3>1 DEF PortType, AnswersRight
    <3> QED BY <1>1, <1>4, <1>5, <3>1, <3>2 DEF Holds
  <2>2. CASE Shifted
    <3>1. /\ OnTheWay' = OnTheWay - 1 /\ chip' = chip + 1 /\ level' \in Nat
          /\ shifting' \in BOOLEAN /\ (~shifting' => level' = 0)
      <4>1. shifting /\ chip' = chip + 1 /\ (shifting' <=> level > 0)
            /\ level' = (IF level > 0 THEN level - 1 ELSE 0)
        BY <1>5, <2>2 DEF Shifted
      <4>2. shifting' \in BOOLEAN
        BY <2>2 DEF Shifted
      <4>3. CASE level > 0
        BY <1>2, <4>1, <4>2, <4>3 DEF OnTheWay, PortType
      <4>4. CASE ~(level > 0)
        BY <1>2, <4>1, <4>2, <4>4 DEF OnTheWay, PortType
      <4> QED BY <4>3, <4>4
    <3>2. Len(rx) < FIFO_DEPTH
      BY <1>5, Depth
    <3>3. overrun' = overrun /\ rx' = Append(rx, chip + 1)
      BY <1>5, <2>2, <3>2 DEF Shifted
    <3>4. /\ rx' \in Seq(Nat) /\ Len(rx') = Len(rx) + 1 /\ rx'[Len(rx) + 1] = chip + 1
          /\ \A i \in 1 .. Len(rx) : rx'[i] = rx[i]
      BY <1>2, <3>3 DEF PortType
    <3>5. PortType'
      <4>1. 0 < FIFO_DEPTH
        BY DEF FIFO_DEPTH
      <4> QED BY <1>1, <1>2, <3>1, <3>3, <3>4, <4>1 DEF PortType, AnswersRight
    <3>6. l.exact => /\ OnTheWay' + Len(rx') = l.owed /\ chip' = Len(got'[owner]) + Len(rx')
                     /\ \A i \in 1 .. Len(rx') : rx'[i] = Len(got'[owner]) + i
      <4>1. SUFFICES ASSUME l.exact
                     PROVE  /\ OnTheWay' + Len(rx') = l.owed /\ chip' = Len(got'[owner]) + Len(rx')
                            /\ \A i \in 1 .. Len(rx') : rx'[i] = Len(got'[owner]) + i
        OBVIOUS
      <4>2. /\ OnTheWay + Len(rx) = l.owed /\ chip = Len(got[owner]) + Len(rx)
            /\ \A i \in 1 .. Len(rx) : rx[i] = Len(got[owner]) + i
        BY <1>4, <4>1 DEF Holds
      <4>3. Len(got[owner]) \in Nat
        BY <1>2, <1>3 DEF PortType
      <4>4. \A i \in 1 .. Len(rx) + 1 : i \in 1 .. Len(rx) \/ i = Len(rx) + 1
        BY <1>5
      <4>5. got'[owner] = got[owner] /\ chip \in Nat
        BY <1>1, <1>2 DEF PortType
      <4>6. Len(rx) \in Nat /\ OnTheWay \in Nat
        BY <1>5
      <4>7. chip + 1 = Len(got[owner]) + (Len(rx) + 1)
        <5> DEFINE g == Len(got[owner])
                   r == Len(rx)
        <5>1. chip = g + r /\ g \in Nat /\ r \in Nat
          BY <4>2, <4>3, <4>6
        <5> HIDE DEF g, r
        <5>2. chip + 1 = g + (r + 1)
          BY <5>1
        <5> QED BY <5>2 DEF g, r
      <4>8. /\ OnTheWay' + Len(rx') = l.owed
            /\ chip' = Len(got'[owner]) + Len(rx')
        <5>1. (OnTheWay - 1) + (Len(rx) + 1) = OnTheWay + Len(rx)
          BY <4>6
        <5> QED BY <3>1, <3>4, <4>2, <4>5, <4>7, <5>1
      <4>9. rx'[Len(rx) + 1] = Len(got'[owner]) + (Len(rx) + 1)
        BY <3>4, <4>5, <4>7
      <4>10. \A i \in 1 .. Len(rx) : rx'[i] = Len(got'[owner]) + i
        BY <1>1, <3>4, <4>2
      <4>11. \A i \in 1 .. Len(rx) + 1 : rx'[i] = Len(got'[owner]) + i
        BY <4>4, <4>9, <4>10
      <4> QED BY <3>4, <4>8, <4>11
    <3>7. put' = chip' + OnTheWay' /\ OnTheWay' + Len(rx') =< l.owed
      BY <1>1, <1>2, <1>5, <3>1, <3>4 DEF PortType
    <3> QED BY <1>1, <1>4, <1>5, <3>5, <3>6, <3>7 DEF Holds
  <2> QED BY <2>1, <2>2 DEF PortSteps
<1>7. Works(owner)'
  BY <1>1, <1>4, <1>6 DEF Works, Holds
<1>8. \A b \in Actors \ {owner} : Waits(b)'
  BY <1>1 DEF SpiInv, Waits
<1>9. owner # None
  BY <1>3, NoneAssumption
<1> QED BY <1>1, <1>3, <1>6, <1>7, <1>8, <1>9 DEF SpiInv
-----------------------------------------------------------------------------
LEMMA SpiStep == ASSUME NoAddressWrites, SpiInv, [Next]_vars PROVE SpiInv'
<1>1. ASSUME NEW a \in Actors, CpuSteps(a) PROVE SpiInv'
  BY <1>1, LockInv, DrainInv, UntilIdleInv, SelectInv, PutInv, WaitInv, TakeInv, DeselectInv, UnlockInv
     DEF CpuSteps
<1>2. ASSUME NEW a \in Actors, NEW c \in Calls, Begin(a, c) PROVE SpiInv'
  BY <1>2, BeginInv
<1>3. CASE PortSteps
  BY <1>3, PortStepsInv
<1>4. CASE UNCHANGED vars
  BY <1>4 DEF vars, portVars, SpiInv, PortType, AnswersRight, Works, Waits, Holds, OnTheWay, AtRest
<1> QED BY <1>1, <1>2, <1>3, <1>4 DEF Next

LEMMA SpiInductive == NoAddressWrites => (Spec => []SpiInv)
<1> SUFFICES ASSUME NoAddressWrites PROVE Spec => []SpiInv
  OBVIOUS
<1>1. SpiInv /\ [Next]_vars => SpiInv'
  BY SpiStep
<1> QED BY <1>1, InitSpiInv, PTL DEF Spec

LEMMA SpiInvMeans == ASSUME SpiInv PROVE TypeOK /\ AnswersRight /\ NoOverrun
<1>1. PortType
  BY DEF SpiInv
<1>2. level =< FIFO_DEPTH /\ Len(rx) =< FIFO_DEPTH
  <2>1. CASE owner = None
    BY <2>1, Depth DEF SpiInv, AtRest
  <2>2. CASE owner \in Actors
    <3>1. PICK l \in Labels : Holds(owner, l)
      BY <2>2 DEF SpiInv, Works
    <3>2. l.owed \in Nat /\ l.owed =< FIFO_DEPTH /\ Len(rx) \in Nat /\ OnTheWay \in Nat /\ level =< OnTheWay
      BY <1>1, Depth DEF Labels, PortType, OnTheWay
    <3>3. OnTheWay + Len(rx) =< l.owed /\ level \in Nat
      BY <1>1, <3>1 DEF Holds, PortType
    <3> QED BY <3>2, <3>3, Depth
  <2> QED BY <2>1, <2>2 DEF SpiInv
<1>3. level \in 0 .. FIFO_DEPTH
  BY <1>1, <1>2, Depth DEF PortType
<1> QED BY <1>1, <1>2, <1>3 DEF SpiInv, PortType, TypeOK, NoOverrun

(* THEOREM: without address writes, whatever is called and however the     *)
(* port paces itself, TypeOK holds of SpiPort.                             *)
THEOREM SpiTypeCorrect == NoAddressWrites => (Spec => []TypeOK)
  BY SpiInductive, SpiInvMeans, PTL

(* THEOREM: every byte a function takes from the receive queue is the      *)
(* chip's answer to that byte of the call, for frames of every length.     *)
THEOREM AnswersAlwaysRight == NoAddressWrites => (Spec => []AnswersRight)
  BY SpiInductive, SpiInvMeans, PTL

(* THEOREM: no frame of any length overruns the receive queue.             *)
THEOREM NeverOverrun == NoAddressWrites => (Spec => []NoOverrun)
  BY SpiInductive, SpiInvMeans, PTL

(* THEOREM: the chip has every byte of a transaction when CSn rises.       *)
THEOREM TransactionsWhole == NoAddressWrites => (Spec => TransactionWhole)
<1> DEFINE Whole == selected /\ ~selected' => chip = put /\ level = 0 /\ ~shifting
<1> SUFFICES ASSUME NoAddressWrites PROVE Spec => TransactionWhole
  OBVIOUS
<1>1. ASSUME SpiInv, Next, selected, ~selected' PROVE chip = put /\ level = 0 /\ ~shifting
  <2>1. PICK a \in Actors : Deselect(a)
    BY <1>1 DEF Next, CpuSteps, PortSteps, Begin, Lock, Drain, UntilIdle, Select, PutByte, Wait, Take,
                Unlock, TakeUp, Shifted
  <2>2. PICK l, k \in Labels : Holds(a, l) /\ Follows("deselect", l, k)
    BY <1>1, <2>1, AtStep DEF Deselect
  <2>3. l.sel /\ l.quiet
    BY <2>2 DEF Follows
  <2> QED BY <1>1, <2>2, <2>3 DEF Holds, OnTheWay, SpiInv, PortType
<1>2. SpiInv /\ [Next]_vars => [Whole]_vars
  BY <1>1
<1>3. Spec => []SpiInv
  BY SpiInductive
<1> QED BY <1>2, <1>3, PTL DEF Spec, TransactionWhole
=============================================================================
