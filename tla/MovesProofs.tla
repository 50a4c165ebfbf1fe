----------------------------- MODULE MovesProofs -----------------------------
(***************************************************************************)
(* The move checker and the C backend agree, for any set of variables and  *)
(* any number of statements: the invariant of MovesInv is inductive, and   *)
(* the safety properties of Moves follow from it.                          *)
(*                                                                         *)
(* The proof goes from the emitted statements to code, from code to sets   *)
(* of runs, from there to the runs of loops, and from the lists of the     *)
(* checker to the invariant, one action at a time.                         *)
(***************************************************************************)
EXTENDS MovesInv, TLAPS, FiniteSetTheorems, SequenceTheorems, WellFoundedInduction

(***************************************************************************)
(* The numbers.                                                            *)
(***************************************************************************)
\* A set of numbers has a least element.
LEMMA LeastNumber ==
  ASSUME NEW T \in SUBSET Nat, T # {}
  PROVE \E n \in T : \A m \in T : n <= m
<1> DEFINE R == {ss \in Nat \X Nat : ss[1] < ss[2]}
<1>1. IsWellFoundedOn(R, Nat)
    BY NatLessThanWellFounded, Zenon DEF OpToRel
<1>2. \E x \in T : \A y \in T : ~ (<<y, x>> \in R)
  <2> HIDE DEF R
  <2> QED BY <1>1, WFMin
<1>3. PICK x \in T : \A y \in T : ~ (<<y, x>> \in R)
    BY <1>2
<1>4. ASSUME NEW y \in T PROVE x <= y
  <2>1. <<y, x>> \in Nat \X Nat /\ <<y, x>>[1] = y /\ <<y, x>>[2] = x
      OBVIOUS
  <2>2. ~(y < x)
      BY <1>3, <2>1
  <2> QED
      BY <2>2
<1> QED BY <1>4

\* Induction over the numbers, for a set that is at hand.
LEMMA Induction ==
  ASSUME NEW T \in SUBSET Nat, 0 \in T, \A n \in T : n + 1 \in T
  PROVE T = Nat
<1> SUFFICES ASSUME Nat \ T # {} PROVE FALSE
    OBVIOUS
<1>1. PICK n \in Nat \ T : \A m \in Nat \ T : n <= m
    BY LeastNumber
<1>2. n # 0 /\ n - 1 \in Nat
    OBVIOUS
<1>3. n - 1 \in T
    BY <1>1, <1>2
<1>4. (n - 1) + 1 \in T
    BY <1>3
<1> QED
    BY <1>4, <1>1

\* A function that is applied again and again.
LEMMA Iteration ==
  ASSUME NEW X, NEW c \in X, NEW g \in [X -> X]
  PROVE  \E f \in [Nat -> X] : f[0] = c /\ \A n \in Nat : f[n + 1] = g[f[n]]
<1> DEFINE Upto(n, f) == f[0] = c /\ \A i \in 1 .. n : f[i] = g[f[i - 1]]
           T == {n \in Nat : \E f \in [Nat -> X] : Upto(n, f)}
<1>1. 0 \in T
  <2>1. [i \in Nat |-> c] \in [Nat -> X] /\ Upto(0, [i \in Nat |-> c])
      OBVIOUS
  <2> QED
      BY <2>1
<1>2. ASSUME NEW n \in T PROVE n + 1 \in T
  <2>1. PICK f \in [Nat -> X] : Upto(n, f)
      OBVIOUS
  <2> DEFINE h == [f EXCEPT ![n + 1] = g[f[n]]]
  <2>2. h \in [Nat -> X] /\ n + 1 \in Nat
      OBVIOUS
  <2>3. Upto(n + 1, h)
      BY <2>1
  <2> QED
      BY <2>2, <2>3
<1>3. T = Nat
  <2> HIDE DEF T
  <2>1. T \in SUBSET Nat
      BY DEF T
  <2> QED
      BY <1>1, <1>2, <2>1, Induction
<1>4. \A n \in Nat : \E f \in [Nat -> X] : Upto(n, f)
    BY <1>3
<1>5. ASSUME NEW a \in [Nat -> X], NEW b \in [Nat -> X], NEW n \in Nat, Upto(n, a), Upto(n, b)
      PROVE  \A i \in 0 .. n : a[i] = b[i]
  <2> DEFINE S == {i \in Nat : i <= n => a[i] = b[i]}
  <2>1. 0 \in S
      BY <1>5
  <2>2. ASSUME NEW i \in S PROVE i + 1 \in S
      BY <1>5
  <2>3. S = Nat
    <3> HIDE DEF S
    <3>1. S \in SUBSET Nat
        BY DEF S
    <3> QED
        BY <2>1, <2>2, <3>1, Induction
  <2> QED
      BY <2>3
<1> DEFINE F(n) == CHOOSE f \in [Nat -> X] : Upto(n, f)
           h == [n \in Nat |-> F(n)[n]]
<1>6. ASSUME NEW n \in Nat PROVE F(n) \in [Nat -> X] /\ Upto(n, F(n))
    BY <1>4
<1>7. h \in [Nat -> X]
  <2> HIDE DEF F
  <2> QED
      BY <1>6
<1>8. h[0] = c
  <2>1. F(0)[0] = c
      BY <1>6
  <2> HIDE DEF F
  <2> QED
      BY <2>1
<1>9. ASSUME NEW n \in Nat PROVE h[n + 1] = g[h[n]]
  <2> HIDE DEF F
  <2>1. /\ F(n) \in [Nat -> X] /\ Upto(n, F(n))
        /\ F(n + 1) \in [Nat -> X] /\ Upto(n + 1, F(n + 1)) /\ n + 1 \in Nat
      BY <1>6
  <2>2. Upto(n, F(n + 1))
      BY <2>1
  <2>3. F(n)[n] = F(n + 1)[n]
    <3>1. \A i \in 0 .. n : F(n)[i] = F(n + 1)[i]
        BY <1>5, <2>1, <2>2, Zenon
    <3> QED
        BY <3>1
  <2>4. F(n + 1)[n + 1] = g[F(n + 1)[n]]
    <3>1. n + 1 \in 1 .. n + 1 /\ (n + 1) - 1 = n
        OBVIOUS
    <3> QED
        BY <2>1, <3>1
  <2> QED
      BY <2>1, <2>3, <2>4
<1> QED
  <2> HIDE DEF h
  <2> QED
      BY <1>7, <1>8, <1>9

(***************************************************************************)
(* The emitted code: its statements and what running them does.            *)
(***************************************************************************)
\* The statements of the emitted C; sequences of them are code.
Ops == {"keep", "init", "flag", "move", "return", "destroy", "drop", "store", "end"}
Code == [op : Ops, of : Var]

\* A run that stops is in a state of Env.
LEMMA FaultType ==
  ASSUME NEW what \in {"used", "destroyed", "leaked"}, NEW x \in Var
  PROVE  Fault(what, x) \in Env
  BY DEF Fault, Start, Env, Faults

\* Every statement of the emitted C takes a state of Env to one.
LEMMA ExecType ==
  ASSUME NEW e \in Env, NEW s \in Code
  PROVE  Exec(e, s) \in Env
<1> DEFINE x == s.of
<1>1. x \in Var /\ s.op \in Ops
    BY DEF Code
<1>2. Fault("used", x) \in Env /\ Fault("destroyed", x) \in Env /\ Fault("leaked", x) \in Env
    BY <1>1, FaultType
<1>3. CASE ~Running(e) \/ s.op = "keep"
    BY <1>3 DEF Exec
<1>4. CASE Running(e) /\ s.op # "keep"
  <2>1. /\ e.val \in [Var -> {"none", "live", "gone"}] /\ e.flag \in [Var -> BOOLEAN]
        /\ e.fault = NoFault /\ NoFault \in Faults
        /\ e = [val |-> e.val, flag |-> e.flag, fault |-> e.fault]
      BY <1>4 DEF Env, Running, Faults
  <2>2. ASSUME NEW v \in {"none", "live", "gone"}, NEW f \in BOOLEAN
        PROVE  /\ [e EXCEPT !.val[x] = v] \in Env
               /\ [e EXCEPT !.flag[x] = f] \in Env
               /\ [e EXCEPT !.val[x] = v, !.flag[x] = f] \in Env
      BY <1>1, <2>1 DEF Env
  <2>3. /\ [e EXCEPT !.val[x] = "live"] \in Env /\ [e EXCEPT !.val[x] = "gone"] \in Env
        /\ [e EXCEPT !.flag[x] = TRUE] \in Env
        /\ [e EXCEPT !.val[x] = "live", !.flag[x] = TRUE] \in Env
        /\ [e EXCEPT !.val[x] = "gone", !.flag[x] = FALSE] \in Env
        /\ [e EXCEPT !.val[x] = "none", !.flag[x] = FALSE] \in Env
      BY <2>2
  <2> QED
      BY <1>1, <1>2, <1>4, <2>3 DEF Exec, Ops
<1> QED
    BY <1>3, <1>4

\* The position FoldLeft takes first is the last one of the code.
LEMMA MaxOf ==
  ASSUME NEW k \in Nat, NEW S \in SUBSET (1 .. k), S # {}
  PROVE  Max(S) \in S /\ \A y \in S : y <= Max(S)
<1> DEFINE T == {m \in Nat : k - m \in S}
<1>1. T \in SUBSET Nat /\ T # {}
  <2>1. PICK y \in S : TRUE
      OBVIOUS
  <2>2. k - y \in Nat /\ k - (k - y) = y
      BY <2>1
  <2> QED
      BY <2>2
<1>2. PICK n \in T : \A m \in T : n <= m
    BY <1>1, LeastNumber
<1>3. k - n \in S
    BY <1>2
<1>4. \A y \in S : k - n >= y
  <2> TAKE y \in S
  <2>1. k - y \in T
    <3>1. k - y \in Nat /\ k - (k - y) = y
        OBVIOUS
    <3> QED
        BY <3>1
  <2> QED
      BY <1>2, <2>1
<1> QED
    BY <1>3, <1>4 DEF Max

\* The iteration that FoldLeft stands for: it goes through the positions of the code by
\* the last one of each set.
FoldOn(it, e, code, k) ==
  /\ it \in [SUBSET (1 .. k) -> Env]
  /\ \A s \in SUBSET (1 .. k) :
        it[s] = IF s = {} THEN e ELSE Exec(it[s \ {Max(s)}], code[Max(s)])

\* The iteration that FoldLeft stands for, continued by one statement.
LEMMA FoldStep ==
  ASSUME NEW e \in Env, NEW code \in Seq(Code), NEW k \in Nat, k + 1 <= Len(code),
         NEW it, FoldOn(it, e, code, k)
  PROVE  \E new : FoldOn(new, e, code, k + 1)
<1> DEFINE new == [s \in SUBSET (1 .. k + 1) |->
                     IF k + 1 \in s THEN Exec(it[s \ {k + 1}], code[k + 1]) ELSE it[s]]
<1>1. \A s \in SUBSET (1 .. k + 1) : s \ {k + 1} \in SUBSET (1 .. k)
    OBVIOUS
<1>2. code[k + 1] \in Code
    OBVIOUS
<1>3. new \in [SUBSET (1 .. k + 1) -> Env]
  <2> SUFFICES ASSUME NEW s \in SUBSET (1 .. k + 1)
               PROVE  (IF k + 1 \in s THEN Exec(it[s \ {k + 1}], code[k + 1]) ELSE it[s]) \in Env
      OBVIOUS
  <2>1. CASE k + 1 \in s
      BY <2>1, <1>1, <1>2, ExecType DEF FoldOn
  <2>2. CASE k + 1 \notin s
    <3>1. s = s \ {k + 1}
        BY <2>2
    <3> QED
        BY <2>2, <1>1, <3>1 DEF FoldOn
  <2> QED
      BY <2>1, <2>2
<1>4. ASSUME NEW s \in SUBSET (1 .. k + 1)
      PROVE  new[s] = IF s = {} THEN e ELSE Exec(new[s \ {Max(s)}], code[Max(s)])
  <2>1. CASE k + 1 \in s
    <3>1. s # {} /\ Max(s) \in s /\ k + 1 <= Max(s)
        BY <2>1, MaxOf, k + 1 \in Nat
    <3>2. Max(s) = k + 1
      <4>1. Max(s) \in 1 .. (k + 1)
          BY <3>1
      <4> QED
          BY <3>1, <4>1
    <3>3. s \ {k + 1} \in SUBSET (1 .. k) /\ s \ {k + 1} \in SUBSET (1 .. k + 1)
          /\ k + 1 \notin s \ {k + 1}
        BY <1>1
    <3>4. new[s \ {k + 1}] = it[s \ {k + 1}]
        BY <3>3
    <3> QED
        BY <2>1, <3>2, <3>4
  <2>2. CASE k + 1 \notin s
    <3>1. s \in SUBSET (1 .. k)
        BY <2>2
    <3>2. s # {} => Max(s) \in s
        BY <3>1, MaxOf
    <3>3. s \ {Max(s)} \in SUBSET (1 .. k) /\ s \ {Max(s)} \in SUBSET (1 .. k + 1)
          /\ k + 1 \notin s \ {Max(s)}
        BY <3>1, <2>2
    <3>4. new[s] = it[s] /\ new[s \ {Max(s)}] = it[s \ {Max(s)}]
        BY <2>2, <3>3
    <3> QED
        BY <3>1, <3>4 DEF FoldOn
  <2> QED
      BY <2>1, <2>2
<1>5. FoldOn(new, e, code, k + 1)
  <2> HIDE DEF new
  <2> QED
      BY <1>3, <1>4 DEF FoldOn
<1> QED
    BY <1>5

\* The iteration exists for code of any length.
LEMMA FoldExists ==
  ASSUME NEW e \in Env, NEW code \in Seq(Code)
  PROVE  \E it : FoldOn(it, e, code, Len(code))
<1> DEFINE T == {k \in Nat : k <= Len(code) => \E it : FoldOn(it, e, code, k)}
<1>1. 0 \in T
  <2>1. SUBSET (1 .. 0) = {{}}
      OBVIOUS
  <2>2. FoldOn([s \in SUBSET (1 .. 0) |-> e], e, code, 0)
      BY <2>1 DEF FoldOn
  <2> QED
      BY <2>2
<1>2. ASSUME NEW k \in T PROVE k + 1 \in T
    BY FoldStep
<1>3. T = Nat
  <2>1. T \in SUBSET Nat
      OBVIOUS
  <2> HIDE DEF T
  <2> QED
      BY <1>1, <1>2, <2>1, Induction
<1> QED
    BY <1>3

\* Running code is running its statements one after the other.
LEMMA RunSteps ==
  ASSUME NEW e \in Env, NEW code \in Seq(Code)
  PROVE  \E r \in [0 .. Len(code) -> Env] :
            /\ r[0] = e /\ Run(e, code) = r[Len(code)]
            /\ \A i \in 1 .. Len(code) : r[i] = Exec(r[i - 1], code[i])
<1> DEFINE n == Len(code)
           Body0(it, s) == IF s = {} THEN e ELSE Exec(it[s \ {Max(s)}], code[Max(s)])
           It == CHOOSE it : it = [s \in SUBSET (DOMAIN code) |-> Body0(it, s)]
<1>1. n \in Nat /\ DOMAIN code = 1 .. n
    OBVIOUS
<1>2. PICK jt : FoldOn(jt, e, code, n)
    BY FoldExists
<1>3. jt = [s \in SUBSET (DOMAIN code) |-> Body0(jt, s)]
    BY <1>1, <1>2 DEF FoldOn
<1>4. It = [s \in SUBSET (DOMAIN code) |-> Body0(It, s)]
  <2> HIDE DEF Body0
  <2> QED
      BY <1>3
<1>5. Run(e, code) = It[DOMAIN code]
    BY Zenon DEF Run, FoldLeft, MapThenFoldSet
<1> HIDE DEF It
<1>6. \A s \in SUBSET (1 .. n) : It[s] = Body0(It, s)
    BY <1>1, <1>4
<1> DEFINE r == [i \in 0 .. n |-> It[1 .. i]]
<1>7. r[0] = e
  <2>1. 1 .. 0 = {} /\ {} \in SUBSET (1 .. n) /\ 0 \in 0 .. n
      BY <1>1
  <2>2. It[{}] = e
      BY <1>6, <2>1
  <2> QED
      BY <2>1, <2>2
<1>8. \A i \in 1 .. n : r[i] = Exec(r[i - 1], code[i])
  <2> TAKE i \in 1 .. n
  <2>1. 1 .. i \in SUBSET (1 .. n) /\ 1 .. i # {}
      OBVIOUS
  <2>2. Max(1 .. i) = i
    <3>1. Max(1 .. i) \in 1 .. i /\ \A y \in 1 .. i : y <= Max(1 .. i)
        BY <2>1, <1>1, MaxOf
    <3> QED
        BY <3>1
  <2>3. (1 .. i) \ {i} = 1 .. (i - 1)
      OBVIOUS
  <2>4. It[1 .. i] = Exec(It[1 .. (i - 1)], code[i])
      BY <1>6, <2>1, <2>2, <2>3
  <2> QED
      BY <2>4
<1>9. r \in [0 .. n -> Env]
  <2> DEFINE S == {i \in Nat : i <= n => r[i] \in Env}
  <2>1. 0 \in S
      BY <1>7
  <2>2. ASSUME NEW i \in S PROVE i + 1 \in S
    <3>1. SUFFICES ASSUME i + 1 <= n PROVE r[i + 1] \in Env
        OBVIOUS
    <3>2. r[i] \in Env /\ i + 1 \in 1 .. n /\ (i + 1) - 1 = i
        BY <3>1, <1>1
    <3>3. code[i + 1] \in Code
        BY <3>2
    <3> HIDE DEF r
    <3> QED
        BY <1>8, <3>2, <3>3, ExecType
  <2>3. S = Nat
    <3>1. S \in SUBSET Nat
        OBVIOUS
    <3> HIDE DEF S
    <3> QED
        BY <2>1, <2>2, <3>1, Induction
  <2>4. ASSUME NEW i \in 0 .. n PROVE r[i] \in Env
    <3> HIDE DEF r
    <3>1. i \in S
        BY <2>3, <1>1
    <3> QED
        BY <3>1, <1>1
  <2> QED
      BY <2>4
<1>10. Run(e, code) = r[n]
    BY <1>1, <1>5
<1> QED
    BY <1>7, <1>8, <1>9, <1>10

\* The states r that the statements of the code lead through.
Steps(r, e, code) ==
  r[0] = e /\ \A i \in 1 .. Len(code) : r[i] = Exec(r[i - 1], code[i])

\* Any sequence of states that follows the code ends where Run does.
LEMMA RunIs ==
  ASSUME NEW e \in Env, NEW code \in Seq(Code), NEW r, Steps(r, e, code)
  PROVE  Run(e, code) = r[Len(code)]
<1>1. PICK q \in [0 .. Len(code) -> Env] :
          /\ q[0] = e /\ Run(e, code) = q[Len(code)]
          /\ \A i \in 1 .. Len(code) : q[i] = Exec(q[i - 1], code[i])
    BY RunSteps
<1> DEFINE S == {i \in Nat : i <= Len(code) => r[i] = q[i]}
<1>2. 0 \in S
    BY <1>1 DEF Steps
<1>3. ASSUME NEW i \in S PROVE i + 1 \in S
  <2>1. SUFFICES ASSUME i + 1 <= Len(code) PROVE r[i + 1] = q[i + 1]
      OBVIOUS
  <2>2. i + 1 \in 1 .. Len(code) /\ (i + 1) - 1 = i /\ r[i] = q[i]
      BY <2>1
  <2> QED
      BY <2>2, <1>1 DEF Steps
<1>4. S = Nat
  <2>1. S \in SUBSET Nat
      OBVIOUS
  <2> HIDE DEF S
  <2> QED
      BY <1>2, <1>3, <2>1, Induction
<1>5. Len(code) \in S
    BY <1>4
<1> QED
    BY <1>1, <1>5

\* There is such a sequence.
LEMMA RunHas ==
  ASSUME NEW e \in Env, NEW code \in Seq(Code)
  PROVE  \E r \in [0 .. Len(code) -> Env] : Steps(r, e, code) /\ Run(e, code) = r[Len(code)]
  BY RunSteps DEF Steps

\* Code takes a state of Env to one.
LEMMA RunType ==
  ASSUME NEW e \in Env, NEW code \in Seq(Code)
  PROVE  Run(e, code) \in Env
  BY RunHas

\* Code in two parts runs in two parts.
LEMMA RunAppend ==
  ASSUME NEW e \in Env, NEW a \in Seq(Code), NEW b \in Seq(Code)
  PROVE  Run(e, a \o b) = Run(Run(e, a), b)
<1>1. /\ a \o b \in Seq(Code) /\ Len(a \o b) = Len(a) + Len(b)
      /\ \A i \in 1 .. Len(a) : (a \o b)[i] = a[i]
      /\ \A i \in 1 .. Len(b) : (a \o b)[Len(a) + i] = b[i]
    OBVIOUS
<1>2. PICK r \in [0 .. Len(a \o b) -> Env] :
          Steps(r, e, a \o b) /\ Run(e, a \o b) = r[Len(a \o b)]
    BY <1>1, RunHas
<1>3. Steps(r, e, a)
  <2> SUFFICES ASSUME NEW i \in 1 .. Len(a) PROVE r[i] = Exec(r[i - 1], a[i])
      BY <1>2 DEF Steps
  <2>1. i \in 1 .. Len(a \o b)
      BY <1>1
  <2> QED
      BY <2>1, <1>1, <1>2 DEF Steps
<1>4. Run(e, a) = r[Len(a)]
    BY <1>3, RunIs
<1> DEFINE q == [i \in 0 .. Len(b) |-> r[Len(a) + i]]
<1>5. Steps(q, r[Len(a)], b)
  <2>0. q[0] = r[Len(a)]
      BY <1>1
  <2> SUFFICES ASSUME NEW i \in 1 .. Len(b) PROVE q[i] = Exec(q[i - 1], b[i])
    <3> HIDE DEF q
    <3> QED
        BY <2>0 DEF Steps
  <2>1. Len(a) + i \in 1 .. Len(a \o b) /\ (Len(a) + i) - 1 = Len(a) + (i - 1)
      BY <1>1
  <2>2. i - 1 \in 0 .. Len(b) /\ i \in 0 .. Len(b)
      OBVIOUS
  <2>3. r[Len(a) + i] = Exec(r[Len(a) + (i - 1)], b[i])
      BY <2>1, <1>1, <1>2 DEF Steps
  <2> QED
      BY <2>2, <2>3
<1>6. r[Len(a)] \in Env
    BY <1>1
<1>7. Run(r[Len(a)], b) = q[Len(b)]
  <2> HIDE DEF q
  <2> QED
      BY <1>5, <1>6, RunIs
<1> QED
    BY <1>1, <1>2, <1>4, <1>7

\* Code of one statement.
LEMMA RunOne ==
  ASSUME NEW e \in Env, NEW s \in Code
  PROVE  Run(e, <<s>>) = Exec(e, s)
<1> DEFINE r == [i \in 0 .. 1 |-> IF i = 0 THEN e ELSE Exec(e, s)]
<1>1. Steps(r, e, <<s>>)
    BY DEF Steps
<1>2. <<s>> \in Seq(Code) /\ Len(<<s>>) = 1
    OBVIOUS
<1> QED
    BY <1>1, <1>2, RunIs

\* No code.
LEMMA RunNone ==
  ASSUME NEW e \in Env
  PROVE  Run(e, <<>>) = e
<1> DEFINE r == [i \in 0 .. 0 |-> e]
<1>1. Steps(r, e, <<>>)
    BY DEF Steps
<1>2. <<>> \in Seq(Code) /\ Len(<<>>) = 0
    OBVIOUS
<1> QED
    BY <1>1, <1>2, RunIs

\* A run that went wrong stays as it is.
LEMMA RunStopped ==
  ASSUME NEW e \in Env, NEW code \in Seq(Code), ~Running(e)
  PROVE  Run(e, code) = e
<1> DEFINE r == [i \in 0 .. Len(code) |-> e]
<1>1. \A s \in Code : Exec(e, s) = e
    BY DEF Exec
<1>2. Steps(r, e, code)
    BY <1>1 DEF Steps
<1>3. Len(code) \in 0 .. Len(code)
    OBVIOUS
<1> QED
    BY <1>2, <1>3, RunIs

(***************************************************************************)
(* Code that does something to each of several variables once.             *)
(***************************************************************************)
\* What a state says of one variable.
SameAt(d, e, x) == d.val[x] = e.val[x] /\ d.flag[x] = e.flag[x]

\* What the end of a scope is made of.
EndOps == {"keep", "drop", "end"}

\* The code at the end of a scope changes the statement's own variable, and
\* depends on nothing else.
LEMMA ExecLocal ==
  ASSUME NEW e \in Env, NEW d \in Env, NEW s \in Code, s.op \in EndOps,
         Running(e), Running(d), SameAt(d, e, s.of)
  PROVE  /\ Exec(d, s).fault = Exec(e, s).fault
         /\ Running(Exec(d, s)) => SameAt(Exec(d, s), Exec(e, s), s.of)
         /\ Running(Exec(d, s)) => \A x \in Var \ {s.of} : SameAt(Exec(d, s), d, x)
<1> USE DEF SameAt, Code, Env
<1>1. CASE s.op = "keep"
    BY <1>1 DEF Exec, Running
<1>2. CASE s.op = "drop"
    BY <1>2 DEF Exec, Fault, Start, Running, NoFault
<1>3. CASE s.op = "end"
    BY <1>3 DEF Exec, Fault, Start, Running, NoFault
<1> QED
    BY <1>1, <1>2, <1>3 DEF EndOps

\* What the first i statements of such code have done.
Swept(d, e, code, i) ==
  IF Running(d)
  THEN /\ \A x \in Var : (\A j \in 1 .. i : code[j].of # x) => SameAt(d, e, x)
       /\ \A j \in 1 .. i : Running(Exec(e, code[j])) /\ SameAt(d, Exec(e, code[j]), code[j].of)
  ELSE \E j \in 1 .. i : d.fault = Exec(e, code[j]).fault

\* Drops, and ends, that name each variable once do what each does alone.
LEMMA Sweep ==
  ASSUME NEW e \in Env, Running(e), NEW code \in Seq(Code),
         \A i \in DOMAIN code : code[i].op \in EndOps,
         \A i, j \in DOMAIN code : code[i].of = code[j].of => i = j
  PROVE  Swept(Run(e, code), e, code, Len(code))
<1>1. PICK r \in [0 .. Len(code) -> Env] : Steps(r, e, code) /\ Run(e, code) = r[Len(code)]
    BY RunHas
<1> DEFINE S == {i \in Nat : i <= Len(code) => Swept(r[i], e, code, i)}
<1>2. 0 \in S
    BY <1>1 DEF Steps, Swept, SameAt
<1>3. ASSUME NEW i \in S PROVE i + 1 \in S
  <2>1. SUFFICES ASSUME i + 1 <= Len(code) PROVE Swept(r[i + 1], e, code, i + 1)
      OBVIOUS
  <2> DEFINE k == i + 1
             s == code[k]
             d == r[i]
             z == r[k]
  <2>2. /\ k \in 1 .. Len(code) /\ k \in DOMAIN code /\ k - 1 = i /\ s \in Code
        /\ d \in Env /\ z \in Env /\ Swept(d, e, code, i)
      BY <2>1
  <2>3. z = Exec(d, s)
      BY <2>2, <1>1 DEF Steps
  <2>4. \A j \in 1 .. k : j \in 1 .. i \/ j = k
      OBVIOUS
  <2>5. \A j \in 1 .. i : j \in 1 .. k /\ code[j].of # s.of /\ code[j] \in Code
      BY <2>2
  <2>6. CASE ~Running(d)
    <3>1. z = d
        BY <2>3, <2>6 DEF Exec
    <3> QED
        BY <3>1, <2>2, <2>5, <2>6 DEF Swept
  <2>7. CASE Running(d)
    <3>1. s.of \in Var
        BY <2>2 DEF Code
    <3>2. SameAt(d, e, s.of)
        BY <2>2, <2>5, <2>7, <3>1 DEF Swept
    <3>3. /\ z.fault = Exec(e, s).fault
          /\ Running(z) => SameAt(z, Exec(e, s), s.of)
          /\ Running(z) => \A x \in Var \ {s.of} : SameAt(z, d, x)
      <4> HIDE DEF z, d, s
      <4> QED
          BY <2>2, <2>3, <2>7, <3>2, ExecLocal DEF s
    <3>4. CASE ~Running(z)
        BY <3>3, <3>4, k \in 1 .. k DEF Swept
    <3>5. CASE Running(z)
      <4>1. Running(Exec(e, s))
          BY <3>3, <3>5 DEF Running
      <4>2. ASSUME NEW x \in Var, \A j \in 1 .. k : code[j].of # x PROVE SameAt(z, e, x)
        <5>1. SameAt(d, e, x)
            BY <4>2, <2>2, <2>5, <2>7 DEF Swept
        <5>2. SameAt(z, d, x)
            BY <4>2, <3>3, <3>5, k \in 1 .. k
        <5> QED
            BY <5>1, <5>2 DEF SameAt
      <4>3. ASSUME NEW j \in 1 .. k
            PROVE  Running(Exec(e, code[j])) /\ SameAt(z, Exec(e, code[j]), code[j].of)
        <5>1. CASE j = k
            BY <5>1, <4>1, <3>3, <3>5
        <5>2. CASE j \in 1 .. i
          <6>1. Running(Exec(e, code[j])) /\ SameAt(d, Exec(e, code[j]), code[j].of)
              BY <5>2, <2>2, <2>7 DEF Swept
          <6>2. SameAt(z, d, code[j].of)
              BY <5>2, <2>5, <3>3, <3>5 DEF Code
          <6> QED
              BY <6>1, <6>2 DEF SameAt
        <5> QED
            BY <5>1, <5>2, <2>4
      <4> QED
          BY <3>5, <4>2, <4>3 DEF Swept
    <3> QED
        BY <3>4, <3>5
  <2> QED
      BY <2>6, <2>7
<1>4. S = Nat
  <2>1. S \in SUBSET Nat
      OBVIOUS
  <2> HIDE DEF S
  <2> QED
      BY <1>2, <1>3, <2>1, Induction
<1>5. Len(code) \in S
    BY <1>4
<1> QED
    BY <1>1, <1>5

(***************************************************************************)
(* What the end of a scope emits.                                          *)
(***************************************************************************)
\* The parts of a statement.
LEMMA CIs ==
  ASSUME NEW op, NEW x
  PROVE  C(op, x).op = op /\ C(op, x).of = x /\ (op \in Ops /\ x \in Var => C(op, x) \in Code)
  BY DEF C, Code

\* code drops the variables of the jobs from b on, the youngest first, and skips
\* ret.
DropsFrom(code, b, ret) ==
  /\ code \in Seq(Code) /\ Len(code) = Len(jobs) - b
  /\ \A i \in 1 .. (Len(jobs) - b) :
        /\ code[i].of = jobs[Len(jobs) + 1 - i]
        /\ code[i].op = IF jobs[Len(jobs) + 1 - i] = ret THEN "keep" ELSE "drop"

\* What destruct emits.
LEMMA DropsIs ==
  ASSUME jobs \in Seq(Var), NEW b \in Nat, b <= Len(jobs), NEW ret \in Var \cup {NoVar}
  PROVE  DropsFrom(Drops(b, ret), b, ret)
<1> DEFINE n == Len(jobs) - b
<1>1. n \in Nat
    OBVIOUS
<1>2. \A i \in 1 .. n : jobs[Len(jobs) + 1 - i] \in Var
    BY <1>1
<1> DEFINE D(i) == C(IF jobs[Len(jobs) + 1 - i] = ret THEN "keep" ELSE "drop", jobs[Len(jobs) + 1 - i])
<1>3. \A i \in 1 .. n : D(i) \in Code
    BY <1>2 DEF Code, C, Ops
<1>4. Drops(b, ret) = [i \in 1 .. n |-> D(i)]
    BY DEF Drops
<1>5. Drops(b, ret) \in Seq(Code) /\ Len(Drops(b, ret)) = n
  <2> HIDE DEF D, n
  <2> QED
      BY <1>1, <1>3, <1>4
<1>6. \A i \in 1 .. n : Drops(b, ret)[i] = D(i)
    BY <1>4
<1>7. ASSUME NEW i \in 1 .. n
      PROVE  /\ Drops(b, ret)[i].of = jobs[Len(jobs) + 1 - i]
             /\ Drops(b, ret)[i].op = IF jobs[Len(jobs) + 1 - i] = ret THEN "keep" ELSE "drop"
    BY <1>6, CIs
<1> QED
    BY <1>5, <1>7 DEF DropsFrom

\* The place of a job in such code, counted from the youngest, and back.
LEMMA FromYoungest ==
  ASSUME NEW l \in Nat, NEW b \in Nat, NEW i \in 1 .. (l - b)
  PROVE  l + 1 - i \in b + 1 .. l /\ l + 1 - i \in 1 .. l /\ l + 1 - (l + 1 - i) = i
  OBVIOUS

\* The same from the job's side.
LEMMA FromOldest ==
  ASSUME NEW l \in Nat, NEW b \in Nat, NEW i \in b + 1 .. l
  PROVE  l + 1 - i \in 1 .. (l - b) /\ l + 1 - (l + 1 - i) = i
  OBVIOUS

\* Each job from b on ends.
LEMMA EndsIs ==
  ASSUME jobs \in Seq(Var), NEW b \in Nat, b <= Len(jobs)
  PROVE  /\ Ends(b) \in Seq(Code) /\ Len(Ends(b)) = Len(jobs) - b
         /\ \A i \in 1 .. (Len(jobs) - b) : Ends(b)[i].of = jobs[b + i] /\ Ends(b)[i].op = "end"
<1> DEFINE n == Len(jobs) - b
           D(i) == C("end", jobs[b + i])
<1>1. n \in Nat
    OBVIOUS
<1>2. \A i \in 1 .. n : D(i) \in Code
    BY DEF Code, C, Ops
<1>3. Ends(b) = [i \in 1 .. n |-> D(i)]
    BY DEF Ends
<1>4. Ends(b) \in Seq(Code) /\ Len(Ends(b)) = n
  <2> HIDE DEF D, n
  <2> QED
      BY <1>1, <1>2, <1>3
<1>5. \A i \in 1 .. n : Ends(b)[i] = D(i)
  <2> HIDE DEF D, n
  <2> QED
      BY <1>3
<1>6. ASSUME NEW i \in 1 .. n PROVE Ends(b)[i].of = jobs[b + i] /\ Ends(b)[i].op = "end"
  <2>1. Ends(b)[i] = C("end", jobs[b + i])
      BY <1>5
  <2> HIDE DEF n, D
  <2> QED
      BY <2>1, CIs
<1> QED
    BY <1>4, <1>6

\* A drop may leave x moved with its flag up; it makes nothing live.
Dropped(d, e, x) ==
  /\ d.val[x] = "none" => e.val[x] = "none"
  /\ Live(d, x) => Live(e, x) /\ d.flag[x] = e.flag[x]

\* What if(flag) destroy(&x) does: nothing lives behind it unless its flag
\* was down, and it goes wrong only where a flag was up for no value.
LEMMA DropAt ==
  ASSUME NEW e \in Env, Running(e), NEW s \in Code, s.op \in {"keep", "drop"}
  PROVE  /\ IF Running(Exec(e, s))
            THEN /\ Dropped(Exec(e, s), e, s.of)
                 /\ Live(Exec(e, s), s.of) /\ s.op = "drop" => FlagDown(e, s.of)
                 /\ s.op = "keep" => Exec(e, s) = e
            ELSE Exec(e, s).fault = <<"destroyed", s.of>> /\ FlagUp(e, s.of) /\ s.op = "drop"
<1> USE DEF Code, Env, Dropped, Live, FlagDown, FlagUp, Running
<1>1. CASE s.op = "keep"
    BY <1>1 DEF Exec
<1>2. CASE s.op = "drop"
  <2>1. CASE e.flag[s.of] = FALSE
      BY <1>2, <2>1 DEF Exec
  <2>2. CASE e.flag[s.of] = TRUE
      BY <1>2, <2>2 DEF Exec, Fault, Start, NoFault
  <2> QED
      BY <2>1, <2>2
<1> QED
    BY <1>1, <1>2

\* A variable ends badly only if it still holds a value.
LEMMA EndAt ==
  ASSUME NEW e \in Env, Running(e), NEW s \in Code, s.op = "end", ~Running(Exec(e, s))
  PROVE  Exec(e, s).fault = <<"leaked", s.of>> /\ Live(e, s.of)
  BY DEF Exec, Code, Env, Live, Running, Fault, Start, NoFault

\* Leaving scopes: the jobs from b1 on are dropped and those from b2 on end.
\* What goes wrong is a flag that did not tell the truth.
LEMMA LeaveEffect ==
  ASSUME jobs \in Seq(Var), IsInjective(jobs),
         NEW b1 \in Nat, NEW b2 \in Nat, b1 <= b2, b2 <= Len(jobs),
         NEW ret \in Var \cup {NoVar}, NEW e \in Env, Running(e), ret \in Var => ~Live(e, ret),
         NEW d, d = Run(e, Drops(b1, ret) \o Ends(b2))
  PROVE  /\ d \in Env
         /\ IF Running(d)
            THEN /\ \A x \in Var : (\A i \in b1 + 1 .. Len(jobs) : jobs[i] # x) => SameAt(d, e, x)
                 /\ \A i \in b1 + 1 .. b2 : Dropped(d, e, jobs[i])
            ELSE \E x \in ToSet(jobs) :
                   \/ d.fault = <<"destroyed", x>> /\ FlagUp(e, x) /\ x # ret
                   \/ d.fault = <<"leaked", x>> /\ FlagDown(e, x)
<1> DEFINE a == Drops(b1, ret)
           b == Ends(b2)
           m == Run(e, a)
           L == Len(jobs)
<1>1. /\ L \in Nat
      /\ a \in Seq(Code) /\ Len(a) = L - b1 /\ b \in Seq(Code) /\ Len(b) = L - b2
      /\ \A i \in 1 .. Len(a) : a[i].of = jobs[L + 1 - i]
            /\ a[i].op = IF jobs[L + 1 - i] = ret THEN "keep" ELSE "drop"
      /\ \A i \in 1 .. Len(b) : b[i].of = jobs[b2 + i] /\ b[i].op = "end"
  <2>1. b1 <= Len(jobs) /\ L \in Nat
      OBVIOUS
  <2> HIDE DEF a, b, L
  <2>2. /\ a \in Seq(Code) /\ Len(a) = L - b1
        /\ \A i \in 1 .. (L - b1) :
              a[i].of = jobs[L + 1 - i] /\ a[i].op = (IF jobs[L + 1 - i] = ret THEN "keep" ELSE "drop")
    <3>1. DropsFrom(Drops(b1, ret), b1, ret)
        BY <2>1, DropsIs
    <3> QED
        BY <3>1 DEF a, L, DropsFrom
  <2>3. /\ b \in Seq(Code) /\ Len(b) = L - b2
        /\ \A i \in 1 .. (L - b2) : b[i].of = jobs[b2 + i] /\ b[i].op = "end"
      BY EndsIs DEF b, L
  <2> QED
      BY <2>1, <2>2, <2>3
<1>10. d = Run(e, a \o b)
    OBVIOUS
<1> HIDE DEF a, b
<1>12. /\ L \in Nat /\ b2 <= L /\ Len(a) = L - b1 /\ Len(b) = L - b2
       /\ DOMAIN a = 1 .. (L - b1) /\ DOMAIN b = 1 .. (L - b2)
    BY <1>1
<1>13. /\ \A i \in 1 .. L : jobs[i] \in Var /\ jobs[i] \in ToSet(jobs)
       /\ \A i, j \in 1 .. L : jobs[i] = jobs[j] => i = j
    BY DEF IsInjective, ToSet
<1>14. \A i \in 1 .. (L - b2) : b[i].of = jobs[b2 + i] /\ b[i].op = "end"
    BY <1>1, <1>12
<1>15. \A i \in 1 .. (L - b1) :
         a[i].of = jobs[L + 1 - i] /\ a[i].op = (IF jobs[L + 1 - i] = ret THEN "keep" ELSE "drop")
    BY <1>1, <1>12
<1> HIDE DEF L
<1>11. /\ \A i \in 1 .. Len(a) : a[i] \in Code /\ a[i].of \in Var
      /\ \A i \in 1 .. Len(b) : b[i] \in Code /\ b[i].of \in Var
  <2>1. ASSUME NEW i \in 1 .. Len(a) PROVE a[i] \in Code /\ a[i].of \in Var
    <3>1. a \in Seq(Code)
        BY <1>1
    <3>2. a[i] \in Code
        BY <3>1
    <3> QED
        BY <3>2 DEF Code
  <2>2. ASSUME NEW i \in 1 .. Len(b) PROVE b[i] \in Code /\ b[i].of \in Var
    <3>1. b \in Seq(Code)
        BY <1>1
    <3>2. b[i] \in Code
        BY <3>1
    <3> QED
        BY <3>2 DEF Code
  <2> QED
      BY <2>1, <2>2
<1>2. m \in Env /\ d = Run(m, b) /\ d \in Env
  <2>1. m \in Env
      BY <1>1, RunType
  <2>2. d = Run(m, b)
      BY <1>1, <1>10, RunAppend
  <2> HIDE DEF m
  <2> QED
      BY <1>1, <2>1, <2>2, RunType
<1>3. Swept(m, e, a, Len(a))
  <2>1. \A i \in DOMAIN a : a[i].op \in EndOps
      BY <1>1 DEF EndOps
  <2>2. ASSUME NEW i \in DOMAIN a, NEW j \in DOMAIN a, a[i].of = a[j].of PROVE i = j
    <3>0. i \in 1 .. (L - b1) /\ j \in 1 .. (L - b1)
        BY <1>12
    <3>1. /\ L + 1 - i \in 1 .. L /\ L + 1 - j \in 1 .. L
          /\ L + 1 - (L + 1 - i) = i /\ L + 1 - (L + 1 - j) = j
        BY <1>12, <3>0, FromYoungest
    <3>2. jobs[L + 1 - i] = jobs[L + 1 - j]
        BY <2>2, <1>15, <3>0
    <3>3. L + 1 - i = L + 1 - j
        BY <1>13, <3>1, <3>2
    <3> QED
        BY <3>1, <3>3
  <2> QED
      BY <1>1, <2>1, <2>2, Sweep
<1>4. Running(m) => Swept(d, m, b, Len(b))
  <2> SUFFICES ASSUME Running(m) PROVE Swept(d, m, b, Len(b))
      OBVIOUS
  <2>1. \A i \in DOMAIN b : b[i].op \in EndOps
      BY <1>1 DEF EndOps
  <2>2. ASSUME NEW i \in DOMAIN b, NEW j \in DOMAIN b, b[i].of = b[j].of PROVE i = j
    <3>1. /\ i \in 1 .. (L - b2) /\ j \in 1 .. (L - b2)
          /\ b2 + i \in 1 .. L /\ b2 + j \in 1 .. L
        BY <1>12
    <3>2. jobs[b2 + i] = jobs[b2 + j]
        BY <2>2, <1>14, <3>1
    <3>3. b2 + i = b2 + j
        BY <1>13, <3>1, <3>2
    <3> QED
        BY <3>1, <3>3
  <2> HIDE DEF m
  <2> QED
      BY <1>1, <1>2, <2>1, <2>2, Sweep
<1> HIDE DEF m
\* The statement of the jobs[i] in a.
<1>5. ASSUME NEW i \in b1 + 1 .. L
      PROVE  /\ L + 1 - i \in 1 .. Len(a) /\ a[L + 1 - i] \in Code
             /\ a[L + 1 - i].of = jobs[i] /\ a[L + 1 - i].op = IF jobs[i] = ret THEN "keep" ELSE "drop"
  <2>1. L + 1 - i \in 1 .. (L - b1) /\ L + 1 - (L + 1 - i) = i
      BY <1>12, FromOldest
  <2>2. jobs[L + 1 - (L + 1 - i)] = jobs[i]
      BY <2>1
  <2>3. L + 1 - i \in 1 .. Len(a)
      BY <1>12, <2>1
  <2> QED
      BY <1>11, <1>15, <2>1, <2>2, <2>3
<1>6. ASSUME Running(m), NEW i \in b1 + 1 .. L
      PROVE  Dropped(m, e, jobs[i]) /\ (Live(m, jobs[i]) => FlagDown(e, jobs[i]))
  <2> DEFINE s == a[L + 1 - i]
  <2>1. s \in Code /\ s.of = jobs[i] /\ s.op = IF jobs[i] = ret THEN "keep" ELSE "drop"
      BY <1>5
  <2>2. Running(Exec(e, s)) /\ SameAt(m, Exec(e, s), s.of)
      BY <1>3, <1>5, <1>6 DEF Swept
  <2>3. /\ Dropped(Exec(e, s), e, s.of)
        /\ Live(Exec(e, s), s.of) /\ s.op = "drop" => FlagDown(e, s.of)
        /\ s.op = "keep" => Exec(e, s) = e
    <3> HIDE DEF s
    <3> QED
        BY <2>1, <2>2, DropAt
  <2>4. Dropped(m, e, s.of)
      BY <2>2, <2>3 DEF Dropped, SameAt, Live
  <2>5. jobs[i] \in Var
      BY <1>12, <1>13
  <2>6. Live(m, s.of) => FlagDown(e, s.of)
      BY <2>1, <2>2, <2>3, <2>5 DEF SameAt, Live
  <2> QED
      BY <2>1, <2>4, <2>6
<1>7. CASE ~Running(m)
  <2>1. d = m
      BY <1>1, <1>2, <1>7, RunStopped
  <2>2. PICK j \in 1 .. Len(a) : m.fault = Exec(e, a[j]).fault
      BY <1>3, <1>7 DEF Swept
  <2>3. a[j] \in Code /\ a[j].op \in {"keep", "drop"} /\ a[j].of \in Var
      BY <1>1, <1>11, <2>2
  <2>4. ~Running(Exec(e, a[j]))
      BY <1>7, <2>2 DEF Running
  <2>5. Exec(e, a[j]).fault = <<"destroyed", a[j].of>> /\ FlagUp(e, a[j].of) /\ a[j].op = "drop"
      BY <2>3, <2>4, DropAt
  <2>6. a[j].of # ret
      BY <1>1, <2>2, <2>5
  <2>7. a[j].of \in ToSet(jobs)
    <3>1. L + 1 - j \in 1 .. L /\ a[j].of = jobs[L + 1 - j]
        BY <1>12, <1>15, <2>2
    <3> QED
        BY <1>13, <3>1
  <2> QED
      BY <1>2, <1>7, <2>1, <2>2, <2>5, <2>6, <2>7
<1>8. CASE Running(m) /\ ~Running(d)
  <2>1. PICK j \in 1 .. Len(b) : d.fault = Exec(m, b[j]).fault
      BY <1>4, <1>8 DEF Swept
  <2>2. b[j] \in Code /\ b[j].op = "end" /\ b[j].of \in Var /\ b[j].of = jobs[b2 + j]
      BY <1>1, <1>11, <2>1
  <2>3. ~Running(Exec(m, b[j]))
      BY <1>8, <2>1 DEF Running
  <2>4. Exec(m, b[j]).fault = <<"leaked", b[j].of>> /\ Live(m, b[j].of)
      BY <1>2, <1>8, <2>2, <2>3, EndAt
  <2>5. b2 + j \in b1 + 1 .. L
      BY <1>12, <2>1
  <2>6. FlagDown(e, b[j].of)
      BY <1>6, <1>8, <2>2, <2>4, <2>5
  <2>7. b[j].of \in ToSet(jobs)
    <3>1. b2 + j \in 1 .. L
        BY <1>12, <2>5
    <3> QED
        BY <1>13, <2>2, <3>1
  <2> QED
      BY <1>2, <1>8, <2>1, <2>4, <2>6, <2>7
<1>9. CASE Running(m) /\ Running(d)
  <2>1. ASSUME NEW x \in Var, \A i \in b1 + 1 .. L : jobs[i] # x
        PROVE  SameAt(d, e, x)
    <3>1. SameAt(m, e, x)
      <4>1. \A j \in 1 .. Len(a) : a[j].of # x
        <5> TAKE j \in 1 .. Len(a)
        <5>1. L + 1 - j \in b1 + 1 .. L /\ j \in 1 .. (L - b1)
            BY <1>12
        <5> QED
            BY <1>15, <2>1, <5>1
      <4> QED
          BY <4>1, <1>3, <1>9 DEF Swept
    <3>2. SameAt(d, m, x)
      <4>1. \A j \in 1 .. Len(b) : b[j].of # x
        <5> TAKE j \in 1 .. Len(b)
        <5>1. b2 + j \in b1 + 1 .. L /\ j \in 1 .. (L - b2)
            BY <1>12
        <5> QED
            BY <1>14, <2>1, <5>1
      <4> QED
          BY <4>1, <1>4, <1>9 DEF Swept
    <3> QED
        BY <3>1, <3>2 DEF SameAt
  <2>2. ASSUME NEW i \in b1 + 1 .. b2 PROVE Dropped(d, e, jobs[i])
    <3>1. i \in b1 + 1 .. L /\ i \in 1 .. L
        BY <1>12
    <3>4. jobs[i] \in Var
        BY <1>13, <3>1
    <3>2. Dropped(m, e, jobs[i])
        BY <3>1, <1>6, <1>9
    <3>3. SameAt(d, m, jobs[i])
      <4>1. \A j \in 1 .. Len(b) : b[j].of # jobs[i]
        <5> TAKE j \in 1 .. Len(b)
        <5>1. b2 + j \in 1 .. L /\ b2 + j # i /\ j \in 1 .. (L - b2)
            BY <1>12
        <5> QED
            BY <1>13, <1>14, <3>1, <5>1
      <4> QED
          BY <4>1, <3>4, <1>4, <1>9 DEF Swept
    <3> QED
        BY <3>2, <3>3 DEF SameAt, Dropped, Live
  <2> QED
      BY <1>2, <1>9, <2>1, <2>2 DEF L
<1> QED
    BY <1>7, <1>8, <1>9

(***************************************************************************)
(* Contexts: what makes runs good, and keeps them so.                      *)
(***************************************************************************)
\* The excuses g are those of h and more.
Grown(h, g) ==
  /\ h.gone \subseteq g.gone /\ h.clash \subseteq g.clash /\ h.up \subseteq g.up
  /\ h.down \subseteq g.down /\ h.leak \subseteq g.leak

\* x is on the list, or goes back on it when a body further in than j is closed.
Listed(c, j, x) == x \in c.list \/ \E n \in DOMAIN c.kept : n > j /\ x \in c.kept[n]

\* The context d after lists moved about, seen by runs from f to c.
Recast(f, c, d, h) ==
  /\ d.scope \subseteq c.scope
  /\ \A x \in d.scope :
       /\ x \in c.said => x \in d.said \/ x \in h.gone
       /\ x \in d.list => \/ x \in h.clash \/ x \in c.list
                          \/ \E j \in DOMAIN c.kept \ DOMAIN f.kept : x \in c.kept[j]
       /\ \A j \in DOMAIN d.kept : x \in d.kept[j] =>
            \/ x \in h.clash
            \/ x \in c.list /\ ~Listed(d, j, x)
            \/ j \in DOMAIN c.kept /\ x \in c.kept[j] /\ (Listed(d, j, x) => Listed(c, j, x))

\* A run that is safe in a context is safe in its recast.
LEMMA SafeRecast ==
  ASSUME NEW f, NEW c, NEW d, NEW h, NEW g, NEW p, NEW x,
         Safe(p, f, c, h, x), Grown(h, g), Recast(f, c, d, g), x \in d.scope
  PROVE  Safe(p, f, d, g, x)
<1> USE DEF Grown
<1>1. p.now.val[x] # "none"
    BY DEF Safe
<1>2. Gone(p.now, d, x) => x \in g.gone \/ Gone(p.from, f, x)
    BY DEF Safe, Gone, Recast
<1>3. Clash(p.now, d, x) => x \in g.clash \/ Clash(p.from, f, x)
  <2> SUFFICES ASSUME Clash(p.now, d, x), x \notin g.clash PROVE Clash(p.from, f, x)
      OBVIOUS
  <2>1. CASE x \in c.list
      BY <2>1 DEF Safe, Clash
  <2>2. ASSUME NEW j \in DOMAIN c.kept \ DOMAIN f.kept, x \in c.kept[j] PROVE Clash(p.from, f, x)
    <3>1. Owed(p.now, c, j, x) /\ ~Owed(p.from, f, j, x)
        BY <2>2 DEF Owed, Clash
    <3> QED
        BY <3>1, <2>2 DEF Safe
  <2> QED
      BY <2>1, <2>2 DEF Recast, Clash
<1>4. ASSUME NEW j \in DOMAIN d.kept, Owed(p.now, d, j, x), x \notin g.clash
      PROVE  Clash(p.from, f, x) \/ Owed(p.from, f, j, x)
  <2>1. x \in d.kept[j] /\ (Live(p.now, x) \/ Listed(d, j, x))
      BY <1>4 DEF Owed, Listed
  <2>2. CASE x \in c.list /\ ~Listed(d, j, x)
    <3>1. Clash(p.now, c, x)
        BY <2>1, <2>2 DEF Clash
    <3> QED
        BY <3>1, <1>4 DEF Safe
  <2>3. CASE j \in DOMAIN c.kept /\ x \in c.kept[j] /\ (Listed(d, j, x) => Listed(c, j, x))
    <3>1. Owed(p.now, c, j, x)
        BY <2>1, <2>3 DEF Owed, Listed
    <3> QED
        BY <3>1, <2>3, <1>4 DEF Safe
  <2> QED
      BY <2>1, <2>2, <2>3, <1>4 DEF Recast
<1>5. /\ FlagUp(p.now, x) => x \in g.up \/ FlagUp(p.from, x)
      /\ FlagDown(p.now, x) => x \in g.down \/ FlagDown(p.from, x)
    BY DEF Safe
<1> QED
    BY <1>1, <1>2, <1>3, <1>4, <1>5 DEF Safe

\* More excuses excuse more.
LEMMA BlamedGrows ==
  ASSUME NEW f, NEW h, NEW g, NEW p, NEW x, Blamed(p, f, h, x), Grown(h, g)
  PROVE  Blamed(p, f, g, x)
  BY DEF Blamed, Grown

\* Runs that are good in a context are good in its recast.
LEMMA GoodRecast ==
  ASSUME NEW P, NEW f, NEW c, NEW d, NEW h, NEW g,
         Good(P, f, c, h), Grown(h, g), Recast(f, c, d, g)
  PROVE  Good(P, f, d, g)
<1> SUFFICES ASSUME NEW p \in P
             PROVE  /\ p \in Path /\ Clean(p.from, f)
                    /\ \A x \in Var : Blamed(p, f, g, x)
                    /\ Running(p.now) => \A x \in d.scope : Safe(p, f, d, g, x)
    BY DEF Good
<1>1. /\ p \in Path /\ Clean(p.from, f)
      /\ \A x \in Var : Blamed(p, f, h, x)
      /\ Running(p.now) => \A x \in c.scope : Safe(p, f, c, h, x)
    BY DEF Good
<1>2. \A x \in Var : Blamed(p, f, g, x)
    BY <1>1, BlamedGrows
<1>3. ASSUME Running(p.now), NEW x \in d.scope PROVE Safe(p, f, d, g, x)
  <2>1. x \in c.scope
      BY DEF Recast
  <2>2. Safe(p, f, c, h, x)
      BY <1>1, <1>3, <2>1
  <2> QED
      BY <2>2, SafeRecast
<1> QED
    BY <1>1, <1>2, <1>3

\* A context is a recast of itself.
LEMMA RecastSame ==
  ASSUME NEW f, NEW c, NEW h
  PROVE  Recast(f, c, c, h)
  BY DEF Recast

\* Runs stay good when the excuses grow.
LEMMA GoodGrows ==
  ASSUME NEW P, NEW f, NEW c, NEW h, NEW g, Good(P, f, c, h), Grown(h, g)
  PROVE  Good(P, f, c, g)
  BY GoodRecast, RecastSame

\* Runs of two kinds.
LEMMA GoodUnion ==
  ASSUME NEW P, NEW Q, NEW f, NEW c, NEW h, Good(P, f, c, h), Good(Q, f, c, h)
  PROVE  Good(P \cup Q, f, c, h)
  BY DEF Good

\* Fewer runs.
LEMMA GoodSub ==
  ASSUME NEW P, NEW Q, NEW f, NEW c, NEW h, Good(P, f, c, h), Q \subseteq P
  PROVE  Good(Q, f, c, h)
  BY DEF Good

\* No run.
LEMMA GoodNone ==
  ASSUME NEW f, NEW c, NEW h
  PROVE  Good({}, f, c, h)
  BY DEF Good

\* Runs that stopped are good in every context.
LEMMA GoodStopped ==
  ASSUME NEW P, NEW f, NEW c, NEW d, NEW h, Good(P, f, c, h), \A p \in P : ~Running(p.now)
  PROVE  Good(P, f, d, h)
  BY DEF Good

(***************************************************************************)
(* Runs joined at the entry of a loop.                                     *)
(***************************************************************************)
\* What excuses a wrong flag excuses what it leads to.
Sane(h) == h.up \subseteq h.gone /\ h.down \subseteq h.leak

\* Runs to the entry of a loop, continued by runs from there: what was wrong at
\* the entry is excused by the first part.
LEMMA JoinGood ==
  ASSUME NEW P, NEW R, NEW f, NEW c, NEW d, NEW h,
         Good(P, f, c, h), Good(R, c, d, h), d.scope \subseteq c.scope, Sane(h)
  PROVE  Good(Join(P, R), f, d, h)
<1> SUFFICES ASSUME NEW z \in Join(P, R)
             PROVE  /\ z \in Path /\ Clean(z.from, f)
                    /\ \A x \in Var : Blamed(z, f, h, x)
                    /\ Running(z.now) => \A x \in d.scope : Safe(z, f, d, h, x)
    BY DEF Good
<1>1. PICK p \in P, r \in R : r.from = p.now /\ z = [from |-> p.from, now |-> r.now]
    BY DEF Join
<1>2. /\ p \in Path /\ Clean(p.from, f) /\ r \in Path /\ Clean(p.now, c) /\ Running(p.now)
      /\ \A x \in c.scope : Safe(p, f, c, h, x)
      /\ \A x \in Var : Blamed(r, c, h, x)
      /\ Running(r.now) => \A x \in d.scope : Safe(r, c, d, h, x)
    BY <1>1 DEF Good, Clean
<1>3. z.from = p.from /\ z.now = r.now /\ z \in Path
    BY <1>1, <1>2 DEF Path
<1>4. ASSUME NEW x \in Var PROVE Blamed(z, f, h, x)
  <2>1. CASE x \in c.scope
    <3>1. /\ Gone(p.now, c, x) => x \in h.gone \/ Gone(p.from, f, x)
          /\ FlagUp(p.now, x) => x \in h.gone \/ FlagUp(p.from, x)
          /\ FlagDown(p.now, x) => x \in h.leak \/ FlagDown(p.from, x)
        BY <1>2, <2>1 DEF Safe, Sane
    <3>2. Blamed(r, c, h, x)
        BY <1>2
    <3> QED
        BY <1>1, <1>3, <3>1, <3>2 DEF Blamed
  <2>2. CASE x \notin c.scope
      BY <1>1, <1>2, <1>3, <2>2 DEF Blamed, Clean, Gone, FlagUp, FlagDown, Live
  <2> QED
      BY <2>1, <2>2
<1>5. ASSUME Running(z.now), NEW x \in d.scope PROVE Safe(z, f, d, h, x)
  <2>1. Safe(p, f, c, h, x) /\ Safe(r, c, d, h, x)
      BY <1>2, <1>3, <1>5
  <2>2. ASSUME NEW j \in DOMAIN d.kept, Owed(z.now, d, j, x), x \notin h.clash
        PROVE  Clash(z.from, f, x) \/ Owed(z.from, f, j, x)
    <3>1. Clash(p.now, c, x) \/ Owed(p.now, c, j, x)
        BY <1>1, <1>3, <2>1, <2>2 DEF Safe
    <3>2. Owed(p.now, c, j, x) => j \in DOMAIN c.kept
        BY DEF Owed
    <3> QED
        BY <1>3, <2>1, <2>2, <3>1, <3>2 DEF Safe
  <2>3. /\ z.now.val[x] # "none"
        /\ Gone(z.now, d, x) => x \in h.gone \/ Gone(z.from, f, x)
        /\ Clash(z.now, d, x) => x \in h.clash \/ Clash(z.from, f, x)
        /\ FlagUp(z.now, x) => x \in h.up \/ FlagUp(z.from, x)
        /\ FlagDown(z.now, x) => x \in h.down \/ FlagDown(z.from, x)
      BY <1>1, <1>3, <2>1 DEF Safe
  <2> QED
      BY <2>2, <2>3 DEF Safe
<1> QED
    BY <1>2, <1>3, <1>4, <1>5

\* The variables of a program are finitely many, and so are its states.
LEMMA FiniteEnv == IsFiniteSet(Env)
<1> DEFINE T == (SUBSET Var) \X ((SUBSET Var) \X ((SUBSET Var) \X Faults))
           g == [e \in Env |-> <<{x \in Var : e.val[x] = "live"},
                   <<{x \in Var : e.val[x] = "gone"}, <<{x \in Var : e.flag[x] = TRUE}, e.fault>>>>>>]
<1>1. IsFiniteSet(SUBSET Var)
    BY VarAssumption, FS_SUBSET
<1>2. IsFiniteSet({"used", "destroyed", "leaked"})
  <2>1. IsFiniteSet({"used"})
      BY FS_Singleton
  <2>2. IsFiniteSet({"used"} \cup {"destroyed"})
      BY <2>1, FS_AddElement
  <2>3. IsFiniteSet(({"used"} \cup {"destroyed"}) \cup {"leaked"})
      BY <2>2, FS_AddElement
  <2>4. ({"used"} \cup {"destroyed"}) \cup {"leaked"} = {"used", "destroyed", "leaked"}
      OBVIOUS
  <2> QED
      BY <2>3, <2>4
<1>3. IsFiniteSet(Faults)
  <2>1. IsFiniteSet({"used", "destroyed", "leaked"} \X Var)
      BY <1>2, VarAssumption, FS_Product
  <2>2. IsFiniteSet(({"used", "destroyed", "leaked"} \X Var) \cup {NoFault})
      BY <2>1, FS_AddElement
  <2>3. Faults = ({"used", "destroyed", "leaked"} \X Var) \cup {NoFault}
      BY DEF Faults
  <2> QED
      BY <2>2, <2>3
<1>4. IsFiniteSet(T)
  <2>1. IsFiniteSet((SUBSET Var) \X Faults)
      BY <1>1, <1>3, FS_Product
  <2>2. IsFiniteSet((SUBSET Var) \X ((SUBSET Var) \X Faults))
      BY <1>1, <2>1, FS_Product
  <2> QED
      BY <1>1, <2>2, FS_Product
<1>5. g \in [Env -> T]
    BY DEF Env
<1>6. ASSUME NEW e \in Env, NEW d \in Env, g[e] = g[d] PROVE e = d
  <2>1. /\ {x \in Var : e.val[x] = "live"} = {x \in Var : d.val[x] = "live"}
        /\ {x \in Var : e.val[x] = "gone"} = {x \in Var : d.val[x] = "gone"}
        /\ {x \in Var : e.flag[x] = TRUE} = {x \in Var : d.flag[x] = TRUE}
        /\ e.fault = d.fault
      BY <1>6
  <2>2. /\ e.val \in [Var -> {"none", "live", "gone"}] /\ e.flag \in [Var -> BOOLEAN]
        /\ d.val \in [Var -> {"none", "live", "gone"}] /\ d.flag \in [Var -> BOOLEAN]
        /\ e = [val |-> e.val, flag |-> e.flag, fault |-> e.fault]
        /\ d = [val |-> d.val, flag |-> d.flag, fault |-> d.fault]
      BY DEF Env
  <2>3. \A x \in Var : e.val[x] = d.val[x]
    <3> TAKE x \in Var
    <3>1. e.val[x] = "live" <=> d.val[x] = "live"
        BY <2>1
    <3>2. e.val[x] = "gone" <=> d.val[x] = "gone"
        BY <2>1
    <3>3. e.val[x] \in {"none", "live", "gone"} /\ d.val[x] \in {"none", "live", "gone"}
        BY <2>2
    <3> QED
        BY <3>1, <3>2, <3>3
  <2>4. \A x \in Var : e.flag[x] = d.flag[x]
    <3> TAKE x \in Var
    <3>1. e.flag[x] = TRUE <=> d.flag[x] = TRUE
        BY <2>1
    <3>2. e.flag[x] \in BOOLEAN /\ d.flag[x] \in BOOLEAN
        BY <2>2
    <3> QED
        BY <3>1, <3>2
  <2>5. e.val = d.val /\ e.flag = d.flag
      BY <2>2, <2>3, <2>4
  <2> QED
      BY <2>1, <2>2, <2>5
<1>7. g \in Injection(Env, T)
  <2> HIDE DEF g, T
  <2> QED
      BY <1>5, <1>6 DEF Injection, IsInjective
<1> QED
    BY <1>4, <1>7, FS_Injection

\* What any number of rounds adds stays within a set closed under a round.
LEMMA RoundsIn ==
  ASSUME NEW P \in SUBSET Path, NEW R \in SUBSET Path,
         NEW Z \in SUBSET Path, P \subseteq Z, Join(Z, R) \subseteq Z
  PROVE  P \subseteq Rounds(P, R) /\ Rounds(P, R) \subseteq Z
<1> DEFINE changed == {r \in R : r.now # r.from}
           X == [all : SUBSET Path, last : SUBSET Path]
           more(q) == Join(q.last, changed) \ q.all
           add(q) == [all |-> q.all \cup more(q), last |-> more(q)]
           c == [all |-> P, last |-> P]
           g == [q \in X |-> add(q)]
           n == Cardinality({r.from : r \in changed})
           Eq(a) == a = [i \in Nat |-> IF i = 0 THEN c ELSE add(a[i - 1])]
           after == CHOOSE a : Eq(a)
<1>1. n \in Nat
  <2>1. {r.from : r \in changed} \in SUBSET Env
      BY DEF Path
  <2> QED
      BY <2>1, FiniteEnv, FS_Subset, FS_CardinalityType
<1>2. \A A, B : A \in SUBSET Path /\ B \in SUBSET Path => Join(A, B) \in SUBSET Path
    BY DEF Join, Path
<1>3. c \in X /\ g \in [X -> X]
  <2>1. \A q \in X : more(q) \in SUBSET Path
      BY <1>2
  <2> HIDE DEF more
  <2> QED
      BY <2>1
<1>4. PICK a \in [Nat -> X] : a[0] = c /\ \A i \in Nat : a[i + 1] = g[a[i]]
  <2> HIDE DEF c, g, X
  <2> QED
      BY <1>3, Iteration
<1>5. Eq(a)
  <2>1. ASSUME NEW i \in Nat PROVE a[i] = IF i = 0 THEN c ELSE add(a[i - 1])
    <3>1. CASE i = 0
        BY <3>1, <1>4
    <3>2. CASE i # 0
      <4>1. i - 1 \in Nat /\ (i - 1) + 1 = i
          BY <3>2
      <4>2. a[i] = g[a[i - 1]] /\ a[i - 1] \in X
          BY <4>1, <1>4
      <4> HIDE DEF add, X
      <4> QED
          BY <4>2, <3>2
    <3> QED
        BY <3>1, <3>2
  <2> HIDE DEF c, add, X
  <2> QED
      BY <2>1, <1>4
<1>6. Eq(after)
  <2> HIDE DEF Eq
  <2> QED
      BY <1>5
<1>7. Rounds(P, R) = after[n].all
    BY Zenon DEF Rounds
<1> HIDE DEF after, n
<1>8. \A i \in Nat : after[i] = IF i = 0 THEN c ELSE add(after[i - 1])
  <2> HIDE DEF c, add
  <2> QED
      BY <1>6
<1> DEFINE S == {i \in Nat : P \subseteq after[i].all /\ after[i].all \subseteq Z /\ after[i].last \subseteq Z}
<1>9. 0 \in S
  <2>1. after[0] = c
    <3> HIDE DEF add, c
    <3> QED
        BY <1>8
  <2>2. after[0].all = P /\ after[0].last = P
      BY <2>1
  <2> QED
      BY <2>2
<1>10. ASSUME NEW i \in S PROVE i + 1 \in S
  <2>1. i + 1 \in Nat /\ i + 1 # 0 /\ (i + 1) - 1 = i
      OBVIOUS
  <2>2. after[i + 1] = add(after[i])
    <3> HIDE DEF add, c
    <3> QED
        BY <1>8, <2>1
  <2>3. Join(after[i].last, changed) \subseteq Z
      BY DEF Join
  <2>4. after[i + 1].all = after[i].all \cup more(after[i]) /\ after[i + 1].last = more(after[i])
    <3> HIDE DEF more
    <3> QED
        BY <2>2
  <2>5. more(after[i]) \subseteq Z
      BY <2>3
  <2> HIDE DEF more
  <2> QED
      BY <2>1, <2>4, <2>5
<1>11. S = Nat
  <2>1. S \in SUBSET Nat
      OBVIOUS
  <2> HIDE DEF S
  <2> QED
      BY <1>9, <1>10, <2>1, Induction
<1>12. n \in S
  <2> HIDE DEF S
  <2> QED
      BY <1>1, <1>11 DEF n
<1> QED
    BY <1>7, <1>12

\* Any number of rounds of a loop keeps runs good.
LEMMA RoundsGood ==
  ASSUME NEW P, NEW R, NEW f, NEW c, NEW h, Good(P, f, c, h), Good(R, c, c, h), Sane(h)
  PROVE  Good(Rounds(P, R), f, c, h)
<1> DEFINE Z == {p \in Path : Good({p}, f, c, h)}
<1>1. P \in SUBSET Path /\ R \in SUBSET Path
    BY DEF Good
<1>2. P \subseteq Z
    BY DEF Good
<1>3. Good(Z, f, c, h)
    BY DEF Good
<1>4. Join(Z, R) \subseteq Z
  <2>1. Good(Join(Z, R), f, c, h)
    <3> HIDE DEF Z
    <3> QED
        BY <1>3, JoinGood
  <2> QED
      BY <2>1 DEF Good
<1>5. Rounds(P, R) \subseteq Z
  <2>1. Z \in SUBSET Path
      OBVIOUS
  <2> HIDE DEF Z
  <2> QED
      BY <1>1, <1>2, <1>4, <2>1, RoundsIn
<1> HIDE DEF Z
<1> QED
    BY <1>3, <1>5, GoodSub

\* What leaves a loop of any kind, by its condition or by a break.
LEMMA LoopGood ==
  ASSUME NEW kind, NEW P, NEW R, NEW B, NEW f, NEW c, NEW d, NEW e, NEW h,
         Good(P, f, c, h), Good(R, c, c, h), Good(B, c, d, h), d.scope \subseteq c.scope, Sane(h),
         Recast(f, c, e, h), Recast(f, d, e, h)
  PROVE  Good(LoopRuns(kind, P, R, B), f, e, h)
<1>1. Grown(h, h)
    BY DEF Grown
<1>2. Good(Rounds(P, R), f, c, h)
    BY RoundsGood
<1>3. Good(Rounds(P, R), f, e, h)
    BY <1>1, <1>2, GoodRecast
<1>4. Good(Join(Rounds(P, R), B), f, e, h)
  <2>1. Good(Join(Rounds(P, R), B), f, d, h)
      BY <1>2, JoinGood
  <2> QED
      BY <1>1, <2>1, GoodRecast
<1>5. Good(Join(Rounds(P, R), R), f, e, h)
  <2>1. Good(Join(Rounds(P, R), R), f, c, h)
      BY <1>2, JoinGood
  <2> QED
      BY <1>1, <2>1, GoodRecast
<1>6. Good({p \in P : ~Running(p.now)}, f, e, h)
  <2>1. Good(P, f, e, h)
      BY <1>1, GoodRecast
  <2> QED
      BY <2>1, GoodSub
<1>7. Good({p \in Rounds(P, R) : ~Running(p.now)}, f, e, h)
    BY <1>3, GoodSub
<1>8. CASE kind = "while"
  <2>1. LoopRuns(kind, P, R, B) = Join(Rounds(P, R), B) \cup Rounds(P, R)
      BY <1>8 DEF LoopRuns
  <2> QED
      BY <2>1, <1>3, <1>4, GoodUnion
<1>9. CASE kind = "dowhile"
  <2>1. LoopRuns(kind, P, R, B)
          = Join(Rounds(P, R), B) \cup (Join(Rounds(P, R), R) \cup {p \in P : ~Running(p.now)})
      BY <1>9 DEF LoopRuns
  <2>2. Good(Join(Rounds(P, R), R) \cup {p \in P : ~Running(p.now)}, f, e, h)
      BY <1>5, <1>6, GoodUnion
  <2> QED
      BY <2>1, <2>2, <1>4, GoodUnion
<1>10. CASE kind # "while" /\ kind # "dowhile"
  <2>1. LoopRuns(kind, P, R, B)
          = Join(Rounds(P, R), B) \cup {p \in Rounds(P, R) : ~Running(p.now)}
      BY <1>10 DEF LoopRuns
  <2> QED
      BY <2>1, <1>4, <1>7, GoodUnion
<1> QED
    BY <1>8, <1>9, <1>10

(***************************************************************************)
(* What each statement does to good runs.                                  *)
(***************************************************************************)
\* A run behind emitted code is a run before it, continued.
LEMMA AfterHas ==
  ASSUME NEW code \in Seq(Code), NEW P \in SUBSET Path, NEW p \in After(code, P)
  PROVE  \E q \in P : /\ p \in Path /\ p.from = q.from /\ p.now = Run(q.now, code)
                      /\ ~Running(q.now) => p = q
<1>1. PICK q \in P : p = [q EXCEPT !.now = Run(q.now, code)]
    BY DEF After
<1>2. q \in Path /\ q.now \in Env /\ Run(q.now, code) \in Env
    BY RunType DEF Path
<1>3. p \in Path /\ p.from = q.from /\ p.now = Run(q.now, code)
    BY <1>1, <1>2 DEF Path
<1>4. ~Running(q.now) => p.now = q.now
    BY <1>2, <1>3, RunStopped
<1>5. p = [from |-> p.from, now |-> p.now] /\ q = [from |-> q.from, now |-> q.now]
    BY <1>2, <1>3 DEF Path
<1> QED
    BY <1>3, <1>4, <1>5

\* The code takes runs that are safe in the context c to d, or stops them with
\* an excuse.
Takes(code, f, c, d, h, g) ==
  \A q, p \in Path :
    /\ p.from = q.from /\ p.now = Run(q.now, code)
    /\ Running(q.now) /\ Clean(q.from, f) /\ \A x \in c.scope : Safe(q, f, c, h, x)
    => IF Running(p.now) THEN \A x \in d.scope : Safe(p, f, d, g, x)
       ELSE \A x \in Var : Blamed(p, f, g, x)

\* What code makes of a good run decides what it makes of all.
LEMMA GoodAfter ==
  ASSUME NEW code \in Seq(Code), NEW P, NEW f, NEW c, NEW d, NEW h, NEW g,
         Good(P, f, c, h), Grown(h, g), Takes(code, f, c, d, h, g)
  PROVE  Good(After(code, P), f, d, g)
<1> SUFFICES ASSUME NEW p \in After(code, P)
             PROVE  /\ p \in Path /\ Clean(p.from, f)
                    /\ \A x \in Var : Blamed(p, f, g, x)
                    /\ Running(p.now) => \A x \in d.scope : Safe(p, f, d, g, x)
    BY DEF Good
<1>1. P \in SUBSET Path
    BY DEF Good
<1>2. PICK q \in P : /\ p \in Path /\ p.from = q.from /\ p.now = Run(q.now, code)
                     /\ ~Running(q.now) => p = q
    BY <1>1, AfterHas
<1>3. /\ q \in Path /\ Clean(q.from, f)
      /\ \A x \in Var : Blamed(q, f, h, x)
      /\ Running(q.now) => \A x \in c.scope : Safe(q, f, c, h, x)
    BY <1>2 DEF Good
<1>4. CASE ~Running(q.now)
  <2>1. p = q
      BY <1>2, <1>4
  <2>2. \A x \in Var : Blamed(p, f, g, x)
      BY <2>1, <1>3, BlamedGrows
  <2> QED
      BY <2>1, <2>2, <1>2, <1>3, <1>4
<1>5. CASE Running(q.now)
  <2>1. IF Running(p.now) THEN \A x \in d.scope : Safe(p, f, d, g, x)
        ELSE \A x \in Var : Blamed(p, f, g, x)
      BY <1>2, <1>3, <1>5 DEF Takes
  <2>2. Running(p.now) => \A x \in Var : Blamed(p, f, g, x)
      BY DEF Running, NoFault, Blamed
  <2> QED
      BY <1>2, <1>3, <2>1, <2>2
<1> QED
    BY <1>4, <1>5

\* A statement that does nothing to x leaves x as safe as it was.
LEMMA SafeSame ==
  ASSUME NEW p, NEW q, NEW f, NEW c, NEW d, NEW h, NEW g, NEW x,
         Safe(q, f, c, h, x), Grown(h, g), p.from = q.from, SameAt(p.now, q.now, x),
         x \in c.said => x \in d.said, x \in d.list => x \in c.list, d.kept = c.kept
  PROVE  Safe(p, f, d, g, x)
<1>1. /\ p.now.val[x] = q.now.val[x] /\ p.now.flag[x] = q.now.flag[x]
      /\ Live(p.now, x) <=> Live(q.now, x)
    BY DEF SameAt, Live
<1>2. \A j \in DOMAIN d.kept : Owed(p.now, d, j, x) => Owed(q.now, c, j, x)
    BY <1>1 DEF Owed
<1>3. p.now.val[x] # "none"
    BY <1>1 DEF Safe
<1>4. Gone(p.now, d, x) => x \in g.gone \/ Gone(p.from, f, x)
    BY <1>1 DEF Safe, Gone, Grown
<1>5. Clash(p.now, d, x) => x \in g.clash \/ Clash(p.from, f, x)
    BY <1>1 DEF Safe, Clash, Grown
<1>6. \A j \in DOMAIN d.kept : Owed(p.now, d, j, x) =>
        x \in g.clash \/ Clash(p.from, f, x) \/ Owed(p.from, f, j, x)
    BY <1>2 DEF Safe, Grown
<1>7. /\ FlagUp(p.now, x) => x \in g.up \/ FlagUp(p.from, x)
      /\ FlagDown(p.now, x) => x \in g.down \/ FlagDown(p.from, x)
    BY <1>1 DEF Safe, FlagUp, FlagDown, Grown
<1> QED
    BY <1>3, <1>4, <1>5, <1>6, <1>7 DEF Safe

\* Every fault stops the run.
LEMMA Stops ==
  ASSUME NEW d, NEW x, d.fault = <<"used", x>> \/ d.fault = <<"destroyed", x>> \/ d.fault = <<"leaked", x>>
  PROVE  ~Running(d)
  BY DEF Running, NoFault

\* The parts of a state, for one statement on x.
LEMMA ExecElsewhere ==
  ASSUME NEW e \in Env, Running(e), NEW x \in Var, NEW op \in Ops
  PROVE  /\ Exec(e, C(op, x)) \in Env /\ C(op, x) \in Code
         /\ C(op, x).op = op /\ C(op, x).of = x
         /\ e.val \in [Var -> {"none", "live", "gone"}] /\ e.flag \in [Var -> BOOLEAN]
         /\ e = [val |-> e.val, flag |-> e.flag, fault |-> e.fault] /\ e.fault = NoFault
         /\ \A w : Fault(w, x).fault = <<w, x>>
<1>1. C(op, x) \in Code /\ C(op, x).op = op /\ C(op, x).of = x
    BY CIs
<1>2. Exec(e, C(op, x)) \in Env
    BY <1>1, ExecType
<1>3. /\ e.val \in [Var -> {"none", "live", "gone"}] /\ e.flag \in [Var -> BOOLEAN] /\ e.fault \in Faults
      /\ e = [val |-> e.val, flag |-> e.flag, fault |-> e.fault] /\ e.fault = NoFault
    BY DEF Env, Running
<1>4. \A w : Fault(w, x).fault = <<w, x>>
    BY DEF Fault, Start
<1> QED
    BY <1>1, <1>2, <1>3, <1>4

\* What the statements on x do to a running state.
LEMMA ExecInit ==
  ASSUME NEW e \in Env, Running(e), NEW x \in Var, NEW d, d = Exec(e, C("init", x))
  PROVE  /\ d \in Env
         /\ \A z \in Var \ {x} : SameAt(d, e, z)
         /\ Running(d) /\ d.val[x] = "live" /\ d.flag[x] = TRUE
<1>1. /\ d \in Env /\ C("init", x).op = "init" /\ C("init", x).of = x
      /\ e.val \in [Var -> {"none", "live", "gone"}] /\ e.flag \in [Var -> BOOLEAN]
      /\ e = [val |-> e.val, flag |-> e.flag, fault |-> e.fault] /\ e.fault = NoFault
  <2>1. "init" \in Ops
      BY DEF Ops
  <2> QED
      BY <2>1, ExecElsewhere
<1>2. d = [e EXCEPT !.val[x] = "live", !.flag[x] = TRUE]
    BY <1>1 DEF Exec, Running
<1>3. d.val = [e.val EXCEPT ![x] = "live"] /\ d.flag = [e.flag EXCEPT ![x] = TRUE] /\ d.fault = e.fault
    BY <1>1, <1>2
<1> QED
    BY <1>1, <1>3 DEF SameAt, Running

\* Setting a drop flag.
LEMMA ExecFlag ==
  ASSUME NEW e \in Env, Running(e), NEW x \in Var, NEW d, d = Exec(e, C("flag", x))
  PROVE  /\ d \in Env
         /\ \A z \in Var \ {x} : SameAt(d, e, z)
         /\ Running(d) /\ d.val[x] = e.val[x] /\ d.flag[x] = TRUE
<1>1. /\ d \in Env /\ C("flag", x).op = "flag" /\ C("flag", x).of = x
      /\ e.val \in [Var -> {"none", "live", "gone"}] /\ e.flag \in [Var -> BOOLEAN]
      /\ e = [val |-> e.val, flag |-> e.flag, fault |-> e.fault] /\ e.fault = NoFault
  <2>1. "flag" \in Ops
      BY DEF Ops
  <2> QED
      BY <2>1, ExecElsewhere
<1>2. d = [e EXCEPT !.flag[x] = TRUE]
    BY <1>1 DEF Exec, Running
<1>3. d.val = e.val /\ d.flag = [e.flag EXCEPT ![x] = TRUE] /\ d.fault = e.fault
    BY <1>1, <1>2
<1> QED
    BY <1>1, <1>3 DEF SameAt, Running

\* Moving x out clears its flag, and goes wrong if there is nothing to move.
LEMMA ExecMove ==
  ASSUME NEW e \in Env, Running(e), NEW x \in Var, NEW d, d = Exec(e, C("move", x))
  PROVE  /\ d \in Env
         /\ Running(d) => \A z \in Var \ {x} : SameAt(d, e, z)
         /\ IF Live(e, x) THEN Running(d) /\ d.val[x] = "gone" /\ d.flag[x] = FALSE
            ELSE d.fault = <<"used", x>>
<1>1. /\ d \in Env /\ C("move", x).op = "move" /\ C("move", x).of = x
      /\ e.val \in [Var -> {"none", "live", "gone"}] /\ e.flag \in [Var -> BOOLEAN]
      /\ e = [val |-> e.val, flag |-> e.flag, fault |-> e.fault] /\ e.fault = NoFault
      /\ \A w : Fault(w, x).fault = <<w, x>>
  <2>1. "move" \in Ops
      BY DEF Ops
  <2> QED
      BY <2>1, ExecElsewhere
<1>2. CASE Live(e, x)
  <2>1. d = [e EXCEPT !.val[x] = "gone", !.flag[x] = FALSE]
      BY <1>1, <1>2 DEF Exec, Running, Live
  <2>2. d.val = [e.val EXCEPT ![x] = "gone"] /\ d.flag = [e.flag EXCEPT ![x] = FALSE] /\ d.fault = e.fault
      BY <1>1, <2>1
  <2> QED
      BY <1>1, <1>2, <2>2 DEF SameAt, Running
<1>3. CASE ~Live(e, x)
  <2>1. d = Fault("used", x)
      BY <1>1, <1>3 DEF Exec, Running, Live
  <2>2. d.fault = <<"used", x>>
      BY <1>1, <2>1
  <2> QED
      BY <1>1, <1>3, <2>2, Stops
<1> QED
    BY <1>2, <1>3

\* Returning x copies it out and leaves its flag.
LEMMA ExecReturn ==
  ASSUME NEW e \in Env, Running(e), NEW x \in Var, NEW d, d = Exec(e, C("return", x))
  PROVE  /\ d \in Env
         /\ Running(d) => \A z \in Var \ {x} : SameAt(d, e, z)
         /\ IF Live(e, x) THEN Running(d) /\ d.val[x] = "gone" /\ d.flag[x] = e.flag[x]
            ELSE d.fault = <<"used", x>>
<1>1. /\ d \in Env /\ C("return", x).op = "return" /\ C("return", x).of = x
      /\ e.val \in [Var -> {"none", "live", "gone"}] /\ e.flag \in [Var -> BOOLEAN]
      /\ e = [val |-> e.val, flag |-> e.flag, fault |-> e.fault] /\ e.fault = NoFault
      /\ \A w : Fault(w, x).fault = <<w, x>>
  <2>1. "return" \in Ops
      BY DEF Ops
  <2> QED
      BY <2>1, ExecElsewhere
<1>2. CASE Live(e, x)
  <2>1. d = [e EXCEPT !.val[x] = "gone"]
      BY <1>1, <1>2 DEF Exec, Running, Live
  <2>2. d.val = [e.val EXCEPT ![x] = "gone"] /\ d.flag = e.flag /\ d.fault = e.fault
      BY <1>1, <2>1
  <2> QED
      BY <1>1, <1>2, <2>2 DEF SameAt, Running
<1>3. CASE ~Live(e, x)
  <2>1. d = Fault("used", x)
      BY <1>1, <1>3 DEF Exec, Running, Live
  <2>2. d.fault = <<"used", x>>
      BY <1>1, <2>1
  <2> QED
      BY <1>1, <1>3, <2>2, Stops
<1> QED
    BY <1>2, <1>3

\* Destroying x leaves its flag, and goes wrong if it holds nothing.
LEMMA ExecDestroy ==
  ASSUME NEW e \in Env, Running(e), NEW x \in Var, NEW d, d = Exec(e, C("destroy", x))
  PROVE  /\ d \in Env
         /\ Running(d) => \A z \in Var \ {x} : SameAt(d, e, z)
         /\ IF Live(e, x) THEN Running(d) /\ d.val[x] = "gone" /\ d.flag[x] = e.flag[x]
            ELSE d.fault = <<"destroyed", x>>
<1>1. /\ d \in Env /\ C("destroy", x).op = "destroy" /\ C("destroy", x).of = x
      /\ e.val \in [Var -> {"none", "live", "gone"}] /\ e.flag \in [Var -> BOOLEAN]
      /\ e = [val |-> e.val, flag |-> e.flag, fault |-> e.fault] /\ e.fault = NoFault
      /\ \A w : Fault(w, x).fault = <<w, x>>
  <2>1. "destroy" \in Ops
      BY DEF Ops
  <2> QED
      BY <2>1, ExecElsewhere
<1>2. CASE Live(e, x)
  <2>1. d = [e EXCEPT !.val[x] = "gone"]
      BY <1>1, <1>2 DEF Exec, Running, Live
  <2>2. d.val = [e.val EXCEPT ![x] = "gone"] /\ d.flag = e.flag /\ d.fault = e.fault
      BY <1>1, <2>1
  <2> QED
      BY <1>1, <1>2, <2>2 DEF SameAt, Running
<1>3. CASE ~Live(e, x)
  <2>1. d = Fault("destroyed", x)
      BY <1>1, <1>3 DEF Exec, Running, Live
  <2>2. d.fault = <<"destroyed", x>>
      BY <1>1, <2>1
  <2> QED
      BY <1>1, <1>3, <2>2, Stops
<1> QED
    BY <1>2, <1>3

\* Storing to x leaves its flag, and loses a value that is still there.
LEMMA ExecStore ==
  ASSUME NEW e \in Env, Running(e), NEW x \in Var, NEW d, d = Exec(e, C("store", x))
  PROVE  /\ d \in Env
         /\ Running(d) => \A z \in Var \ {x} : SameAt(d, e, z)
         /\ IF Live(e, x) THEN d.fault = <<"leaked", x>>
            ELSE Running(d) /\ d.val[x] = "live" /\ d.flag[x] = e.flag[x]
<1>1. /\ d \in Env /\ C("store", x).op = "store" /\ C("store", x).of = x
      /\ e.val \in [Var -> {"none", "live", "gone"}] /\ e.flag \in [Var -> BOOLEAN]
      /\ e = [val |-> e.val, flag |-> e.flag, fault |-> e.fault] /\ e.fault = NoFault
      /\ \A w : Fault(w, x).fault = <<w, x>>
  <2>1. "store" \in Ops
      BY DEF Ops
  <2> QED
      BY <2>1, ExecElsewhere
<1>2. CASE ~Live(e, x)
  <2>1. d = [e EXCEPT !.val[x] = "live"]
      BY <1>1, <1>2 DEF Exec, Running, Live
  <2>2. d.val = [e.val EXCEPT ![x] = "live"] /\ d.flag = e.flag /\ d.fault = e.fault
      BY <1>1, <2>1
  <2> QED
      BY <1>1, <1>2, <2>2 DEF SameAt, Running
<1>3. CASE Live(e, x)
  <2>1. d = Fault("leaked", x)
      BY <1>1, <1>3 DEF Exec, Running, Live
  <2>2. d.fault = <<"leaked", x>>
      BY <1>1, <2>1
  <2> QED
      BY <1>1, <1>3, <2>2, Stops
<1> QED
    BY <1>2, <1>3

\* A variable that was just moved: not live, its flag down, and on the list.
LEMMA SafeMoved ==
  ASSUME NEW p, NEW q, NEW f, NEW c, NEW d, NEW h, NEW g, NEW x,
         Safe(q, f, c, h, x), Grown(h, g), p.from = q.from, Live(q.now, x),
         p.now.val[x] = "gone", p.now.flag[x] = FALSE, x \in d.said, d.kept = c.kept
  PROVE  Safe(p, f, d, g, x)
<1>1. ~Live(p.now, x)
    BY DEF Live
<1>2. \A j \in DOMAIN d.kept : Owed(p.now, d, j, x) => Owed(q.now, c, j, x)
    BY DEF Owed
<1>3. \A j \in DOMAIN d.kept : Owed(p.now, d, j, x) =>
        x \in g.clash \/ Clash(p.from, f, x) \/ Owed(p.from, f, j, x)
    BY <1>2 DEF Safe, Grown
<1> QED
    BY <1>1, <1>3 DEF Safe, Gone, Clash, FlagUp, FlagDown

\* A variable that was just given a value, and comes off the list.
LEMMA SafeStored ==
  ASSUME NEW p, NEW q, NEW f, NEW c, NEW d, NEW h, NEW g, NEW x,
         Safe(q, f, c, h, x), Grown(h, g), p.from = q.from, Live(q.now, x) \/ x \in c.list,
         Live(p.now, x), x \in d.list => x \in g.clash, d.kept = c.kept,
         FlagDown(p.now, x) => x \in g.down \/ FlagDown(p.from, x)
  PROVE  Safe(p, f, d, g, x)
<1>1. p.now.val[x] = "live"
    BY DEF Live
<1>2. \A j \in DOMAIN d.kept : Owed(p.now, d, j, x) => Owed(q.now, c, j, x)
    BY DEF Owed
<1>3. \A j \in DOMAIN d.kept : Owed(p.now, d, j, x) =>
        x \in g.clash \/ Clash(p.from, f, x) \/ Owed(p.from, f, j, x)
    BY <1>2 DEF Safe, Grown
<1> QED
    BY <1>1, <1>3 DEF Safe, Gone, Clash, FlagUp

\* A run that stopped over x is to be blamed on x alone.
LEMMA BlamedOnly ==
  ASSUME NEW p, NEW f, NEW h, NEW w \in {"used", "destroyed", "leaked"}, NEW x,
         p.now.fault = <<w, x>>,
         w = "used" => x \in h.gone \/ Gone(p.from, f, x),
         w = "destroyed" => x \in h.gone \/ Gone(p.from, f, x) \/ FlagUp(p.from, x),
         w = "leaked" => x \in h.leak \/ FlagDown(p.from, x)
  PROVE  \A y \in Var : Blamed(p, f, h, y)
  BY DEF Blamed

\* A move of a variable that is not listed, behind which it is listed.
LEMMA GoodMove ==
  ASSUME NEW P, NEW f, NEW c, NEW d, NEW h, Good(P, f, c, h), NEW x \in Var,
         x \in c.scope, x \notin c.said, c.scope \subseteq Var,
         d.scope = c.scope, d.kept = c.kept, d.list = c.list \cup {x}, d.said = c.said \cup {x}
  PROVE  Good(After(<<C("move", x)>>, P), f, d, h)
<1>1. C("move", x) \in Code /\ <<C("move", x)>> \in Seq(Code)
    BY CIs DEF Ops
<1>2. Grown(h, h)
    BY DEF Grown
<1>3. ASSUME NEW q \in Path, NEW p \in Path, p.from = q.from, p.now = Run(q.now, <<C("move", x)>>),
             Running(q.now), Clean(q.from, f), \A z \in c.scope : Safe(q, f, c, h, z)
      PROVE  IF Running(p.now) THEN \A z \in d.scope : Safe(p, f, d, h, z)
             ELSE \A z \in Var : Blamed(p, f, h, z)
  <2>1. q.now \in Env /\ p.now = Exec(q.now, C("move", x))
      BY <1>1, <1>3, RunOne DEF Path
  <2>2. /\ p.now \in Env
        /\ Running(p.now) => \A z \in Var \ {x} : SameAt(p.now, q.now, z)
        /\ IF Live(q.now, x) THEN Running(p.now) /\ p.now.val[x] = "gone" /\ p.now.flag[x] = FALSE
           ELSE p.now.fault = <<"used", x>>
      BY <1>3, <2>1, ExecMove
  <2>3. CASE Live(q.now, x)
    <3>1. Running(p.now)
        BY <2>2, <2>3
    <3>2. Safe(p, f, d, h, x)
        BY <1>2, <1>3, <2>2, <2>3, SafeMoved
    <3>3. ASSUME NEW z \in d.scope, z # x PROVE Safe(p, f, d, h, z)
      <4>1. SameAt(p.now, q.now, z)
          BY <2>2, <3>1, <3>3
      <4> QED
          BY <1>2, <1>3, <3>3, <4>1, SafeSame
    <3> QED
        BY <3>1, <3>2, <3>3
  <2>4. CASE ~Live(q.now, x)
    <3>1. p.now.fault = <<"used", x>> /\ ~Running(p.now)
        BY <2>2, <2>4, Stops
    <3>2. q.now.val[x] = "gone"
      <4>1. q.now.val[x] # "none"
          BY <1>3 DEF Safe
      <4>2. q.now.val[x] \in {"none", "live", "gone"}
          BY <2>1 DEF Env
      <4> QED
          BY <4>1, <4>2, <2>4 DEF Live
    <3>3. x \in h.gone \/ Gone(p.from, f, x)
        BY <1>3, <3>2 DEF Safe, Gone
    <3> QED
        BY <3>1, <3>3, BlamedOnly
  <2> QED
      BY <2>3, <2>4
<1>4. Takes(<<C("move", x)>>, f, c, d, h, h)
    BY <1>3 DEF Takes
<1> QED
    BY <1>1, <1>2, <1>4, GoodAfter

\* A declaration: a fresh variable holds a value and its flag is up.
LEMMA GoodInit ==
  ASSUME NEW P, NEW f, NEW c, NEW d, NEW h, Good(P, f, c, h), NEW x \in Var,
         x \notin c.scope, c.scope \subseteq Var,
         x \in c.list => x \in h.clash,
         \A j \in DOMAIN c.kept : x \in c.kept[j] => x \in h.clash,
         d.scope = c.scope \cup {x}, d.kept = c.kept, d.list = c.list, d.said = c.said
  PROVE  Good(After(<<C("init", x)>>, P), f, d, h)
<1>1. C("init", x) \in Code /\ <<C("init", x)>> \in Seq(Code)
    BY CIs DEF Ops
<1>2. Grown(h, h)
    BY DEF Grown
<1>3. ASSUME NEW q \in Path, NEW p \in Path, p.from = q.from, p.now = Run(q.now, <<C("init", x)>>),
             Running(q.now), Clean(q.from, f), \A z \in c.scope : Safe(q, f, c, h, z)
      PROVE  IF Running(p.now) THEN \A z \in d.scope : Safe(p, f, d, h, z)
             ELSE \A z \in Var : Blamed(p, f, h, z)
  <2>1. q.now \in Env /\ p.now = Exec(q.now, C("init", x))
      BY <1>1, <1>3, RunOne DEF Path
  <2>2. /\ p.now \in Env
        /\ Running(p.now) => \A z \in Var \ {x} : SameAt(p.now, q.now, z)
        /\ Running(p.now) /\ p.now.val[x] = "live" /\ p.now.flag[x] = TRUE
      BY <1>3, <2>1, ExecInit
  <2>3. Safe(p, f, d, h, x)
    <3>1. \A j \in DOMAIN d.kept : Owed(p.now, d, j, x) => x \in h.clash
        BY DEF Owed
    <3> QED
        BY <2>2, <3>1 DEF Safe, Gone, Clash, FlagUp, FlagDown, Live
  <2>4. ASSUME NEW z \in c.scope PROVE Safe(p, f, d, h, z)
    <3>1. SameAt(p.now, q.now, z)
        BY <2>2, <2>4
    <3> QED
        BY <1>2, <1>3, <2>4, <3>1, SafeSame
  <2> QED
      BY <2>2, <2>3, <2>4
<1>4. Takes(<<C("init", x)>>, f, c, d, h, h)
    BY <1>3 DEF Takes
<1> QED
    BY <1>1, <1>2, <1>4, GoodAfter

\* Code in two parts.
LEMMA AfterAppend ==
  ASSUME NEW a \in Seq(Code), NEW b \in Seq(Code), NEW P \in SUBSET Path
  PROVE  After(a \o b, P) = After(b, After(a, P))
<1>1. \A q \in P : q.now \in Env /\ Run(q.now, a \o b) = Run(Run(q.now, a), b)
    BY RunAppend DEF Path
<1>2. \A q \in P : [q EXCEPT !.now = Run(q.now, a \o b)]
                     = [[q EXCEPT !.now = Run(q.now, a)] EXCEPT !.now = Run(Run(q.now, a), b)]
  <2> TAKE q \in P
  <2>1. q = [from |-> q.from, now |-> q.now]
      BY DEF Path
  <2> QED
      BY <1>1, <2>1
<1>3. \A q \in P : [q EXCEPT !.now = Run(q.now, a)].now = Run(q.now, a)
  <2> TAKE q \in P
  <2>1. q = [from |-> q.from, now |-> q.now]
      BY DEF Path
  <2> QED
      BY <2>1
<1> DEFINE A(q) == [q EXCEPT !.now = Run(q.now, a)]
           B(q) == [q EXCEPT !.now = Run(q.now, b)]
           D(q) == [q EXCEPT !.now = Run(q.now, a \o b)]
<1>4. \A q \in P : D(q) = B(A(q))
    BY <1>2, <1>3
<1>5. After(a \o b, P) = {D(q) : q \in P} /\ After(a, P) = {A(q) : q \in P}
    BY DEF After
<1>6. After(b, After(a, P)) = {B(q) : q \in After(a, P)}
    BY DEF After
<1> HIDE DEF A, B, D
<1> QED
    BY <1>4, <1>5, <1>6

\* Code is put together of code.
LEMMA CodeJoin ==
  ASSUME NEW u \in Seq(Code), NEW v \in Seq(Code)
  PROVE  u \o v \in Seq(Code)
  OBVIOUS

\* Code of two statements.
LEMMA PairSeq ==
  ASSUME NEW u \in Code, NEW v \in Code
  PROVE  <<u>> \o <<v>> = <<u, v>>
<1>1. <<u>> \in Seq(Code) /\ <<v>> \in Seq(Code) /\ <<u, v>> \in Seq(Code) /\ <<u>> \o <<v>> \in Seq(Code)
    OBVIOUS
<1>2. Len(<<u>> \o <<v>>) = 2 /\ Len(<<u, v>>) = 2
    OBVIOUS
<1>3. (<<u>> \o <<v>>)[1] = u /\ (<<u>> \o <<v>>)[2] = v
    OBVIOUS
<1>4. \A i \in 1 .. 2 : (<<u>> \o <<v>>)[i] = <<u, v>>[i]
    BY <1>3
<1> QED
    BY <1>1, <1>2, <1>4, SeqEqual

\* The right side of an assignment.
RightCode(y) == IF y = NoVar THEN <<>> ELSE <<C("move", y)>>

\* The right side of an assignment: a moved variable, or a new value.
LEMMA RightEffect ==
  ASSUME NEW e \in Env, Running(e), NEW y \in Var \cup {NoVar}, NEW m, m = Run(e, RightCode(y))
  PROVE  /\ RightCode(y) \in Seq(Code) /\ m \in Env
         /\ y = NoVar => m = e
         /\ y \in Var => IF Live(e, y) THEN /\ Running(m) /\ m.val[y] = "gone" /\ m.flag[y] = FALSE
                                            /\ \A z \in Var \ {y} : SameAt(m, e, z)
                         ELSE m.fault = <<"used", y>> /\ ~Running(m)
<1>1. CASE y = NoVar
  <2>1. RightCode(y) = <<>> /\ <<>> \in Seq(Code)
      BY <1>1 DEF RightCode
  <2> QED
      BY <1>1, <2>1, RunNone, VarAssumption
<1>2. CASE y \in Var
  <2>1. y # NoVar
      BY <1>2, VarAssumption
  <2>2. C("move", y) \in Code
      BY <1>2, CIs DEF Ops
  <2>3. RightCode(y) = <<C("move", y)>> /\ <<C("move", y)>> \in Seq(Code)
      BY <2>1, <2>2 DEF RightCode
  <2>4. m = Exec(e, C("move", y))
      BY <2>2, <2>3, RunOne
  <2>5. /\ m \in Env
        /\ Running(m) => \A z \in Var \ {y} : SameAt(m, e, z)
        /\ IF Live(e, y) THEN Running(m) /\ m.val[y] = "gone" /\ m.flag[y] = FALSE
           ELSE m.fault = <<"used", y>>
      BY <1>2, <2>4, ExecMove
  <2> QED
      BY <1>2, <2>1, <2>3, <2>5, Stops
<1> QED
    BY <1>1, <1>2

\* The assigned variable was on the list: flag, right side, store.
LEMMA StoreEffect ==
  ASSUME NEW e \in Env, Running(e), NEW x \in Var, NEW y \in Var \cup {NoVar},
         NEW d, d = Run(e, AssignCode(x, y, TRUE))
  PROVE  /\ AssignCode(x, y, TRUE) \in Seq(Code) /\ d \in Env
         /\ IF Running(d)
            THEN /\ Live(d, x) /\ (x # y => d.flag[x] = TRUE) /\ (x = y => Live(e, x))
                 /\ \A z \in Var \ {x, y} : SameAt(d, e, z)
                 /\ y \in Var \ {x} => Live(e, y) /\ d.val[y] = "gone" /\ d.flag[y] = FALSE
            ELSE \/ y \in Var /\ d.fault = <<"used", y>> /\ ~Live(e, y)
                 \/ d.fault = <<"leaked", x>> /\ y # x /\ Live(e, x)
<1> DEFINE a == <<C("flag", x)>>
           b == <<C("store", x)>>
<1>1. /\ C("flag", x) \in Code /\ C("store", x) \in Code
      /\ a \in Seq(Code) /\ b \in Seq(Code)
    BY CIs DEF Ops
<1>2. AssignCode(x, y, TRUE) = a \o RightCode(y) \o b
    BY DEF AssignCode, RightCode
<1> DEFINE e1 == Run(e, a)
           e2 == Run(e1, RightCode(y))
<1>3. /\ e1 \in Env /\ \A z \in Var \ {x} : SameAt(e1, e, z)
      /\ Running(e1) /\ e1.val[x] = e.val[x] /\ e1.flag[x] = TRUE
  <2>1. e1 = Exec(e, C("flag", x))
      BY <1>1, RunOne
  <2> QED
      BY <2>1, ExecFlag
<1> HIDE DEF e1
<1>4. /\ RightCode(y) \in Seq(Code) /\ e2 \in Env
      /\ y = NoVar => e2 = e1
      /\ y \in Var => IF Live(e1, y) THEN /\ Running(e2) /\ e2.val[y] = "gone" /\ e2.flag[y] = FALSE
                                          /\ \A z \in Var \ {y} : SameAt(e2, e1, z)
                      ELSE e2.fault = <<"used", y>> /\ ~Running(e2)
    BY <1>3, RightEffect
<1>5. \A z \in Var : Live(e1, z) <=> Live(e, z)
    BY <1>3 DEF Live, SameAt
<1>6. d = Run(e2, b) /\ d \in Env /\ AssignCode(x, y, TRUE) \in Seq(Code)
  <2>1. a \o RightCode(y) \in Seq(Code) /\ (a \o RightCode(y)) \o b \in Seq(Code)
      BY <1>1, <1>4
  <2>2. Run(e, a \o RightCode(y)) = e2
      BY <1>1, <1>4, RunAppend DEF e1
  <2>3. d = Run(Run(e, a \o RightCode(y)), b)
    <3> DEFINE ar == a \o RightCode(y)
    <3>1. ar \in Seq(Code) /\ b \in Seq(Code) /\ d = Run(e, ar \o b)
        BY <1>1, <1>2, <2>1
    <3> HIDE DEF a, b, ar
    <3>2. d = Run(Run(e, ar), b)
        BY <3>1, RunAppend
    <3> QED
        BY <3>2 DEF ar
  <2> HIDE DEF a, b, e2
  <2> QED
      BY <1>1, <1>2, <1>4, <2>1, <2>2, <2>3, RunType
<1>7. CASE ~Running(e2)
  <2>1. d = e2
      BY <1>1, <1>4, <1>6, <1>7, RunStopped
  <2>2. y \in Var /\ e2.fault = <<"used", y>> /\ ~Live(e1, y)
      BY <1>3, <1>4, <1>7
  <2> QED
      BY <1>5, <1>6, <1>7, <2>1, <2>2
<1>8. CASE Running(e2)
  <2>1. d = Exec(e2, C("store", x))
      BY <1>1, <1>4, <1>6, RunOne
  <2>2. /\ Running(d) => \A z \in Var \ {x} : SameAt(d, e2, z)
        /\ IF Live(e2, x) THEN d.fault = <<"leaked", x>>
           ELSE Running(d) /\ d.val[x] = "live" /\ d.flag[x] = e2.flag[x]
      BY <1>4, <1>8, <2>1, ExecStore
  <2>3. CASE y = NoVar
    <3>1. e2 = e1 /\ x # y /\ y \notin Var
        BY <1>4, <2>3, VarAssumption
    <3>2. Live(e2, x) <=> Live(e, x)
        BY <1>5, <3>1
    <3>3. CASE Running(d)
      <4>1. Live(d, x) /\ d.flag[x] = TRUE
          BY <1>3, <2>2, <3>1, <3>3, Stops DEF Live
      <4>2. \A z \in Var \ {x, y} : SameAt(d, e, z)
        <5> TAKE z \in Var \ {x, y}
        <5>1. z \in Var \ {x}
            OBVIOUS
        <5>2. SameAt(e1, e, z) /\ SameAt(d, e2, z)
            BY <1>3, <2>2, <3>3, <5>1
        <5> HIDE DEF e2
        <5> QED
            BY <3>1, <5>2 DEF SameAt
      <4> QED
          BY <1>6, <3>1, <3>3, <4>1, <4>2
    <3>4. CASE ~Running(d)
        BY <1>6, <2>2, <3>1, <3>2, <3>4
    <3> QED
        BY <3>3, <3>4
  <2>4. CASE y \in Var /\ y # x
    <3>1. /\ Live(e1, y) /\ e2.val[y] = "gone" /\ e2.flag[y] = FALSE
          /\ \A z \in Var \ {y} : SameAt(e2, e1, z)
        BY <1>4, <1>8, <2>4
    <3>2. Live(e2, x) <=> Live(e, x)
        BY <1>5, <2>4, <3>1 DEF SameAt, Live
    <3>3. CASE Running(d)
      <4>1. Live(d, x) /\ d.flag[x] = TRUE
          BY <1>3, <2>2, <2>4, <3>1, <3>3, Stops DEF SameAt, Live
      <4>2. \A z \in Var \ {x, y} : SameAt(d, e, z)
          BY <1>3, <2>2, <3>1, <3>3 DEF SameAt
      <4>3. d.val[y] = "gone" /\ d.flag[y] = FALSE
          BY <2>2, <2>4, <3>1, <3>3 DEF SameAt
      <4> QED
          BY <1>5, <1>6, <2>4, <3>1, <3>3, <4>1, <4>2, <4>3
    <3>4. CASE ~Running(d)
        BY <1>6, <2>2, <2>4, <3>2, <3>4
    <3> QED
        BY <3>3, <3>4
  <2>5. CASE y = x
    <3>1. Live(e1, x) /\ e2.val[x] = "gone" /\ \A z \in Var \ {x} : SameAt(e2, e1, z)
        BY <1>4, <1>8, <2>5
    <3>2. ~Live(e2, x)
        BY <3>1 DEF Live
    <3>3. Running(d) /\ d.val[x] = "live" /\ \A z \in Var \ {x} : SameAt(d, e2, z)
        BY <2>2, <3>2
    <3>4. Live(d, x) /\ Live(e, x)
        BY <1>5, <3>1, <3>3 DEF Live
    <3>5. \A z \in Var \ {x, y} : SameAt(d, e, z)
        BY <1>3, <3>1, <3>3 DEF SameAt
    <3> QED
        BY <1>6, <2>5, <3>3, <3>4, <3>5
  <2> QED
      BY <2>3, <2>4, <2>5
<1> QED
    BY <1>7, <1>8

\* It was not: right side, destructor, store.
LEMMA ReplaceEffect ==
  ASSUME NEW e \in Env, Running(e), NEW x \in Var, NEW y \in Var \cup {NoVar}, y # x,
         NEW d, d = Run(e, AssignCode(x, y, FALSE))
  PROVE  /\ AssignCode(x, y, FALSE) \in Seq(Code) /\ d \in Env
         /\ IF Running(d)
            THEN /\ Live(d, x) /\ Live(e, x) /\ d.flag[x] = e.flag[x]
                 /\ \A z \in Var \ {x, y} : SameAt(d, e, z)
                 /\ y \in Var => Live(e, y) /\ d.val[y] = "gone" /\ d.flag[y] = FALSE
            ELSE \/ y \in Var /\ d.fault = <<"used", y>> /\ ~Live(e, y)
                 \/ d.fault = <<"destroyed", x>> /\ ~Live(e, x)
<1> DEFINE a == <<C("destroy", x)>>
           b == <<C("store", x)>>
<1>1. /\ C("destroy", x) \in Code /\ C("store", x) \in Code
      /\ a \in Seq(Code) /\ b \in Seq(Code)
    BY CIs DEF Ops
<1> DEFINE e1 == Run(e, RightCode(y))
           e2 == Run(e1, a)
<1>2. /\ RightCode(y) \in Seq(Code) /\ e1 \in Env
      /\ y = NoVar => e1 = e
      /\ y \in Var => IF Live(e, y) THEN /\ Running(e1) /\ e1.val[y] = "gone" /\ e1.flag[y] = FALSE
                                         /\ \A z \in Var \ {y} : SameAt(e1, e, z)
                      ELSE e1.fault = <<"used", y>> /\ ~Running(e1)
    BY RightEffect
<1>3. AssignCode(x, y, FALSE) = RightCode(y) \o (a \o b)
  <2>1. a \o b = <<C("destroy", x), C("store", x)>>
      BY <1>1, PairSeq
  <2>2. AssignCode(x, y, FALSE) = RightCode(y) \o <<C("destroy", x), C("store", x)>>
      BY DEF AssignCode, RightCode
  <2> QED
      BY <2>1, <2>2
<1>4. d = Run(e2, b) /\ d \in Env /\ e2 \in Env /\ AssignCode(x, y, FALSE) \in Seq(Code)
  <2> HIDE DEF a, b
  <2>1. a \o b \in Seq(Code)
      BY <1>1
  <2>2. RightCode(y) \o (a \o b) \in Seq(Code)
      BY <1>2, <2>1, CodeJoin
  <2>5. d = Run(e, RightCode(y) \o (a \o b))
      BY <1>3
  <2>6. Run(e, RightCode(y) \o (a \o b)) = Run(Run(e, RightCode(y)), a \o b)
      BY <1>2, <2>1, RunAppend
  <2>3. d = Run(e1, a \o b)
      BY <2>5, <2>6
  <2> HIDE DEF e1
  <2>4. Run(e1, a \o b) = Run(e2, b) /\ e2 \in Env
      BY <1>1, <1>2, RunAppend, RunType
  <2> HIDE DEF e2
  <2> QED
      BY <1>1, <1>2, <1>3, <2>2, <2>3, <2>4, RunType
<1> HIDE DEF e1
<1>5. CASE ~Running(e1)
  <2>1. e2 = e1 /\ d = e2
    <3>1. e2 = e1
        BY <1>1, <1>2, <1>5, RunStopped
    <3> HIDE DEF e2
    <3> QED
        BY <1>1, <1>4, <1>5, <3>1, RunStopped
  <2> QED
      BY <1>2, <1>4, <1>5, <2>1
<1>6. CASE Running(e1)
  <2>1. e2 = Exec(e1, C("destroy", x))
      BY <1>1, <1>2, RunOne
  <2>2. /\ Running(e2) => \A z \in Var \ {x} : SameAt(e2, e1, z)
        /\ IF Live(e1, x) THEN Running(e2) /\ e2.val[x] = "gone" /\ e2.flag[x] = e1.flag[x]
           ELSE e2.fault = <<"destroyed", x>>
    <3> HIDE DEF e2
    <3> QED
        BY <1>2, <1>6, <2>1, ExecDestroy
  <2> HIDE DEF e2
  <2>3. /\ y \in Var => Live(e, y) /\ e1.val[y] = "gone" /\ e1.flag[y] = FALSE
        /\ \A z \in Var \ {y} : SameAt(e1, e, z)
      BY <1>2, <1>6 DEF SameAt
  <2>4. SameAt(e1, e, x) /\ (Live(e1, x) <=> Live(e, x))
      BY <2>3 DEF SameAt, Live
  <2>5. CASE ~Running(e2)
    <3>1. d = e2
        BY <1>1, <1>4, <2>5, RunStopped
    <3>2. e2.fault = <<"destroyed", x>> /\ ~Live(e, x)
        BY <2>2, <2>4, <2>5
    <3> QED
        BY <1>4, <2>5, <3>1, <3>2
  <2>6. CASE Running(e2)
    <3>1. d = Exec(e2, C("store", x))
        BY <1>1, <1>4, RunOne
    <3>2. Live(e, x) /\ e2.val[x] = "gone" /\ e2.flag[x] = e.flag[x] /\ ~Live(e2, x)
        BY <2>2, <2>4, <2>6, Stops DEF SameAt, Live
    <3>3. /\ Running(d) /\ d.val[x] = "live" /\ d.flag[x] = e2.flag[x]
          /\ \A z \in Var \ {x} : SameAt(d, e2, z)
        BY <1>4, <2>6, <3>1, <3>2, ExecStore
    <3>4. \A z \in Var \ {x, y} : SameAt(d, e, z)
        BY <2>2, <2>3, <2>6, <3>3 DEF SameAt
    <3>5. y \in Var => Live(e, y) /\ d.val[y] = "gone" /\ d.flag[y] = FALSE
        BY <2>2, <2>3, <2>6, <3>3 DEF SameAt
    <3> QED
        BY <1>4, <3>2, <3>3, <3>4, <3>5 DEF Live
  <2> QED
      BY <2>5, <2>6
<1> QED
    BY <1>5, <1>6

\* What the checker makes of an assignment x = y.
Reassigned(x, y, wasMoved, f, c, d, h, g) ==
  /\ x \in c.scope /\ c.scope \subseteq Var /\ (y \in Var => y \in c.scope /\ y \notin c.said)
  /\ (wasMoved <=> x \in c.list \/ x = y) /\ c.said = c.list
  /\ d.scope = c.scope /\ d.kept = c.kept /\ d.said = d.list
  /\ \A z \in c.scope \ {x} : z \in d.list <=> z \in c.list \/ z = y
  /\ x \in d.list => x \in g.clash
  /\ x \in c.list /\ y # x /\ (x \in h.clash \/ x \in f.list) => x \in g.leak
  /\ x = y => x \in g.down

\* An assignment, which takes x off the list.
LEMMA GoodAssign ==
  ASSUME NEW P, NEW f, NEW c, NEW d, NEW h, NEW g, Good(P, f, c, h), Grown(h, g),
         NEW x \in Var, NEW y \in Var \cup {NoVar}, NEW wasMoved \in BOOLEAN,
         Reassigned(x, y, wasMoved, f, c, d, h, g)
  PROVE  Good(After(AssignCode(x, y, wasMoved), P), f, d, g)
<1> USE DEF Reassigned
<1>1. AssignCode(x, y, wasMoved) \in Seq(Code)
  <2>1. CASE wasMoved = TRUE
    <3>1. C("flag", x) \in Code /\ C("store", x) \in Code
        BY CIs DEF Ops
    <3>2. y # NoVar => C("move", y) \in Code
        BY CIs DEF Ops
    <3> QED
        BY <2>1, <3>1, <3>2 DEF AssignCode
  <2>2. CASE wasMoved = FALSE
    <3>1. C("destroy", x) \in Code /\ C("store", x) \in Code
        BY CIs DEF Ops
    <3>2. y # NoVar => C("move", y) \in Code
        BY CIs DEF Ops
    <3> QED
        BY <2>2, <3>1, <3>2 DEF AssignCode
  <2> QED
      BY <2>1, <2>2
<1>2. ASSUME NEW q \in Path, NEW p \in Path, p.from = q.from,
             p.now = Run(q.now, AssignCode(x, y, wasMoved)),
             Running(q.now), Clean(q.from, f), \A z \in c.scope : Safe(q, f, c, h, z)
      PROVE  IF Running(p.now) THEN \A z \in d.scope : Safe(p, f, d, g, z)
             ELSE \A z \in Var : Blamed(p, f, g, z)
  <2>1. q.now \in Env /\ p.now \in Env
      BY DEF Path
  <2>2. IF Running(p.now)
        THEN /\ Live(p.now, x) /\ (Live(q.now, x) \/ x \in c.list)
             /\ FlagDown(p.now, x) => x = y \/ FlagDown(q.now, x)
             /\ \A z \in Var \ {x, y} : SameAt(p.now, q.now, z)
             /\ y \in Var \ {x} => Live(q.now, y) /\ p.now.val[y] = "gone" /\ p.now.flag[y] = FALSE
        ELSE \/ y \in Var /\ p.now.fault = <<"used", y>> /\ ~Live(q.now, y)
             \/ p.now.fault = <<"leaked", x>> /\ x \in c.list /\ y # x /\ Live(q.now, x)
             \/ p.now.fault = <<"destroyed", x>> /\ x \notin c.list /\ ~Live(q.now, x)
    <3>1. CASE wasMoved = TRUE
      <4>1. p.now = Run(q.now, AssignCode(x, y, TRUE))
          BY <1>2, <3>1
      <4>2. IF Running(p.now)
            THEN /\ Live(p.now, x) /\ (x # y => p.now.flag[x] = TRUE) /\ (x = y => Live(q.now, x))
                 /\ \A z \in Var \ {x, y} : SameAt(p.now, q.now, z)
                 /\ y \in Var \ {x} => Live(q.now, y) /\ p.now.val[y] = "gone" /\ p.now.flag[y] = FALSE
            ELSE \/ y \in Var /\ p.now.fault = <<"used", y>> /\ ~Live(q.now, y)
                 \/ p.now.fault = <<"leaked", x>> /\ y # x /\ Live(q.now, x)
          BY <1>2, <2>1, <4>1, StoreEffect
      <4> QED
          BY <3>1, <4>2 DEF FlagDown
    <3>2. CASE wasMoved = FALSE
      <4>1. p.now = Run(q.now, AssignCode(x, y, FALSE)) /\ y # x
          BY <1>2, <3>2
      <4>2. IF Running(p.now)
            THEN /\ Live(p.now, x) /\ Live(q.now, x) /\ p.now.flag[x] = q.now.flag[x]
                 /\ \A z \in Var \ {x, y} : SameAt(p.now, q.now, z)
                 /\ y \in Var => Live(q.now, y) /\ p.now.val[y] = "gone" /\ p.now.flag[y] = FALSE
            ELSE \/ y \in Var /\ p.now.fault = <<"used", y>> /\ ~Live(q.now, y)
                 \/ p.now.fault = <<"destroyed", x>> /\ ~Live(q.now, x)
          BY <1>2, <2>1, <4>1, ReplaceEffect
      <4> QED
          BY <3>2, <4>2 DEF FlagDown
    <3> QED
        BY <3>1, <3>2
  <2>3. \A z \in c.scope : ~Live(q.now, z) => q.now.val[z] = "gone"
    <3> TAKE z \in c.scope
    <3>1. q.now.val[z] # "none"
        BY <1>2 DEF Safe
    <3>2. q.now.val[z] \in {"none", "live", "gone"}
        BY <2>1 DEF Env
    <3> QED
        BY <3>1, <3>2 DEF Live
  <2>4. CASE Running(p.now)
    <3>1. Safe(p, f, d, g, x)
      <4>1. Safe(q, f, c, h, x)
          BY <1>2
      <4>2. FlagDown(p.now, x) => x \in g.down \/ FlagDown(p.from, x)
          BY <1>2, <2>2, <2>4, <4>1 DEF Safe, Grown
      <4> QED
          BY <1>2, <2>2, <2>4, <4>1, <4>2, SafeStored
    <3>2. ASSUME NEW z \in d.scope, z # x, z = y PROVE Safe(p, f, d, g, z)
      <4>1. Live(q.now, z) /\ p.now.val[z] = "gone" /\ p.now.flag[z] = FALSE /\ z \in d.said
          BY <2>2, <2>4, <3>2
      <4> QED
          BY <1>2, <3>2, <4>1, SafeMoved
    <3>3. ASSUME NEW z \in d.scope, z # x, z # y PROVE Safe(p, f, d, g, z)
      <4>1. SameAt(p.now, q.now, z) /\ (z \in d.list <=> z \in c.list)
          BY <2>2, <2>4, <3>3
      <4> QED
          BY <1>2, <3>3, <4>1, SafeSame
    <3> QED
        BY <2>4, <3>1, <3>2, <3>3
  <2>5. CASE ~Running(p.now)
    <3>1. CASE y \in Var /\ p.now.fault = <<"used", y>> /\ ~Live(q.now, y)
      <4>1. q.now.val[y] = "gone" /\ y \in c.scope /\ y \notin c.said
          BY <2>3, <3>1
      <4>2. y \in g.gone \/ Gone(p.from, f, y)
          BY <1>2, <4>1 DEF Safe, Gone, Grown
      <4> QED
          BY <2>5, <3>1, <4>2, BlamedOnly
    <3>2. CASE p.now.fault = <<"leaked", x>> /\ x \in c.list /\ y # x /\ Live(q.now, x)
      <4>1. x \in h.clash \/ x \in f.list
          BY <1>2, <3>2 DEF Safe, Clash
      <4>2. x \in g.leak
          BY <3>2, <4>1
      <4> QED
          BY <2>5, <3>2, <4>2, BlamedOnly
    <3>3. CASE p.now.fault = <<"destroyed", x>> /\ x \notin c.list /\ ~Live(q.now, x)
      <4>1. x \in g.gone \/ Gone(p.from, f, x)
          BY <1>2, <2>3, <3>3 DEF Safe, Gone, Grown
      <4> QED
          BY <2>5, <3>3, <4>1, BlamedOnly
    <3> QED
        BY <2>2, <2>5, <3>1, <3>2, <3>3
  <2> QED
      BY <2>4, <2>5
<1>3. Takes(AssignCode(x, y, wasMoved), f, c, d, h, g)
    BY <1>2 DEF Takes
<1> QED
    BY <1>1, <1>3, GoodAfter

(***************************************************************************)
(* Leaving scopes.                                                         *)
(***************************************************************************)
\* The variables of the jobs i to j.
JobsFrom(i, j) == {jobs[k] : k \in i .. j}

\* Leaving scopes, also by a break or continue that drops more than it leaves.
LEMMA GoodLeave ==
  ASSUME jobs \in Seq(Var), IsInjective(jobs),
         NEW b1 \in Nat, NEW b2 \in Nat, b1 <= b2, b2 <= Len(jobs),
         NEW P, NEW f, NEW c, NEW d, NEW h, NEW g, Good(P, f, c, h), Grown(h, g), Sane(g),
         c.scope = ToSet(jobs), d.scope = JobsFrom(1, b2), JobsFrom(b1 + 1, b2) \subseteq g.up,
         d.list = c.list, d.said = c.said, d.kept = c.kept
  PROVE  Good(After(Drops(b1, NoVar) \o Ends(b2), P), f, d, g)
<1> DEFINE code == Drops(b1, NoVar) \o Ends(b2)
<1>1. code \in Seq(Code)
  <2>1. b1 <= Len(jobs)
      OBVIOUS
  <2>2. Drops(b1, NoVar) \in Seq(Code) /\ Ends(b2) \in Seq(Code)
      BY <2>1, DropsIs, EndsIs DEF DropsFrom
  <2> QED
      BY <2>2
<1>2. ASSUME NEW q \in Path, NEW p \in Path, p.from = q.from, p.now = Run(q.now, code),
             Running(q.now), Clean(q.from, f), \A z \in c.scope : Safe(q, f, c, h, z)
      PROVE  IF Running(p.now) THEN \A z \in d.scope : Safe(p, f, d, g, z)
             ELSE \A z \in Var : Blamed(p, f, g, z)
  <2>1. q.now \in Env
      BY DEF Path
  <2>2. /\ p.now \in Env
        /\ IF Running(p.now)
           THEN /\ \A x \in Var : (\A i \in b1 + 1 .. Len(jobs) : jobs[i] # x) => SameAt(p.now, q.now, x)
                /\ \A i \in b1 + 1 .. b2 : Dropped(p.now, q.now, jobs[i])
           ELSE \E x \in ToSet(jobs) :
                  \/ p.now.fault = <<"destroyed", x>> /\ FlagUp(q.now, x) /\ x # NoVar
                  \/ p.now.fault = <<"leaked", x>> /\ FlagDown(q.now, x)
      BY <1>2, <2>1, LeaveEffect, VarAssumption
  <2>3. CASE Running(p.now)
    <3> SUFFICES ASSUME NEW z \in d.scope PROVE Safe(p, f, d, g, z)
        BY <2>3
    <3>1. PICK i \in 1 .. b2 : z = jobs[i]
        BY DEF JobsFrom
    <3>2. i \in 1 .. Len(jobs) /\ z \in Var /\ z \in ToSet(jobs)
        BY <3>1 DEF ToSet
    <3>3. Safe(q, f, c, h, z)
        BY <1>2, <3>2
    <3>4. CASE i <= b1
      <4>1. \A k \in b1 + 1 .. Len(jobs) : jobs[k] # z
        <5> TAKE k \in b1 + 1 .. Len(jobs)
        <5>1. k \in 1 .. Len(jobs) /\ k # i
            BY <3>2, <3>4
        <5> QED
            BY <5>1, <3>1, <3>2 DEF IsInjective
      <4>2. SameAt(p.now, q.now, z)
          BY <2>2, <2>3, <3>2, <4>1
      <4> QED
          BY <1>2, <3>3, <4>2, SafeSame
    <3>5. CASE i > b1
      <4>1. i \in b1 + 1 .. b2
          BY <3>5
      <4>2. z \in g.up /\ z \in g.gone
        <5>1. z \in JobsFrom(b1 + 1, b2)
            BY <3>1, <4>1 DEF JobsFrom
        <5> QED
            BY <5>1 DEF Sane
      <4>3. Dropped(p.now, q.now, z)
          BY <2>2, <2>3, <3>1, <4>1
      <4>4. /\ p.now.val[z] # "none"
            /\ Live(p.now, z) => Live(q.now, z) /\ p.now.flag[z] = q.now.flag[z]
          BY <3>3, <4>3 DEF Dropped, Safe
      <4>5. Clash(p.now, d, z) => z \in g.clash \/ Clash(p.from, f, z)
          BY <1>2, <3>3, <4>4 DEF Clash, Safe, Grown
      <4>6. \A j \in DOMAIN d.kept : Owed(p.now, d, j, z) => Owed(q.now, c, j, z)
          BY <4>4 DEF Owed
      <4>7. \A j \in DOMAIN d.kept : Owed(p.now, d, j, z) =>
              z \in g.clash \/ Clash(p.from, f, z) \/ Owed(p.from, f, j, z)
          BY <1>2, <3>3, <4>6 DEF Safe, Grown
      <4>8. FlagDown(p.now, z) => z \in g.down \/ FlagDown(p.from, z)
          BY <1>2, <3>3, <4>4 DEF Safe, FlagDown, Grown
      <4> QED
          BY <4>2, <4>4, <4>5, <4>7, <4>8 DEF Safe
    <3> QED
        BY <3>1, <3>4, <3>5
  <2>4. CASE ~Running(p.now)
    <3>1. PICK x \in ToSet(jobs) :
                  \/ p.now.fault = <<"destroyed", x>> /\ FlagUp(q.now, x)
                  \/ p.now.fault = <<"leaked", x>> /\ FlagDown(q.now, x)
        BY <2>2, <2>4
    <3>2. Safe(q, f, c, h, x)
        BY <1>2
    <3>3. CASE p.now.fault = <<"destroyed", x>> /\ FlagUp(q.now, x)
      <4>1. x \in g.gone \/ FlagUp(p.from, x)
          BY <1>2, <3>2, <3>3 DEF Safe, Grown, Sane
      <4> QED
          BY <2>4, <3>3, <4>1, BlamedOnly
    <3>4. CASE p.now.fault = <<"leaked", x>> /\ FlagDown(q.now, x)
      <4>1. x \in g.leak \/ FlagDown(p.from, x)
          BY <1>2, <3>2, <3>4 DEF Safe, Grown, Sane
      <4> QED
          BY <2>4, <3>4, <4>1, BlamedOnly
    <3> QED
        BY <3>1, <3>3, <3>4
  <2> QED
      BY <2>3, <2>4
<1> HIDE DEF code
<1>4. Takes(code, f, c, d, h, g)
    BY <1>2 DEF Takes
<1>3. Good(After(code, P), f, d, g)
    BY <1>1, <1>4, GoodAfter
<1> QED
    BY <1>3 DEF code

\* Code does nothing to runs that stopped.
LEMMA GoodAfterStop ==
  ASSUME NEW code \in Seq(Code), NEW P, NEW f, NEW c, NEW d, NEW h, NEW g,
         Good(P, f, c, h), Grown(h, g), \A p \in P : ~Running(p.now)
  PROVE  Good(After(code, P), f, d, g)
<1>1. P \in SUBSET Path
    BY DEF Good
<1>2. After(code, P) \subseteq P
  <2> SUFFICES ASSUME NEW p \in After(code, P) PROVE p \in P
      OBVIOUS
  <2>1. PICK q \in P : /\ p \in Path /\ p.from = q.from /\ p.now = Run(q.now, code)
                       /\ ~Running(q.now) => p = q
      BY <1>1, AfterHas
  <2> QED
      BY <2>1
<1>3. Good(After(code, P), f, c, g)
    BY <1>2, GoodSub, GoodGrows
<1> QED
    BY <1>2, <1>3, GoodStopped

\* A return: the runs that go on are over, those that stopped are excused.
LEMMA GoodReturn ==
  ASSUME jobs \in Seq(Var), IsInjective(jobs),
         NEW P, NEW f, NEW c, NEW d, NEW h, Good(P, f, c, h), Sane(h), c.scope = ToSet(jobs),
         NEW x \in Var \cup {NoVar}, x \in Var => x \in c.scope /\ x \notin c.said
  PROVE  Good(Stopped(After(ReturnCode(x), P)), f, d, h)
<1> DEFINE first == IF x = NoVar THEN <<>> ELSE <<C("return", x)>>
           leave == Drops(0, x) \o Ends(0)
           z == [c EXCEPT !.scope = {}]
<1>1. first \in Seq(Code) /\ (x # NoVar => C("return", x) \in Code)
    BY CIs DEF Ops
<1>2. Drops(0, x) \in Seq(Code) /\ Ends(0) \in Seq(Code) /\ leave \in Seq(Code)
  <2>1. 0 \in Nat /\ 0 <= Len(jobs)
      OBVIOUS
  <2>2. Drops(0, x) \in Seq(Code) /\ Ends(0) \in Seq(Code)
      BY <2>1, DropsIs, EndsIs DEF DropsFrom
  <2> QED
      BY <2>2
<1>3. ReturnCode(x) = first \o leave /\ first \o leave \in Seq(Code)
  <2> DEFINE b == Drops(0, x)
             e == Ends(0)
  <2>1. ReturnCode(x) = (first \o b) \o e
      BY DEF ReturnCode
  <2>2. b \in Seq(Code) /\ e \in Seq(Code) /\ leave = b \o e
      BY <1>2
  <2> HIDE DEF first, b, e, leave
  <2>3. (first \o b) \o e = first \o (b \o e)
      BY <1>1, <2>2, ConcatAssociative
  <2>4. first \o leave \in Seq(Code)
      BY <1>1, <1>2
  <2> QED
      BY <2>1, <2>2, <2>3, <2>4
<1>4. Grown(h, h)
    BY DEF Grown
<1>5. ASSUME NEW q \in Path, NEW p \in Path, p.from = q.from, p.now = Run(q.now, first \o leave),
             Running(q.now), Clean(q.from, f), \A y \in c.scope : Safe(q, f, c, h, y),
             ~Running(p.now)
      PROVE  \A y \in Var : Blamed(p, f, h, y)
  <2> DEFINE m == Run(q.now, first)
  <2>1. q.now \in Env
      BY DEF Path
  <2>2. m \in Env /\ p.now = Run(m, leave)
    <3> HIDE DEF first, leave
    <3> QED
        BY <1>1, <1>2, <1>5, <2>1, RunAppend, RunType
  <2>3. /\ x = NoVar => m = q.now
        /\ x \in Var => /\ Running(m) => \A y \in Var \ {x} : SameAt(m, q.now, y)
                        /\ IF Live(q.now, x) THEN Running(m) /\ m.val[x] = "gone"
                           ELSE m.fault = <<"used", x>>
    <3>1. CASE x = NoVar
        BY <2>1, <3>1, RunNone, VarAssumption
    <3>2. CASE x \in Var
      <4>1. x # NoVar
          BY <3>2, VarAssumption
      <4>2. m = Exec(q.now, C("return", x))
          BY <1>1, <2>1, <4>1, RunOne
      <4> HIDE DEF m
      <4> QED
          BY <1>5, <2>1, <3>2, <4>1, <4>2, ExecReturn
    <3> QED
        BY <3>1, <3>2
  <2> HIDE DEF m
  <2>4. CASE ~Running(m)
    <3>1. p.now = m
        BY <1>2, <2>2, <2>4, RunStopped
    <3>2. x \in Var /\ m.fault = <<"used", x>> /\ ~Live(q.now, x)
        BY <1>5, <2>3, <2>4
    <3>3. Safe(q, f, c, h, x) /\ q.now.val[x] \in {"none", "live", "gone"}
        BY <1>5, <2>1, <3>2 DEF Env
    <3>4. x \in h.gone \/ Gone(p.from, f, x)
        BY <1>5, <3>2, <3>3 DEF Safe, Gone, Live
    <3> QED
        BY <3>1, <3>2, <3>4, BlamedOnly
  <2>5. CASE Running(m)
    <3>1. x \in Var => ~Live(m, x)
        BY <2>3, <2>5, Stops DEF Live
    <3>2. PICK y \in ToSet(jobs) :
                   \/ p.now.fault = <<"destroyed", y>> /\ FlagUp(m, y) /\ y # x
                   \/ p.now.fault = <<"leaked", y>> /\ FlagDown(m, y)
      <4>1. 0 \in Nat /\ 0 <= 0 /\ 0 <= Len(jobs)
          OBVIOUS
      <4> QED
          BY <1>5, <2>2, <2>5, <3>1, <4>1, LeaveEffect
    <3>3. y \in Var
        BY DEF ToSet
    <3>4. y # x => SameAt(m, q.now, y)
        BY <2>3, <2>5, <3>3, VarAssumption DEF SameAt
    <3>5. Safe(q, f, c, h, y)
        BY <1>5
    <3>6. CASE p.now.fault = <<"destroyed", y>> /\ FlagUp(m, y) /\ y # x
      <4>1. FlagUp(q.now, y)
          BY <3>4, <3>6 DEF SameAt, FlagUp, Live
      <4>2. y \in h.gone \/ FlagUp(p.from, y)
          BY <1>5, <3>5, <4>1 DEF Safe, Sane
      <4> QED
          BY <3>6, <4>2, BlamedOnly
    <3>7. CASE p.now.fault = <<"leaked", y>> /\ FlagDown(m, y)
      <4>1. y # x
          BY <3>1, <3>3, <3>7 DEF FlagDown
      <4>2. FlagDown(q.now, y)
          BY <3>4, <3>7, <4>1 DEF SameAt, FlagDown, Live
      <4>3. y \in h.leak \/ FlagDown(p.from, y)
          BY <1>5, <3>5, <4>2 DEF Safe, Sane
      <4> QED
          BY <3>7, <4>3, BlamedOnly
    <3> QED
        BY <3>2, <3>6, <3>7
  <2> QED
      BY <2>4, <2>5
<1>6. Good(After(ReturnCode(x), P), f, [scope |-> {}], h)
  <2> DEFINE code == ReturnCode(x)
  <2>1. code \in Seq(Code)
      BY <1>3
  <2>2. ASSUME NEW q \in Path, NEW p \in Path, p.from = q.from, p.now = Run(q.now, code),
               Running(q.now), Clean(q.from, f), \A y \in c.scope : Safe(q, f, c, h, y)
        PROVE  IF Running(p.now) THEN \A y \in [scope |-> {}].scope : Safe(p, f, [scope |-> {}], h, y)
               ELSE \A y \in Var : Blamed(p, f, h, y)
      BY <1>3, <1>5, <2>2
  <2> HIDE DEF code, leave, first
  <2>4. Takes(code, f, c, [scope |-> {}], h, h)
      BY <2>2 DEF Takes
  <2>3. Good(After(code, P), f, [scope |-> {}], h)
      BY <1>4, <2>1, <2>4, GoodAfter
  <2> QED
      BY <2>3 DEF code
<1>7. Good(Stopped(After(ReturnCode(x), P)), f, [scope |-> {}], h)
  <2>1. Stopped(After(ReturnCode(x), P)) \subseteq After(ReturnCode(x), P)
      BY DEF Stopped
  <2> QED
      BY <1>6, <2>1, GoodSub
<1>8. \A p \in Stopped(After(ReturnCode(x), P)) : ~Running(p.now)
    BY DEF Stopped
<1> QED
    BY <1>7, <1>8, GoodStopped

\* The end of a scope, which drops nothing behind a jump.
LEMMA GoodScopeEnd ==
  ASSUME jobs \in Seq(Var), IsInjective(jobs), NEW s, s.begin \in Nat, s.begin <= Len(jobs),
         NEW f, NEW c, NEW d, NEW h, NEW g, Good(paths, f, c, h), Grown(h, g), Sane(g),
         destroyScope \in BOOLEAN, ~destroyScope => \A p \in paths : ~Running(p.now),
         c.scope = ToSet(jobs), d.scope = JobsFrom(1, s.begin),
         d.list = c.list, d.said = c.said, d.kept = c.kept
  PROVE  Good(ScopeEnd(s), f, d, g)
<1>0. s.begin <= s.begin
    OBVIOUS
<1>1. CASE destroyScope = TRUE
  <2>1. ScopeEnd(s) = After(Drops(s.begin, NoVar) \o Ends(s.begin), paths)
      BY <1>1 DEF ScopeEnd
  <2>2. JobsFrom(s.begin + 1, s.begin) \subseteq g.up
    <3>1. s.begin + 1 .. s.begin = {}
        OBVIOUS
    <3> QED
        BY <3>1 DEF JobsFrom
  <2> QED
      BY <1>0, <2>1, <2>2, GoodLeave
<1>2. CASE destroyScope = FALSE
  <2>1. ScopeEnd(s) = After(<<>> \o Ends(s.begin), paths)
      BY <1>2 DEF ScopeEnd
  <2>2. Ends(s.begin) \in Seq(Code)
      BY EndsIs
  <2>3. <<>> \o Ends(s.begin) \in Seq(Code)
      BY <2>2
  <2> QED
      BY <1>2, <2>1, <2>3, GoodAfterStop
<1> QED
    BY <1>1, <1>2

(***************************************************************************)
(* Lists.                                                                  *)
(***************************************************************************)
\* Facts on lists, said once: appending,
LEMMA ListAppend ==
  ASSUME NEW S, NEW s \in Seq(S), NEW x \in S
  PROVE  /\ Append(s, x) \in Seq(S) /\ Len(s) \in Nat /\ Len(Append(s, x)) = Len(s) + 1
         /\ Append(s, x)[Len(s) + 1] = x
         /\ DOMAIN s = 1 .. Len(s) /\ DOMAIN Append(s, x) = 1 .. Len(s) + 1
         /\ \A i \in 1 .. Len(s) : Append(s, x)[i] = s[i]
  BY AppendProperties

\* what is on the longer list,
LEMMA AppendSet ==
  ASSUME NEW S, NEW s \in Seq(S), NEW x \in S
  PROVE  ToSet(Append(s, x)) = ToSet(s) \cup {x}
<1> DEFINE t == Append(s, x)
<1>1. /\ Len(s) \in Nat /\ Len(t) = Len(s) + 1 /\ t[Len(t)] = x
      /\ DOMAIN s = 1 .. Len(s) /\ DOMAIN t = 1 .. Len(t)
      /\ \A i \in 1 .. Len(s) : t[i] = s[i]
    BY ListAppend
<1> HIDE DEF t
<1>2. \A i \in DOMAIN t : i \in DOMAIN s \/ i = Len(t)
    BY <1>1
<1>3. \A i \in DOMAIN s : i \in DOMAIN t
    BY <1>1
<1>4. Len(t) \in DOMAIN t
    BY <1>1
<1>5. ToSet(t) = ToSet(s) \cup {x}
    BY <1>1, <1>2, <1>3, <1>4 DEF ToSet
<1> QED
    BY <1>5 DEF t

\* concatenation,
LEMMA ListConcat ==
  ASSUME NEW S, NEW s \in Seq(S), NEW u \in Seq(S), NEW t, t = s \o u
  PROVE  /\ t \in Seq(S) /\ Len(s) \in Nat /\ Len(u) \in Nat /\ Len(t) = Len(s) + Len(u)
         /\ DOMAIN s = 1 .. Len(s) /\ DOMAIN u = 1 .. Len(u) /\ DOMAIN t = 1 .. Len(t)
         /\ \A i \in 1 .. Len(s) : t[i] = s[i]
         /\ \A i \in 1 .. Len(u) : t[Len(s) + i] = u[i]
         /\ ToSet(t) = ToSet(s) \cup ToSet(u)
<1>1. /\ t \in Seq(S) /\ Len(s) \in Nat /\ Len(u) \in Nat /\ Len(t) = Len(s) + Len(u)
      /\ DOMAIN s = 1 .. Len(s) /\ DOMAIN u = 1 .. Len(u) /\ DOMAIN t = 1 .. Len(t)
      /\ \A i \in 1 .. Len(s) : t[i] = s[i]
      /\ \A i \in 1 .. Len(u) : t[Len(s) + i] = u[i]
    OBVIOUS
<1>2. ToSet(t) = ToSet(s) \cup ToSet(u)
  <2>1. \A i \in DOMAIN t : i \in DOMAIN s \/ (i - Len(s) \in DOMAIN u /\ i = Len(s) + (i - Len(s)))
      BY <1>1
  <2>2. \A i \in DOMAIN s : i \in DOMAIN t
      BY <1>1
  <2>3. \A i \in DOMAIN u : Len(s) + i \in DOMAIN t
      BY <1>1
  <2>4. ToSet(t) \subseteq ToSet(s) \cup ToSet(u)
    <3> SUFFICES ASSUME NEW i \in DOMAIN t PROVE t[i] \in ToSet(s) \cup ToSet(u)
        BY DEF ToSet
    <3>1. CASE i \in DOMAIN s
        BY <1>1, <3>1 DEF ToSet
    <3>2. CASE i - Len(s) \in DOMAIN u /\ i = Len(s) + (i - Len(s))
      <4>1. t[i] = u[i - Len(s)]
          BY <1>1, <3>2
      <4> QED
          BY <3>2, <4>1 DEF ToSet
    <3> QED
        BY <2>1, <3>1, <3>2
  <2>5. ToSet(s) \subseteq ToSet(t)
      BY <1>1, <2>2 DEF ToSet
  <2>6. ToSet(u) \subseteq ToSet(t)
    <3> SUFFICES ASSUME NEW i \in DOMAIN u PROVE u[i] \in ToSet(t)
        BY DEF ToSet
    <3>1. u[i] = t[Len(s) + i] /\ Len(s) + i \in DOMAIN t
        BY <1>1, <2>3
    <3> QED
        BY <3>1 DEF ToSet
  <2> QED
      BY <2>4, <2>5, <2>6
<1> QED
    BY <1>1, <1>2

\* the start of a list,
LEMMA ListStart ==
  ASSUME NEW S, NEW s \in Seq(S), NEW n \in 0 .. Len(s), NEW t, t = SubSeq(s, 1, n)
  PROVE  /\ t \in Seq(S) /\ Len(s) \in Nat /\ Len(t) = n
         /\ DOMAIN s = 1 .. Len(s) /\ DOMAIN t = 1 .. n
         /\ \A i \in 1 .. n : i \in DOMAIN s /\ t[i] = s[i]
         /\ ToSet(t) = {s[i] : i \in 1 .. n} /\ ToSet(t) \subseteq ToSet(s)
<1>1. /\ t \in Seq(S) /\ Len(s) \in Nat /\ Len(t) = n
      /\ DOMAIN s = 1 .. Len(s) /\ DOMAIN t = 1 .. n
      /\ \A i \in 1 .. n : i \in DOMAIN s /\ t[i] = s[i]
    OBVIOUS
<1> QED
    BY <1>1 DEF ToSet

\* its end,
LEMMA ListEnd ==
  ASSUME NEW S, NEW s \in Seq(S), NEW n \in 0 .. Len(s), NEW t, t = SubSeq(s, n + 1, Len(s))
  PROVE  /\ t \in Seq(S) /\ Len(s) \in Nat /\ Len(t) = Len(s) - n
         /\ DOMAIN s = 1 .. Len(s) /\ DOMAIN t = 1 .. (Len(s) - n)
         /\ \A i \in 1 .. (Len(s) - n) : n + i \in DOMAIN s /\ t[i] = s[n + i]
         /\ \A i \in n + 1 .. Len(s) : i - n \in DOMAIN t /\ t[i - n] = s[i]
         /\ ToSet(t) = {s[i] : i \in n + 1 .. Len(s)} /\ ToSet(t) \subseteq ToSet(s)
<1>1. /\ t \in Seq(S) /\ Len(s) \in Nat /\ Len(t) = Len(s) - n
      /\ DOMAIN s = 1 .. Len(s) /\ DOMAIN t = 1 .. (Len(s) - n)
      /\ \A i \in 1 .. (Len(s) - n) : n + i \in DOMAIN s /\ t[i] = s[n + i]
  <2>1. n + 1 \in Int /\ Len(s) \in Int /\ \A i \in n + 1 .. Len(s) : s[i] \in S
      OBVIOUS
  <2>2. t \in Seq(S) /\ Len(t) = Len(s) - n /\ \A i \in 1 .. (Len(s) - n) : t[i] = s[n + i]
    <3>1. /\ t \in Seq(S) /\ Len(t) = IF n + 1 <= Len(s) THEN Len(s) - (n + 1) + 1 ELSE 0
          /\ \A i \in 1 .. Len(t) : t[i] = s[n + 1 + i - 1]
        BY <2>1, SubSeqProperties
    <3> QED
        BY <3>1
  <2> QED
      BY <2>2
<1>2. \A i \in n + 1 .. Len(s) : i - n \in DOMAIN t /\ t[i - n] = s[i]
  <2> TAKE i \in n + 1 .. Len(s)
  <2>1. i - n \in 1 .. (Len(s) - n) /\ n + (i - n) = i
      OBVIOUS
  <2> QED
      BY <1>1, <2>1
<1>3. ToSet(t) = {s[i] : i \in n + 1 .. Len(s)}
  <2>1. \A i \in 1 .. (Len(s) - n) : n + i \in n + 1 .. Len(s)
      OBVIOUS
  <2>2. ToSet(t) = {t[i] : i \in 1 .. (Len(s) - n)}
      BY <1>1 DEF ToSet
  <2>3. ASSUME NEW i \in 1 .. (Len(s) - n) PROVE t[i] \in {s[j] : j \in n + 1 .. Len(s)}
      BY <1>1, <2>1
  <2>4. ASSUME NEW i \in n + 1 .. Len(s) PROVE s[i] \in {t[j] : j \in 1 .. (Len(s) - n)}
    <3>1. i - n \in 1 .. (Len(s) - n) /\ t[i - n] = s[i]
        BY <1>1, <1>2
    <3> QED
        BY <3>1
  <2> QED
      BY <2>2, <2>3, <2>4
<1>4. ToSet(t) \subseteq ToSet(s)
  <2>1. \A i \in n + 1 .. Len(s) : i \in 1 .. Len(s)
      OBVIOUS
  <2> QED
      BY <1>1, <1>3, <2>1 DEF ToSet
<1> QED
    BY <1>1, <1>2, <1>3, <1>4

\* all but the last,
LEMMA ListFront ==
  ASSUME NEW S, NEW s \in Seq(S), s # <<>>, NEW t, t = Front(s)
  PROVE  /\ t \in Seq(S) /\ Len(s) \in Nat /\ Len(s) > 0 /\ Len(t) = Len(s) - 1
         /\ DOMAIN s = 1 .. Len(s) /\ DOMAIN t = 1 .. (Len(s) - 1)
         /\ \A i \in 1 .. (Len(s) - 1) : i \in DOMAIN s /\ t[i] = s[i]
         /\ Last(s) = s[Len(s)] /\ Last(s) \in S /\ Len(s) \in DOMAIN s
<1>1. Len(s) \in Nat /\ Len(s) > 0
    OBVIOUS
<1>2. Len(s) - 1 \in 0 .. Len(s) /\ Len(s) \in DOMAIN s
    BY <1>1
<1>3. t = SubSeq(s, 1, Len(s) - 1)
    BY DEF Front
<1>4. s[Len(s)] \in S
    BY <1>2
<1>5. /\ t \in Seq(S) /\ Len(t) = Len(s) - 1
      /\ DOMAIN s = 1 .. Len(s) /\ DOMAIN t = 1 .. (Len(s) - 1)
      /\ \A i \in 1 .. (Len(s) - 1) : i \in DOMAIN s /\ t[i] = s[i]
  <2> DEFINE n == Len(s) - 1
  <2>1. n \in 0 .. Len(s) /\ t = SubSeq(s, 1, n)
      BY <1>2, <1>3
  <2> HIDE DEF n
  <2>2. /\ t \in Seq(S) /\ Len(t) = n
        /\ DOMAIN s = 1 .. Len(s) /\ DOMAIN t = 1 .. n
        /\ \A i \in 1 .. n : i \in DOMAIN s /\ t[i] = s[i]
      BY <2>1, ListStart
  <2> QED
      BY <2>2 DEF n
<1>6. Last(s) = s[Len(s)]
    BY DEF Last
<1> QED
    BY <1>1, <1>2, <1>4, <1>5, <1>6

\* the least index,
LEMMA LeastOf ==
  ASSUME NEW I \in SUBSET Nat, I # {}
  PROVE  Min(I) \in I /\ \A i \in I : Min(I) <= i
<1>1. \E n \in I : \A m \in I : n <= m
    BY LeastNumber
<1> QED
    BY <1>1 DEF Min

\* and un_move_exact_id, which takes off the first entry for x.
LEMMA ListRemove ==
  ASSUME NEW S, NEW s \in Seq(S), NEW x, NEW t, t = RemoveFirst(s, x)
  PROVE  /\ x \notin ToSet(s) => t = s
         /\ x \in ToSet(s) => \E k \in 1 .. Len(s) :
               /\ s[k] = x /\ t \in Seq(S) /\ Len(t) = Len(s) - 1
               /\ \A i \in 1 .. Len(s) : s[i] = x => k <= i
               /\ \A i \in 1 .. (k - 1) : t[i] = s[i]
               /\ \A i \in k .. (Len(s) - 1) : t[i] = s[i + 1]
<1> DEFINE n == Len(s)
           I == {i \in 1 .. n : s[i] = x}
<1>1. n \in Nat /\ DOMAIN s = 1 .. n
    OBVIOUS
<1>2. CASE x \notin ToSet(s)
  <2>1. ~\E i \in 1 .. Len(s) : s[i] = x
      BY <1>1, <1>2 DEF ToSet
  <2> QED
      BY <1>2, <2>1 DEF RemoveFirst
<1>3. CASE x \in ToSet(s)
  <2>1. \E i \in 1 .. Len(s) : s[i] = x
      BY <1>1, <1>3 DEF ToSet
  <2>2. t = RemoveAt(s, Min(I))
    <3>1. t = RemoveAt(s, SelectInSeq(s, LAMBDA v : v = x))
        BY <2>1 DEF RemoveFirst
    <3>2. SelectInSeq(s, LAMBDA v : v = x) = Min(I)
        BY <2>1 DEF SelectInSeq
    <3> QED
        BY <3>1, <3>2
  <2>3. I \in SUBSET Nat /\ I # {}
      BY <1>1, <2>1
  <2> DEFINE k == Min(I)
  <2>4. k \in I /\ \A i \in I : k <= i
    <3> HIDE DEF I
    <3> QED
        BY <2>3, LeastOf
  <2> HIDE DEF k
  <2>5. k \in 1 .. n /\ s[k] = x /\ \A i \in 1 .. n : s[i] = x => k <= i
      BY <2>4
  <2> DEFINE a == SubSeq(s, 1, k - 1)
             b == SubSeq(s, k + 1, Len(s))
  <2>6. t = a \o b
      BY <2>2 DEF RemoveAt, k
  <2>7. /\ a \in Seq(S) /\ Len(a) = k - 1 /\ \A i \in 1 .. (k - 1) : a[i] = s[i]
    <3>1. k - 1 \in 0 .. Len(s)
        BY <1>1, <2>5
    <3> QED
        BY <3>1, ListStart
  <2>8. /\ b \in Seq(S) /\ Len(b) = n - k /\ \A i \in k + 1 .. n : i - k \in DOMAIN b /\ b[i - k] = s[i]
    <3>1. k \in 0 .. Len(s)
        BY <1>1, <2>5
    <3> QED
        BY <3>1, ListEnd
  <2> HIDE DEF a, b
  <2>9. /\ t \in Seq(S) /\ Len(t) = n - 1
        /\ \A i \in 1 .. (k - 1) : t[i] = s[i]
        /\ \A i \in 1 .. (n - k) : t[(k - 1) + i] = b[i]
    <3>1. /\ t \in Seq(S) /\ Len(t) = Len(a) + Len(b)
          /\ \A i \in 1 .. Len(a) : t[i] = a[i]
          /\ \A i \in 1 .. Len(b) : t[Len(a) + i] = b[i]
      <4>1. a \in Seq(S) /\ b \in Seq(S)
          BY <2>7, <2>8
      <4> QED
          BY <2>6, <4>1, ListConcat
    <3> QED
        BY <1>1, <2>5, <2>7, <2>8, <3>1
  <2>10. \A i \in k .. (n - 1) : t[i] = s[i + 1]
    <3> TAKE i \in k .. (n - 1)
    <3>1. /\ (i - (k - 1)) \in 1 .. (n - k) /\ (k - 1) + (i - (k - 1)) = i
          /\ i + 1 \in k + 1 .. n /\ (i + 1) - k = i - (k - 1)
        BY <1>1, <2>5
    <3>2. t[(k - 1) + (i - (k - 1))] = b[i - (k - 1)]
        BY <2>9, <3>1
    <3>3. b[(i + 1) - k] = s[i + 1]
        BY <2>8, <3>1
    <3> QED
        BY <3>1, <3>2, <3>3
  <2> QED
      BY <1>3, <2>5, <2>9, <2>10
<1> QED
    BY <1>2, <1>3

\* Where the current runs started: the function's entry or the innermost loop's.
LEMMA HomeIs ==
  ASSUME NEW sc \in Seq(Scope), NEW n \in 0 .. Len(sc)
  PROVE  /\ Home(sc, n) \in 1 .. n + 1
         /\ Home(sc, n) > 1 => Home(sc, n) - 1 \in 1 .. n /\ sc[Home(sc, n) - 1].kind \in LoopKinds
         /\ \A k \in 1 .. n : sc[k].kind \in LoopKinds => k < Home(sc, n)
<1> DEFINE L == {k \in 1 .. n : sc[k].kind \in LoopKinds}
           T == {m \in Nat : n - m \in {0} \cup L}
<1>1. n \in Nat
    OBVIOUS
<1>2. T \in SUBSET Nat /\ n \in T
    BY <1>1
<1>3. PICK m \in T : \A k \in T : m <= k
    BY <1>2, LeastNumber
<1>4. \A k \in {0} \cup L : n - k \in T
    BY <1>1
<1> DEFINE x == n - m
<1>5. x \in {0} \cup L /\ \A k \in {0} \cup L : x >= k
  <2>1. x \in {0} \cup L
      BY <1>3
  <2>2. ASSUME NEW k \in {0} \cup L PROVE x >= k
    <3>1. m <= n - k /\ m \in Nat
        BY <1>3, <1>4
    <3>2. k \in Nat
        OBVIOUS
    <3> QED
        BY <1>1, <3>1, <3>2
  <2> QED
      BY <2>1, <2>2
<1>6. Max({0} \cup L) \in {0} \cup L /\ \A k \in {0} \cup L : Max({0} \cup L) >= k
  <2> HIDE DEF L, x
  <2> QED
      BY <1>5 DEF Max
<1>7. Home(sc, n) = Max({0} \cup L) + 1
    BY DEF Home
<1> DEFINE y == Max({0} \cup L)
<1> HIDE DEF y
<1>8. y \in {0} \cup L /\ \A k \in {0} \cup L : y >= k
    BY <1>6 DEF y
<1>9. Home(sc, n) = y + 1
    BY <1>7 DEF y
<1>10. y \in 0 .. n /\ (y > 0 => y \in L)
    BY <1>1, <1>8
<1>11. Home(sc, n) \in 1 .. n + 1 /\ (Home(sc, n) > 1 => y \in L /\ Home(sc, n) - 1 = y)
    BY <1>1, <1>9, <1>10
<1>12. \A k \in 1 .. n : sc[k].kind \in LoopKinds => k < Home(sc, n)
    BY <1>1, <1>8, <1>9, <1>10
<1> QED
    BY <1>11, <1>12

\* Home only depends on where the loops are.
LEMMA HomeSame ==
  ASSUME NEW sc, NEW sd, NEW n \in Nat, \A k \in 1 .. n : sc[k].kind = sd[k].kind
  PROVE  Home(sc, n) = Home(sd, n)
<1>1. {k \in 1 .. n : sc[k].kind \in LoopKinds} = {k \in 1 .. n : sd[k].kind \in LoopKinds}
    OBVIOUS
<1> QED
    BY <1>1 DEF Home

\* Opening a scope changes it exactly when the scope is a loop.
LEMMA HomeStep ==
  ASSUME NEW sc \in Seq(Scope), NEW n \in 1 .. Len(sc)
  PROVE  Home(sc, n) = IF sc[n].kind \in LoopKinds THEN n + 1 ELSE Home(sc, n - 1)
<1>1. n - 1 \in 0 .. Len(sc) /\ n \in 0 .. Len(sc) /\ n \in Nat
    OBVIOUS
<1>2. CASE sc[n].kind \in LoopKinds
  <2>1. Home(sc, n) \in 1 .. n + 1 /\ n < Home(sc, n)
      BY <1>1, <1>2, HomeIs
  <2>2. Home(sc, n) = n + 1
      BY <1>1, <2>1
  <2> QED
      BY <1>2, <2>2
<1>3. CASE sc[n].kind \notin LoopKinds
  <2>1. {k \in 1 .. n : sc[k].kind \in LoopKinds} = {k \in 1 .. (n - 1) : sc[k].kind \in LoopKinds}
      BY <1>1, <1>3
  <2> QED
      BY <1>3, <2>1 DEF Home
<1> QED
    BY <1>2, <1>3

\* The innermost loop of a jump.
LEMMA LoopOf ==
  ASSUME scopes \in Seq(Scope)
  PROVE  /\ LoopScopes = {} => Home(scopes, Len(scopes)) = 1
         /\ LoopScopes # {} => /\ Max(LoopScopes) = Home(scopes, Len(scopes)) - 1
                               /\ Home(scopes, Len(scopes)) > 1
<1> DEFINE n == Len(scopes)
           l == Home(scopes, n)
<1>1. n \in Nat /\ n \in 0 .. Len(scopes) /\ DOMAIN scopes = 1 .. n
    OBVIOUS
<1>2. /\ l \in 1 .. n + 1
      /\ l > 1 => l - 1 \in 1 .. n /\ scopes[l - 1].kind \in LoopKinds
      /\ \A k \in 1 .. n : scopes[k].kind \in LoopKinds => k < l
    BY <1>1, HomeIs
<1> HIDE DEF l
<1>3. l > 1 => l - 1 \in LoopScopes
    BY <1>1, <1>2 DEF LoopScopes
<1>4. LoopScopes \in SUBSET (1 .. n) /\ \A k \in LoopScopes : k < l
    BY <1>1, <1>2 DEF LoopScopes
<1>5. CASE LoopScopes = {}
  <2>1. l = 1
      BY <1>1, <1>2, <1>3, <1>5
  <2> QED
      BY <1>5, <2>1 DEF l
<1>6. CASE LoopScopes # {}
  <2>1. Max(LoopScopes) \in LoopScopes /\ \A k \in LoopScopes : k <= Max(LoopScopes)
      BY <1>1, <1>4, <1>6, MaxOf
  <2>2. Max(LoopScopes) \in 1 .. n /\ Max(LoopScopes) < l
      BY <1>4, <2>1
  <2>3. l > 1
      BY <1>1, <1>2, <2>2
  <2>4. l - 1 <= Max(LoopScopes)
      BY <1>3, <2>1, <2>3
  <2>5. Max(LoopScopes) = l - 1
      BY <1>1, <1>2, <2>2, <2>4
  <2> QED
      BY <1>6, <2>3, <2>5 DEF l
<1> QED
    BY <1>5, <1>6

(***************************************************************************)
(* The invariant and its parts.                                            *)
(***************************************************************************)
\* What the context at the entry of a body depends on.
LEMMA EntrySame ==
  ASSUME NEW jb, NEW jc, NEW sc, NEW sd, NEW b, NEW bd, NEW l \in Nat,
         l > 1 => Outer(jb, sc, l) = Outer(jc, sd, l) /\ b[l].known = bd[l].known,
         l = 0 \/ l >= 1,
         \A j \in 2 .. l : b[j].backup = bd[j].backup
  PROVE  l # 0 => Entry(jb, sc, b, l) = Entry(jc, sd, bd, l)
<1> SUFFICES ASSUME l # 0 PROVE Entry(jb, sc, b, l) = Entry(jc, sd, bd, l)
    OBVIOUS
<1>1. Kept(b, l) = Kept(bd, l)
    BY DEF Kept
<1>2. CASE l = 1
    BY <1>1, <1>2 DEF Entry, Outer, Known
<1>3. CASE l > 1
    BY <1>1, <1>3 DEF Entry, Outer, Known
<1> QED
    BY <1>2, <1>3

\* The parts of the context at the entry of a body.
LEMMA EntryIs ==
  ASSUME NEW jb, NEW sc, NEW b, NEW l
  PROVE  /\ Entry(jb, sc, b, l).scope = Outer(jb, sc, l)
         /\ Entry(jb, sc, b, l).list = Known(b, l) /\ Entry(jb, sc, b, l).said = Known(b, l)
         /\ Entry(jb, sc, b, l).kept = Kept(b, l)
         /\ DOMAIN Kept(b, l) = 2 .. l
         /\ \A j \in 2 .. l : Kept(b, l)[j] = ToSet(b[j].backup)
  BY DEF Entry, Context, Kept

\* What excuses a flag excuses what the flag leads to.
LEMMA SaneExcuses == Sane(Excuses)
  BY DEF Sane, Excuses

\* The excuses grow with the history.
LEMMA ExcusesGrow ==
  ASSUME forgotten \subseteq forgotten', overDropped \subseteq overDropped',
         conditional \cup maybeLive \subseteq conditional' \cup maybeLive',
         maybeLive \subseteq maybeLive', selfAssigned \subseteq selfAssigned'
  PROVE  Grown(Excuses, Excuses') /\ Sane(Excuses')
  BY DEF Grown, Excuses, Sane

\* What the invariant says of the types.
LEMMA Facts ==
  ASSUME IInv
  PROVE  /\ moved \in Seq(Var) /\ bodies \in Seq(Body) /\ jobs \in Seq(Var) /\ scopes \in Seq(Scope)
         /\ inElse \in Seq(BOOLEAN) /\ destroyScope \in BOOLEAN /\ returned \in BOOLEAN
         /\ loopBegin \in Nat /\ IsInjective(jobs) /\ InScope \subseteq declared /\ InScope \subseteq Var
         /\ Len(moved) \in Nat /\ Len(bodies) \in Nat /\ Len(jobs) \in Nat /\ Len(scopes) \in Nat
         /\ Len(scopes) = Len(inElse) /\ Here.scope = InScope
         /\ Here.list = ToSet(moved) /\ Here.said = ToSet(moved) /\ Here.kept = Kept(bodies, Len(bodies))
         /\ forgotten \subseteq Var /\ conditional \subseteq Var /\ maybeLive \subseteq Var
         /\ declared \subseteq Var /\ overDropped \subseteq Var /\ selfAssigned \subseteq Var
<1>1. CheckTypeOK /\ EmitTypeOK /\ Shape
    BY DEF IInv
<1>2. InScope \subseteq Var
    BY <1>1 DEF EmitTypeOK, InScope, ToSet
<1>3. /\ Here.scope = InScope /\ Here.list = ToSet(moved) /\ Here.said = ToSet(moved)
      /\ Here.kept = Kept(bodies, Len(bodies))
    BY DEF Here, Context
<1>4. /\ moved \in Seq(Var) /\ bodies \in Seq(Body) /\ jobs \in Seq(Var) /\ scopes \in Seq(Scope)
      /\ inElse \in Seq(BOOLEAN) /\ destroyScope \in BOOLEAN /\ returned \in BOOLEAN
      /\ loopBegin \in Nat /\ IsInjective(jobs) /\ InScope \subseteq declared
      /\ Len(scopes) = Len(inElse)
      /\ forgotten \subseteq Var /\ conditional \subseteq Var /\ maybeLive \subseteq Var
      /\ declared \subseteq Var /\ overDropped \subseteq Var /\ selfAssigned \subseteq Var
    BY <1>1 DEF CheckTypeOK, EmitTypeOK, Shape
<1>5. Len(moved) \in Nat /\ Len(bodies) \in Nat /\ Len(jobs) \in Nat /\ Len(scopes) \in Nat
    BY <1>4
<1> QED
    BY <1>2, <1>3, <1>4, <1>5

\* What it says of the bodies and scopes that are open.
LEMMA InnerFacts ==
  ASSUME IInv, InFunction
  PROVE  /\ Len(bodies) = Len(scopes) + 1
         /\ DOMAIN scopes = 1 .. Len(scopes) /\ DOMAIN bodies = 1 .. Len(scopes) + 1
         /\ OpenBodies = 2 .. Len(scopes) + 1
         /\ \A i \in 1 .. Len(scopes) :
               /\ scopes[i] \in Scope /\ bodies[i + 1] \in Body /\ bodies[i + 1].kind = scopes[i].kind
               /\ scopes[i].begin \in 0 .. Len(jobs) /\ scopes[i].kind \in BodyKinds \ {"function"}
               /\ \A j \in 1 .. i : scopes[j].begin <= scopes[i].begin
         /\ \A n \in 2 .. Len(scopes) + 1 :
               /\ bodies[n] \in Body /\ n - 1 \in 1 .. Len(scopes) /\ bodies[n].kind = scopes[n - 1].kind
               /\ bodies[n].kind \in BodyKinds \ {"function"}
<1> DEFINE k == Len(scopes)
<1>1. /\ bodies \in Seq(Body) /\ scopes \in Seq(Scope) /\ k \in Nat /\ Len(jobs) \in Nat
      /\ Len(bodies) = k + 1
      /\ \A i \in DOMAIN scopes : bodies[i + 1].kind = scopes[i].kind /\ scopes[i].begin <= Len(jobs)
      /\ \A i \in DOMAIN scopes : \A j \in 1 .. i : scopes[j].begin <= scopes[i].begin
    BY Facts DEF IInv, Shape
<1>2. DOMAIN scopes = 1 .. k /\ DOMAIN bodies = 1 .. k + 1 /\ OpenBodies = 2 .. k + 1
    BY <1>1 DEF OpenBodies
<1>3. ASSUME NEW i \in 1 .. k
      PROVE  /\ scopes[i] \in Scope /\ bodies[i + 1] \in Body /\ bodies[i + 1].kind = scopes[i].kind
             /\ scopes[i].begin \in 0 .. Len(jobs) /\ scopes[i].kind \in BodyKinds \ {"function"}
             /\ \A j \in 1 .. i : scopes[j].begin <= scopes[i].begin
  <2>1. i \in DOMAIN scopes /\ i + 1 \in 1 .. k + 1 /\ i + 1 \in DOMAIN bodies
      BY <1>1, <1>2
  <2>2. scopes[i] \in Scope /\ bodies[i + 1] \in Body
      BY <1>1, <2>1
  <2>3. scopes[i].begin \in Nat /\ scopes[i].kind \in BodyKinds \ {"function"}
      BY <2>2 DEF Scope
  <2> QED
      BY <1>1, <2>1, <2>2, <2>3
<1>4. ASSUME NEW n \in 2 .. k + 1
      PROVE  /\ bodies[n] \in Body /\ n - 1 \in 1 .. k /\ bodies[n].kind = scopes[n - 1].kind
             /\ bodies[n].kind \in BodyKinds \ {"function"}
  <2>1. n - 1 \in 1 .. k /\ (n - 1) + 1 = n
      BY <1>1
  <2> QED
      BY <1>3, <2>1
<1> HIDE DEF k
<1> QED
    BY <1>1, <1>2, <1>3, <1>4 DEF k

\* Where the runs to the statement start.
LEMMA HomeFacts ==
  ASSUME IInv, InFunction, NEW n \in 0 .. Len(scopes)
  PROVE  /\ Home(scopes, n) \in 1 .. n + 1
         /\ Home(scopes, n) > 1 =>
               /\ Home(scopes, n) - 1 \in 1 .. n /\ bodies[Home(scopes, n)].kind \in LoopKinds
               /\ scopes[Home(scopes, n) - 1].kind \in LoopKinds
<1>1. scopes \in Seq(Scope)
    BY Facts
<1> DEFINE l == Home(scopes, n)
<1>2. /\ l \in 1 .. n + 1
      /\ l > 1 => l - 1 \in 1 .. n /\ scopes[l - 1].kind \in LoopKinds
    BY <1>1, HomeIs
<1> HIDE DEF l
<1>3. l > 1 => l \in 2 .. Len(scopes) + 1
    BY <1>1, <1>2
<1>4. l > 1 => bodies[l].kind = scopes[l - 1].kind
    BY <1>3, InnerFacts
<1> QED
    BY <1>2, <1>4 DEF l

\* The runs kept for the end of a scope stay good when the step leaves the
\* scope alone.
LEMMA ScopeKept ==
  ASSUME IInv, InFunction, NEW i \in 1 .. Len(scopes), i \in DOMAIN scopes,
         scopes'[i] = scopes[i], \A k \in 1 .. i : scopes'[k].kind = scopes[k].kind,
         bodies'[i + 1].backup = bodies[i + 1].backup,
         scopes[i].kind \in LoopKinds => bodies'[i + 1].atBreak = bodies[i + 1].atBreak,
         \A l \in 1 .. i + 1 : EntryOf(l)' = EntryOf(l), Grown(Excuses, Excuses')
  PROVE  ScopeGood(i)'
<1> DEFINE s == scopes[i]
           b == bodies[i + 1]
           c == EntryOf(i + 1)
           f == EntryOf(Home(scopes, i - 1))
           h == Excuses
           g == Excuses'
<1>1. /\ Good(s.entry, f, c, h)
      /\ s.kind = "if" => Good(s.done, f, [c EXCEPT !.said = @ \cup ToSet(b.backup)], h)
      /\ s.kind \in LoopKinds =>
           Good(s.done, c, [c EXCEPT !.said = b.atBreak], h) /\ Good(s.again, c, c, h)
    BY DEF IInv, ScopesGood, ScopeGood
<1>2. c' = c /\ f' = f
  <2>1. i + 1 \in 1 .. i + 1
      OBVIOUS
  <2>2. c' = c
      BY <2>1
  <2>3. i - 1 \in 0 .. Len(scopes) /\ i - 1 \in Nat
      BY Facts
  <2>4. Home(scopes, i - 1) \in 1 .. (i - 1) + 1
      BY <2>3, HomeFacts
  <2>5. Home(scopes, i - 1)' = Home(scopes, i - 1)
    <3>1. \A k \in 1 .. (i - 1) : scopes'[k].kind = scopes[k].kind
        OBVIOUS
    <3>2. Home(scopes', i - 1) = Home(scopes, i - 1)
        BY <2>3, <3>1, HomeSame
    <3> QED
        BY <3>2
  <2>6. Home(scopes, i - 1) \in 1 .. i + 1
      BY <2>4
  <2> QED
      BY <2>2, <2>5, <2>6
<1> HIDE DEF c, f, h, g
<1>3. /\ Good(s.entry, f, c, g)
      /\ s.kind = "if" => Good(s.done, f, [c EXCEPT !.said = @ \cup ToSet(b.backup)], g)
      /\ s.kind \in LoopKinds =>
           Good(s.done, c, [c EXCEPT !.said = b.atBreak], g) /\ Good(s.again, c, c, g)
    BY <1>1, GoodGrows DEF g, h
<1>4. s' = s /\ b'.backup = b.backup /\ (s.kind \in LoopKinds => b'.atBreak = b.atBreak)
    OBVIOUS
<1>5. /\ Good(s'.entry, f', c', g)
      /\ s'.kind = "if" => Good(s'.done, f', [c' EXCEPT !.said = @ \cup ToSet(b'.backup)], g)
      /\ s'.kind \in LoopKinds =>
           Good(s'.done, c', [c' EXCEPT !.said = b'.atBreak], g) /\ Good(s'.again, c', c', g)
    BY <1>2, <1>3, <1>4
<1> QED
    BY <1>5 DEF ScopeGood, c, f, g

\* The context at the entry of a body stays when the body stays.
LEMMA EntryKept ==
  ASSUME IInv, InFunction, NEW l \in 1 .. Len(scopes) + 1, jobs' \in Seq(Var),
         l > 1 => /\ scopes'[l - 1].begin = scopes[l - 1].begin /\ bodies'[l].known = bodies[l].known
                  /\ scopes[l - 1].begin <= Len(jobs')
                  /\ \A i \in 1 .. scopes[l - 1].begin : jobs'[i] = jobs[i],
         \A j \in 2 .. l : bodies'[j].backup = bodies[j].backup
  PROVE  EntryOf(l)' = EntryOf(l)
<1>1. l \in Nat /\ l # 0 /\ l >= 1 /\ jobs \in Seq(Var)
    BY Facts
<1>2. ASSUME l > 1 PROVE Outer(jobs, scopes, l) = Outer(jobs', scopes', l) /\ bodies[l].known = bodies'[l].known
  <2> DEFINE n == scopes[l - 1].begin
  <2>1. l - 1 \in 1 .. Len(scopes)
      BY <1>2, Facts
  <2>2. n \in 0 .. Len(jobs) /\ scopes'[l - 1].begin = n /\ n <= Len(jobs') /\ \A i \in 1 .. n : jobs'[i] = jobs[i]
      BY <1>2, <2>1, InnerFacts
  <2> HIDE DEF n
  <2>3. n \in 0 .. Len(jobs')
      BY <1>1, <2>2
  <2>4. ToSet(SubSeq(jobs, 1, n)) = {jobs[i] : i \in 1 .. n}
    <3>1. n \in 0 .. Len(jobs) /\ jobs \in Seq(Var)
        BY <1>1, <2>2
    <3> QED
        BY <3>1, ListStart
  <2>5. ToSet(SubSeq(jobs', 1, n)) = {jobs'[i] : i \in 1 .. n}
      BY <2>3, ListStart
  <2>6. ToSet(SubSeq(jobs', 1, n)) = ToSet(SubSeq(jobs, 1, n))
    <3>1. {jobs[i] : i \in 1 .. n} = {jobs'[i] : i \in 1 .. n}
        BY <2>2
    <3> QED
        BY <2>4, <2>5, <3>1
  <2>7. Outer(jobs, scopes, l) = ToSet(SubSeq(jobs, 1, n)) /\ Outer(jobs', scopes', l) = ToSet(SubSeq(jobs', 1, n))
      BY <1>2, <2>2 DEF Outer, n
  <2> QED
      BY <1>2, <2>6, <2>7
<1>3. Entry(jobs, scopes, bodies, l) = Entry(jobs', scopes', bodies', l)
    BY <1>1, <1>2, EntrySame
<1> QED
    BY <1>3 DEF EntryOf

\* A statement that opens and closes nothing.
LEMMA StatementKeeps ==
  ASSUME IInv, InFunction, scopes' = scopes, bodies' = bodies, jobs' \in Seq(Var),
         Len(jobs) <= Len(jobs'), \A i \in 1 .. Len(jobs) : jobs'[i] = jobs[i],
         Grown(Excuses, Excuses')
  PROVE  /\ ScopesGood'
         /\ EntryOf(Home(scopes, Len(scopes)))' = EntryOf(Home(scopes, Len(scopes)))
<1>1. /\ Len(scopes) \in Nat /\ DOMAIN scopes = 1 .. Len(scopes) /\ Len(jobs) \in Nat /\ Len(jobs') \in Nat
    BY Facts, InnerFacts
<1>2. ASSUME NEW l \in 1 .. Len(scopes) + 1 PROVE EntryOf(l)' = EntryOf(l)
  <2>1. l > 1 => scopes[l - 1].begin \in 0 .. Len(jobs)
    <3>1. l > 1 => l - 1 \in 1 .. Len(scopes)
        BY <1>1
    <3> QED
        BY <3>1, InnerFacts
  <2>2. l > 1 => scopes[l - 1].begin <= Len(jobs') /\ \A i \in 1 .. scopes[l - 1].begin : jobs'[i] = jobs[i]
      BY <1>1, <2>1
  <2> QED
      BY <2>2, EntryKept
<1>3. ASSUME NEW i \in 1 .. Len(scopes) PROVE ScopeGood(i)'
  <2>1. \A l \in 1 .. i + 1 : EntryOf(l)' = EntryOf(l)
      BY <1>1, <1>2
  <2> QED
      BY <1>1, <2>1, ScopeKept
<1>4. ScopesGood'
  <2>1. \A i \in DOMAIN scopes' : ScopeGood(i)'
      BY <1>1, <1>3
  <2> QED
      BY <2>1 DEF ScopesGood
<1>5. Home(scopes, Len(scopes)) \in 1 .. Len(scopes) + 1
    BY <1>1, HomeFacts
<1>6. EntryOf(Home(scopes, Len(scopes)))' = EntryOf(Home(scopes, Len(scopes)))
  <2>1. Home(scopes, Len(scopes))' = Home(scopes, Len(scopes))
      OBVIOUS
  <2> DEFINE l == Home(scopes, Len(scopes))
  <2>2. l \in 1 .. Len(scopes) + 1 /\ l' = l
      BY <1>5, <2>1
  <2> HIDE DEF l
  <2>3. EntryOf(l)' = EntryOf(l)
      BY <1>2, <2>2
  <2> QED
      BY <2>3 DEF l
<1> QED
    BY <1>4, <1>6

\* A statement opens and closes nothing.
LEMMA StatementShape ==
  ASSUME IInv, InFunction, scopes' = scopes, bodies' = bodies, inElse' = inElse,
         jobs' \in Seq(Var), Len(jobs) <= Len(jobs'), IsInjective(jobs'),
         size' \in Nat, returned' \in BOOLEAN, InScope' \subseteq declared',
         declared' \subseteq Var, overDropped' \subseteq Var, selfAssigned' \subseteq Var
  PROVE  Shape' /\ InFunction'
<1>1. InFunction'
    BY DEF InFunction
<1>2. Shape
    BY DEF IInv
<1>3. /\ scopes' \in Seq(Scope) /\ inElse' \in Seq(BOOLEAN) /\ Len(scopes') = Len(inElse')
      /\ Len(bodies') = Len(scopes') + 1
    BY <1>2 DEF Shape
<1>4. \A i \in DOMAIN scopes' :
         /\ bodies'[i + 1].kind = scopes'[i].kind /\ scopes'[i].begin <= Len(jobs')
         /\ \A j \in 1 .. i : scopes'[j].begin <= scopes'[i].begin
  <2> TAKE i \in DOMAIN scopes'
  <2>1. i \in 1 .. Len(scopes)
      BY InnerFacts
  <2>2. /\ bodies[i + 1].kind = scopes[i].kind /\ scopes[i].begin \in 0 .. Len(jobs)
        /\ \A j \in 1 .. i : scopes[j].begin <= scopes[i].begin
      BY <2>1, InnerFacts
  <2>3. Len(jobs) \in Nat /\ Len(jobs') \in Nat
      BY Facts
  <2> QED
      BY <2>2, <2>3
<1> QED
    BY <1>1, <1>3, <1>4 DEF Shape

\* The emitter's types follow from the rest.
LEMMA EmitTypes ==
  ASSUME jobs' \in Seq(Var), loopBegin' \in Nat, destroyScope' \in BOOLEAN, scopes' \in Seq(Scope), CurrentGood'
  PROVE  EmitTypeOK'
<1>1. \A p \in paths' : p \in Path
    BY DEF CurrentGood, Good
<1>2. ASSUME NEW s \in ToSet(scopes')
      PROVE  s.begin \in Nat /\ \A p \in s.entry \cup s.done \cup s.again : p \in Path
  <2>1. s \in Scope
      BY DEF ToSet
  <2> QED
      BY <2>1 DEF Scope
<1> QED
    BY <1>1, <1>2 DEF EmitTypeOK

\* The lists kept for open bodies stay; assignments took moved variables off.
LEMMA KnownKeptStep ==
  ASSUME IInv, InFunction, Len(bodies') = Len(bodies),
         \A n \in OpenBodies : /\ bodies'[n].kind = bodies[n].kind /\ bodies'[n].known = bodies[n].known
                               /\ bodies'[n].begin = bodies[n].begin,
         forgotten \subseteq forgotten', maybeLive \subseteq maybeLive', moved' \in Seq(Var),
         \A n \in OpenBodies : bodies[n].kind # "block" => \A x \in bodies[n].known :
           \/ x \in forgotten' /\ (bodies[n].kind \in LoopKinds => x \in maybeLive')
           \/ \A i \in DOMAIN moved : moved[i] = x => \E k \in DOMAIN moved' : k <= i /\ moved'[k] = x
  PROVE  KnownKept'
<1>1. OpenBodies' = OpenBodies /\ OpenBodies = 2 .. Len(bodies)
    BY DEF OpenBodies
<1>2. KnownKept
    BY DEF IInv
<1> SUFFICES ASSUME NEW n \in OpenBodies, bodies[n].kind # "block", NEW x \in bodies[n].known
             PROVE  \/ Retaken(x, n)'
                    \/ \E i \in DOMAIN moved' : moved'[i] = x /\ \A j \in n .. Len(bodies) : i <= bodies'[j].begin
    BY <1>1 DEF KnownKept
<1>3. CASE Retaken(x, n)
    BY <1>3 DEF Retaken
<1>4. CASE x \in forgotten' /\ (bodies[n].kind \in LoopKinds => x \in maybeLive')
    BY <1>4 DEF Retaken
<1>5. ASSUME NEW i \in DOMAIN moved, moved[i] = x, \A j \in n .. Len(bodies) : i <= bodies[j].begin,
             NEW k \in DOMAIN moved', k <= i, moved'[k] = x
      PROVE  \E z \in DOMAIN moved' : moved'[z] = x /\ \A j \in n .. Len(bodies) : z <= bodies'[j].begin
  <2>1. ASSUME NEW j \in n .. Len(bodies) PROVE k <= bodies'[j].begin
    <3>1. j \in OpenBodies /\ i <= bodies[j].begin
      <4>1. Len(bodies) \in Nat
          BY Facts
      <4> QED
          BY <1>1, <1>5, <4>1
    <3>2. bodies'[j].begin = bodies[j].begin /\ bodies[j].begin \in Nat
      <4>1. bodies[j] \in Body
          BY <3>1, InnerFacts
      <4> QED
          BY <3>1, <4>1 DEF Body
    <3>3. i \in Nat /\ k \in Nat
      <4>1. moved \in Seq(Var)
          BY Facts
      <4> QED
          BY <4>1
    <3> QED
        BY <1>5, <3>1, <3>2, <3>3
  <2> QED
      BY <1>5, <2>1
<1> QED
    BY <1>2, <1>3, <1>4, <1>5 DEF KnownKept

\* What only grows keeps what is said of lists that stay.
LEMMA ListsStay ==
  ASSUME IInv, InFunction, moved' = moved, Len(bodies') = Len(bodies),
         \A n \in OpenBodies : /\ bodies'[n].kind = bodies[n].kind /\ bodies'[n].known = bodies[n].known
                               /\ bodies'[n].begin = bodies[n].begin /\ bodies'[n].backup = bodies[n].backup,
         forgotten \subseteq forgotten', conditional' = conditional, maybeLive' = maybeLive,
         declared \subseteq declared', declared' \subseteq Var
  PROVE  ListDeclared' /\ Doubles' /\ KnownKept'
<1>1. OpenBodies' = OpenBodies /\ OpenBodies = 2 .. Len(bodies)
    BY DEF OpenBodies
<1>2. ListDeclared /\ Doubles
    BY DEF IInv
<1>3. ListDeclared'
    BY <1>1, <1>2 DEF ListDeclared
<1>4. Doubles'
    BY <1>1, <1>2 DEF Doubles
<1>6. KnownKept'
  <2>1. moved \in Seq(Var)
      BY Facts
  <2>2. \A i \in DOMAIN moved : i <= i
      BY <2>1
  <2> QED
      BY <2>1, <2>2, KnownKeptStep
<1> QED
    BY <1>3, <1>4, <1>6

(***************************************************************************)
(* Statements keep the invariant.                                          *)
(***************************************************************************)
\* Marking a variable that is not on the list puts nothing on it twice.
LEMMA TwiceAppend ==
  ASSUME NEW s \in Seq(Var), NEW y \in Var, y \notin ToSet(s), NEW x, Twice(Append(s, y), x)
  PROVE  Twice(s, x)
<1> DEFINE t == Append(s, y)
<1>1. /\ Len(s) \in Nat /\ Len(t) = Len(s) + 1 /\ t[Len(t)] = y
      /\ DOMAIN s = 1 .. Len(s) /\ DOMAIN t = 1 .. Len(t)
      /\ \A i \in 1 .. Len(s) : t[i] = s[i]
    BY ListAppend
<1> HIDE DEF t
<1>2. PICK i \in DOMAIN t, j \in DOMAIN t : i # j /\ t[i] = x /\ t[j] = x
    BY DEF Twice, t
<1>3. \A k \in 1 .. Len(s) : t[k] # y
    BY <1>1 DEF ToSet
<1>4. i \in 1 .. Len(s) /\ j \in 1 .. Len(s)
  <2>1. i \in 1 .. Len(s) \/ i = Len(t)
      BY <1>1, <1>2
  <2>2. j \in 1 .. Len(s) \/ j = Len(t)
      BY <1>1, <1>2
  <2> QED
      BY <1>1, <1>2, <1>3, <2>1, <2>2
<1> QED
    BY <1>1, <1>2, <1>4 DEF Twice

\* x was put on the list.
LEMMA ListsMarked ==
  ASSUME IInv, InFunction, NEW x \in Var, x \notin ToSet(moved), moved' = Append(moved, x),
         bodies' = bodies, forgotten' = forgotten, conditional' = conditional, maybeLive' = maybeLive,
         declared \subseteq declared', x \in declared', declared' \subseteq Var
  PROVE  CheckTypeOK' /\ ListDeclared' /\ Doubles' /\ KnownKept'
<1>1. OpenBodies' = OpenBodies /\ OpenBodies = 2 .. Len(bodies)
    BY DEF OpenBodies
<1>2. ListDeclared /\ Doubles /\ CheckTypeOK /\ moved \in Seq(Var)
    BY Facts DEF IInv
<1>3. /\ moved' \in Seq(Var) /\ ToSet(moved') = ToSet(moved) \cup {x}
      /\ DOMAIN moved = 1 .. Len(moved) /\ DOMAIN moved' = 1 .. Len(moved) + 1 /\ Len(moved) \in Nat
      /\ \A i \in 1 .. Len(moved) : moved'[i] = moved[i]
    BY <1>2, ListAppend, AppendSet
<1>4. CheckTypeOK'
    BY <1>2, <1>3 DEF CheckTypeOK
<1>5. ListDeclared'
    BY <1>1, <1>2, <1>3 DEF ListDeclared
<1>6. \A y : Twice(moved', y) => Twice(moved, y)
    BY <1>2, TwiceAppend
<1>7. Doubles'
    BY <1>1, <1>2, <1>6 DEF Doubles
<1>8. KnownKept'
  <2>1. \A i \in DOMAIN moved : i <= i /\ i \in DOMAIN moved'
      BY <1>3
  <2>2. \A n \in OpenBodies : bodies[n].kind # "block" => \A y \in bodies[n].known :
           \A i \in DOMAIN moved : moved[i] = y => \E k \in DOMAIN moved' : k <= i /\ moved'[k] = y
      BY <1>3, <2>1
  <2> QED
      BY <1>3, <2>2, KnownKeptStep
<1> QED
    BY <1>4, <1>5, <1>7, <1>8

\* What lets a statement follow.
LEMMA OpenFacts ==
  ASSUME IInv, Statement
  PROVE  /\ InFunction /\ destroyScope = TRUE /\ returned = FALSE
         /\ size' \in Nat /\ inElse' = inElse
<1>1. InFunction /\ destroyScope /\ size' = size + 1 /\ inElse' = inElse
    BY DEF Statement, Open
<1>2. size \in Nat /\ destroyScope \in BOOLEAN /\ returned \in BOOLEAN
    BY Facts DEF IInv, Shape
<1>3. ~returned
    BY <1>1 DEF IInv, Jumped
<1> QED
    BY <1>1, <1>2, <1>3

\* Where a statement can follow, nothing is said of stopped runs.
LEMMA JumpedOpen ==
  ASSUME returned' = FALSE, destroyScope' = TRUE
  PROVE  Jumped'
  BY DEF Jumped

\* loop_job_begin_index stays in bounds when loops stay.
LEMMA LoopBeginsSame ==
  ASSUME IInv, scopes' = scopes, loopBegin' = loopBegin
  PROVE  LoopBegins'
<1>1. LoopBegins
    BY DEF IInv
<1> QED
    BY <1>1 DEF LoopBegins, FirstJob

\* take(x) keeps the invariant.
LEMMA MoveIntoKeeps ==
  ASSUME IInv, NEW x \in Var, MoveInto(x)
  PROVE  IInv'
<1>1. /\ Statement /\ x \in InScope /\ x \notin ToSet(moved) /\ moved' = Append(moved, x)
      /\ bodies' = bodies /\ forgotten' = forgotten /\ conditional' = conditional /\ maybeLive' = maybeLive
      /\ paths' = After(<<C("move", x)>>, paths)
      /\ jobs' = jobs /\ loopBegin' = loopBegin /\ destroyScope' = destroyScope /\ scopes' = scopes
      /\ declared' = declared /\ returned' = returned /\ overDropped' = overDropped /\ selfAssigned' = selfAssigned
    BY DEF MoveInto, CheckMove, EmitMove, history, Usable, Marked
<1>2. /\ InFunction /\ destroyScope = TRUE /\ returned = FALSE /\ size' \in Nat /\ inElse' = inElse
    BY <1>1, OpenFacts
<1>3. /\ moved \in Seq(Var) /\ jobs \in Seq(Var) /\ Len(jobs) \in Nat /\ IsInjective(jobs)
      /\ InScope \subseteq declared /\ InScope \subseteq Var
      /\ declared \subseteq Var /\ overDropped \subseteq Var /\ selfAssigned \subseteq Var
      /\ loopBegin \in Nat /\ scopes \in Seq(Scope)
      /\ Here.scope = InScope
      /\ Here.list = ToSet(moved) /\ Here.said = ToSet(moved) /\ Here.kept = Kept(bodies, Len(bodies))
    BY Facts
<1>4. Grown(Excuses, Excuses') /\ Excuses' = Excuses
  <2>1. Excuses' = Excuses
      BY <1>1 DEF Excuses
  <2> QED
      BY <2>1 DEF Grown
<1>5. InScope' = InScope
    BY <1>1 DEF InScope
<1>6. Shape'
  <2>1. Len(jobs) <= Len(jobs')
      BY <1>1, <1>3
  <2> QED
      BY <1>1, <1>2, <1>3, <1>5, <2>1, StatementShape
<1>7. CheckTypeOK' /\ ListDeclared' /\ Doubles' /\ KnownKept'
    BY <1>1, <1>2, <1>3, ListsMarked
<1>8. ScopesGood' /\ EntryOf(Home(scopes, Len(scopes)))' = EntryOf(Home(scopes, Len(scopes)))
    BY <1>1, <1>2, <1>3, <1>4, StatementKeeps
<1>9. CurrentGood'
  <2>1. Good(paths, EntryOf(Home(scopes, Len(scopes))), Here, Excuses)
      BY DEF IInv, CurrentGood
  <2>2. /\ Here'.scope = Here.scope /\ Here'.kept = Here.kept
        /\ Here'.list = Here.list \cup {x} /\ Here'.said = Here.said \cup {x}
    <3>1. ToSet(moved') = ToSet(moved) \cup {x}
        BY <1>1, <1>3, AppendSet
    <3> QED
        BY <1>1, <1>3, <1>5, <3>1 DEF Here, Context
  <2>3. Good(After(<<C("move", x)>>, paths), EntryOf(Home(scopes, Len(scopes))), Here', Excuses)
      BY <1>1, <1>3, <2>1, <2>2, GoodMove
  <2> QED
      BY <1>1, <1>4, <1>8, <2>3 DEF CurrentGood
<1>10. EmitTypeOK'
    BY <1>1, <1>2, <1>3, <1>9, EmitTypes
<1>11. Jumped' /\ LoopBegins'
    BY <1>1, <1>2, JumpedOpen, LoopBeginsSame
<1> QED
    BY <1>6, <1>7, <1>8, <1>9, <1>10, <1>11 DEF IInv

\* return keeps the invariant.
LEMMA ReturnKeeps ==
  ASSUME IInv, NEW x \in Var \cup {NoVar}, Return(x)
  PROVE  IInv'
<1>1. /\ Statement /\ x \in InScope \cup {NoVar} /\ (x # NoVar => x \notin ToSet(moved))
      /\ moved' = moved /\ bodies' = bodies /\ forgotten' = forgotten /\ conditional' = conditional
      /\ maybeLive' = maybeLive
      /\ paths' = Stopped(After(ReturnCode(x), paths)) /\ destroyScope' = FALSE
      /\ jobs' = jobs /\ loopBegin' = loopBegin /\ scopes' = scopes /\ returned' = TRUE
      /\ declared' = declared /\ overDropped' = overDropped /\ selfAssigned' = selfAssigned
    BY DEF Return, checkVars, EmitReturn, history, Usable
<1>2. /\ InFunction /\ size' \in Nat /\ inElse' = inElse
    BY <1>1, OpenFacts
<1>3. /\ moved \in Seq(Var) /\ jobs \in Seq(Var) /\ Len(jobs) \in Nat /\ IsInjective(jobs)
      /\ InScope \subseteq declared /\ InScope \subseteq Var
      /\ declared \subseteq Var /\ overDropped \subseteq Var /\ selfAssigned \subseteq Var
      /\ loopBegin \in Nat /\ scopes \in Seq(Scope)
      /\ Here.scope = InScope /\ Here.said = ToSet(moved)
    BY Facts
<1>4. Grown(Excuses, Excuses') /\ Excuses' = Excuses
  <2>1. Excuses' = Excuses
      BY <1>1 DEF Excuses
  <2> QED
      BY <2>1 DEF Grown
<1>5. InScope' = InScope
    BY <1>1 DEF InScope
<1>6. Shape'
    BY <1>1, <1>2, <1>3, <1>5, StatementShape
<1>7. ListDeclared' /\ Doubles' /\ KnownKept'
    BY <1>1, <1>2, <1>3, ListsStay
<1>8. ScopesGood' /\ EntryOf(Home(scopes, Len(scopes)))' = EntryOf(Home(scopes, Len(scopes)))
    BY <1>1, <1>2, <1>3, <1>4, StatementKeeps
<1>9. CurrentGood'
  <2>1. Good(paths, EntryOf(Home(scopes, Len(scopes))), Here, Excuses)
      BY DEF IInv, CurrentGood
  <2>2. Here.scope = ToSet(jobs)
      BY <1>3 DEF InScope
  <2>3. x \in Var => x \in Here.scope /\ x \notin Here.said
      BY <1>1, <1>3, VarAssumption
  <2>4. Good(Stopped(After(ReturnCode(x), paths)), EntryOf(Home(scopes, Len(scopes))), Here', Excuses)
      BY <1>3, <2>1, <2>2, <2>3, GoodReturn, SaneExcuses
  <2> QED
      BY <1>1, <1>4, <1>8, <2>4 DEF CurrentGood
<1>10. EmitTypeOK'
    BY <1>1, <1>2, <1>3, <1>9, EmitTypes
<1>11. Jumped'
  <2>1. \A p \in paths' : ~Running(p.now)
      BY <1>1 DEF Stopped
  <2> QED
      BY <1>1, <2>1 DEF Jumped
<1>12. LoopBegins'
    BY <1>1, LoopBeginsSame
<1>13. CheckTypeOK'
  <2>1. CheckTypeOK
      BY DEF IInv
  <2> QED
      BY <1>1, <2>1 DEF CheckTypeOK
<1> QED
    BY <1>6, <1>7, <1>8, <1>9, <1>10, <1>11, <1>12, <1>13 DEF IInv

\* var x = y keeps the invariant.
LEMMA DeclareKeeps ==
  ASSUME IInv, NEW x \in Var, NEW y \in Var \cup {NoVar}, Declare(x, y)
  PROVE  IInv'
<1>1. /\ Statement /\ x \notin declared /\ y \in InScope \cup {NoVar}
      /\ bodies' = bodies /\ forgotten' = forgotten /\ conditional' = conditional /\ maybeLive' = maybeLive
      /\ y = NoVar => moved' = moved
      /\ y # NoVar => y \notin ToSet(moved) /\ moved' = Append(moved, y)
      /\ paths' = After(DeclareCode(x, y), paths)
      /\ jobs' = Append(jobs, x) /\ loopBegin' = loopBegin /\ destroyScope' = destroyScope /\ scopes' = scopes
      /\ declared' = declared \cup {x}
      /\ returned' = returned /\ overDropped' = overDropped /\ selfAssigned' = selfAssigned
    BY DEF Declare, CheckMove, checkVars, EmitDeclare, history, Usable, Marked
<1>2. /\ InFunction /\ destroyScope = TRUE /\ returned = FALSE /\ size' \in Nat /\ inElse' = inElse
    BY <1>1, OpenFacts
<1>3. /\ moved \in Seq(Var) /\ jobs \in Seq(Var) /\ Len(jobs) \in Nat /\ IsInjective(jobs)
      /\ InScope \subseteq declared /\ InScope \subseteq Var
      /\ declared \subseteq Var /\ overDropped \subseteq Var /\ selfAssigned \subseteq Var
      /\ loopBegin \in Nat /\ scopes \in Seq(Scope) /\ bodies \in Seq(Body)
      /\ Here.scope = InScope
      /\ Here.list = ToSet(moved) /\ Here.said = ToSet(moved) /\ Here.kept = Kept(bodies, Len(bodies))
    BY Facts
<1>4. Grown(Excuses, Excuses') /\ Excuses' = Excuses
  <2>1. Excuses' = Excuses
      BY <1>1 DEF Excuses
  <2> QED
      BY <2>1 DEF Grown
<1>5. /\ jobs' \in Seq(Var) /\ Len(jobs') = Len(jobs) + 1 /\ jobs'[Len(jobs')] = x
      /\ DOMAIN jobs = 1 .. Len(jobs) /\ DOMAIN jobs' = 1 .. Len(jobs')
      /\ \A i \in 1 .. Len(jobs) : jobs'[i] = jobs[i]
      /\ ToSet(jobs') = ToSet(jobs) \cup {x}
    BY <1>1, <1>3, ListAppend, AppendSet
<1>6. InScope' = InScope \cup {x} /\ InScope' \subseteq declared' /\ declared' \subseteq Var
    BY <1>1, <1>3, <1>5 DEF InScope
<1>7. IsInjective(jobs')
  <2>1. \A i \in 1 .. Len(jobs) : jobs[i] # x
      BY <1>1, <1>3, <1>5 DEF InScope, ToSet
  <2> SUFFICES ASSUME NEW i \in DOMAIN jobs', NEW j \in DOMAIN jobs', jobs'[i] = jobs'[j]
               PROVE  i = j
      BY DEF IsInjective
  <2>2. (i \in 1 .. Len(jobs) \/ i = Len(jobs')) /\ (j \in 1 .. Len(jobs) \/ j = Len(jobs'))
      BY <1>3, <1>5
  <2> QED
      BY <1>3, <1>5, <2>1, <2>2 DEF IsInjective
<1>8. Shape'
  <2>1. Len(jobs) <= Len(jobs')
      BY <1>3, <1>5
  <2> QED
      BY <1>1, <1>2, <1>3, <1>5, <1>6, <1>7, <2>1, StatementShape
<1>9. CheckTypeOK' /\ ListDeclared' /\ Doubles' /\ KnownKept'
  <2>1. CASE y = NoVar
    <3>1. ListDeclared' /\ Doubles' /\ KnownKept'
        BY <1>1, <1>2, <1>3, <1>6, <2>1, ListsStay
    <3>2. CheckTypeOK
        BY DEF IInv
    <3>3. CheckTypeOK'
        BY <1>1, <2>1, <3>2 DEF CheckTypeOK
    <3> QED
        BY <3>1, <3>3
  <2>2. CASE y # NoVar
    <3>1. y \in Var /\ y \in declared'
        BY <1>1, <1>3, <2>2
    <3> QED
        BY <1>1, <1>2, <1>6, <2>2, <3>1, ListsMarked
  <2> QED
      BY <2>1, <2>2
<1>10. ScopesGood' /\ EntryOf(Home(scopes, Len(scopes)))' = EntryOf(Home(scopes, Len(scopes)))
  <2>1. Len(jobs) <= Len(jobs')
      BY <1>3, <1>5
  <2> QED
      BY <1>1, <1>2, <1>4, <1>5, <2>1, StatementKeeps
<1>11. CurrentGood'
  <2> DEFINE f == EntryOf(Home(scopes, Len(scopes)))
  <2>1. Good(paths, f, Here, Excuses)
      BY DEF IInv, CurrentGood
  <2>2. /\ Here'.scope = InScope \cup {x} /\ Here'.kept = Kept(bodies, Len(bodies))
        /\ Here'.list = ToSet(moved') /\ Here'.said = ToSet(moved')
      BY <1>1, <1>6 DEF Here, Context
  <2>3. x \notin InScope /\ x \notin ToSet(moved) \ Excuses.clash
    <3>1. x \in ToSet(moved) => x \in conditional \cup maybeLive
        BY <1>1 DEF IInv, ListDeclared
    <3> QED
        BY <1>1, <1>3, <3>1 DEF Excuses
  <2>4. \A j \in DOMAIN Here.kept : x \in Here.kept[j] => x \in Excuses.clash
    <3> TAKE j \in DOMAIN Here.kept
    <3>1. j \in OpenBodies /\ Here.kept[j] = ToSet(bodies[j].backup)
        BY <1>3 DEF Kept, OpenBodies
    <3> QED
        BY <1>1, <3>1 DEF IInv, ListDeclared, Excuses
  <2> HIDE DEF f
  <2>5. CASE y = NoVar
    <3>1. DeclareCode(x, y) = <<C("init", x)>>
      <4>1. C("init", x) \in Code
          BY CIs DEF Ops
      <4>2. <<C("init", x)>> \in Seq(Code)
          BY <4>1
      <4>3. <<>> \o <<C("init", x)>> = <<C("init", x)>>
          BY <4>2, ConcatEmptySeq
      <4> QED
          BY <2>5, <4>3 DEF DeclareCode
    <3>2. Good(After(<<C("init", x)>>, paths), f, Here', Excuses)
        BY <1>1, <1>3, <2>1, <2>2, <2>3, <2>4, <2>5, GoodInit
    <3> QED
        BY <1>1, <1>4, <1>10, <3>1, <3>2 DEF CurrentGood, f
  <2>6. CASE y # NoVar
    <3>1. y \in Var /\ y \in InScope /\ y \notin ToSet(moved) /\ y # x
        BY <1>1, <1>3, <2>6
    <3> DEFINE d == Context(InScope, ToSet(moved'), ToSet(moved'), Kept(bodies, Len(bodies)))
    <3>2. ToSet(moved') = ToSet(moved) \cup {y}
      <4>1. moved \in Seq(Var) /\ moved' = Append(moved, y) /\ y \in Var
          BY <1>1, <1>3, <2>6, <3>1
      <4> QED
          BY <4>1, AppendSet
    <3>3. /\ d.scope = InScope /\ d.kept = Kept(bodies, Len(bodies))
          /\ d.list = ToSet(moved) \cup {y} /\ d.said = ToSet(moved) \cup {y}
        BY <3>2 DEF Context
    <3> HIDE DEF d
    <3>4. Good(After(<<C("move", y)>>, paths), f, d, Excuses)
        BY <1>3, <2>1, <3>1, <3>3, GoodMove
    <3>5. Good(After(<<C("init", x)>>, After(<<C("move", y)>>, paths)), f, Here', Excuses)
      <4>1. x \notin d.scope /\ d.scope \subseteq Var /\ (x \in d.list => x \in Excuses.clash)
          BY <1>3, <2>3, <3>1, <3>3
      <4>2. \A j \in DOMAIN d.kept : x \in d.kept[j] => x \in Excuses.clash
          BY <1>3, <2>4, <3>3
      <4>3. /\ Here'.scope = d.scope \cup {x} /\ Here'.kept = d.kept
            /\ Here'.list = d.list /\ Here'.said = d.said
          BY <2>2, <3>2, <3>3
      <4> QED
          BY <3>4, <4>1, <4>2, <4>3, GoodInit
    <3>6. After(DeclareCode(x, y), paths) = After(<<C("init", x)>>, After(<<C("move", y)>>, paths))
      <4>1. <<C("init", x)>> \in Seq(Code) /\ <<C("move", y)>> \in Seq(Code)
        <5>1. C("init", x) \in Code /\ C("move", y) \in Code
            BY <3>1, CIs DEF Ops
        <5> QED
            BY <5>1
      <4>2. DeclareCode(x, y) = <<C("move", y)>> \o <<C("init", x)>>
          BY <2>6 DEF DeclareCode
      <4>3. paths \in SUBSET Path
          BY <2>1 DEF Good
      <4> QED
          BY <4>1, <4>2, <4>3, AfterAppend
    <3> QED
        BY <1>1, <1>4, <1>10, <3>5, <3>6 DEF CurrentGood, f
  <2> QED
      BY <2>5, <2>6
<1>12. EmitTypeOK'
    BY <1>1, <1>2, <1>3, <1>5, <1>11, EmitTypes
<1>13. Jumped' /\ LoopBegins'
    BY <1>1, <1>2, JumpedOpen, LoopBeginsSame
<1> QED
    BY <1>8, <1>9, <1>10, <1>11, <1>12, <1>13 DEF IInv

\* t is s without one of its x.
Without(t, s, x) ==
  /\ t \in Seq(Var)
  /\ \A z \in Var \ {x} : z \in ToSet(t) <=> z \in ToSet(s)
  /\ x \in ToSet(t) => Twice(s, x)
  /\ \A z \in Var : Twice(t, z) => Twice(s, z)
  /\ \A i \in DOMAIN s : s[i] # x => \E j \in DOMAIN t : j <= i /\ t[j] = s[i]

\* un_move_exact_id removes one entry and keeps the order of the others.
LEMMA RemoveIs ==
  ASSUME NEW s \in Seq(Var), NEW x \in Var, NEW t, t = RemoveFirst(s, x)
  PROVE  Without(t, s, x)
<1>1. Len(s) \in Nat /\ DOMAIN s = 1 .. Len(s)
    OBVIOUS
<1>2. CASE x \notin ToSet(s)
  <2>1. t = s
      BY <1>2, ListRemove
  <2>2. \A i \in DOMAIN s : i <= i
      BY <1>1
  <2> QED
      BY <1>2, <2>1, <2>2 DEF Without
<1>3. CASE x \in ToSet(s)
  <2>1. PICK k \in 1 .. Len(s) :
               /\ s[k] = x /\ t \in Seq(Var) /\ Len(t) = Len(s) - 1
               /\ \A i \in 1 .. (k - 1) : t[i] = s[i]
               /\ \A i \in k .. (Len(s) - 1) : t[i] = s[i + 1]
      BY <1>3, ListRemove
  <2>2. DOMAIN t = 1 .. (Len(s) - 1)
      BY <2>1
  <2> DEFINE g(i) == IF i < k THEN i ELSE i + 1
  <2>3. ASSUME NEW i \in DOMAIN t PROVE g(i) \in DOMAIN s /\ g(i) # k /\ t[i] = s[g(i)]
    <3>1. i \in 1 .. (k - 1) \/ i \in k .. (Len(s) - 1)
        BY <1>1, <2>2
    <3> QED
        BY <1>1, <2>1, <2>2, <3>1
  <2>4. ASSUME NEW i \in DOMAIN s, i # k PROVE \E j \in DOMAIN t : j <= i /\ t[j] = s[i]
    <3>1. CASE i < k
      <4>1. i \in 1 .. (k - 1) /\ i \in DOMAIN t /\ i <= i
          BY <1>1, <2>2, <3>1
      <4> QED
          BY <2>1, <4>1
    <3>2. CASE i > k
      <4>1. i - 1 \in k .. (Len(s) - 1) /\ i - 1 \in DOMAIN t /\ i - 1 <= i /\ (i - 1) + 1 = i
          BY <1>1, <2>2, <3>2
      <4>2. t[i - 1] = s[(i - 1) + 1]
          BY <2>1, <4>1
      <4> QED
          BY <4>1, <4>2
    <3> QED
        BY <1>1, <2>4, <3>1, <3>2
  <2>5. \A i, j \in DOMAIN t : i # j => g(i) # g(j)
      BY <1>1, <2>2
  <2> HIDE DEF g
  <2>6. ASSUME NEW z, Twice(t, z) PROVE Twice(s, z)
    <3>1. PICK i \in DOMAIN t, j \in DOMAIN t : i # j /\ t[i] = z /\ t[j] = z
        BY <2>6 DEF Twice
    <3>2. /\ g(i) \in DOMAIN s /\ g(j) \in DOMAIN s /\ g(i) # g(j)
          /\ s[g(i)] = z /\ s[g(j)] = z
        BY <2>3, <2>5, <3>1
    <3> QED
        BY <3>2 DEF Twice
  <2>7. ASSUME x \in ToSet(t) PROVE Twice(s, x)
    <3>1. PICK i \in DOMAIN t : t[i] = x
        BY <2>7 DEF ToSet
    <3>2. g(i) \in DOMAIN s /\ g(i) # k /\ s[g(i)] = x
        BY <2>3, <3>1
    <3> QED
        BY <1>1, <2>1, <3>2 DEF Twice
  <2>8. ASSUME NEW z \in Var \ {x} PROVE z \in ToSet(t) <=> z \in ToSet(s)
    <3>1. z \in ToSet(t) => z \in ToSet(s)
        BY <2>3 DEF ToSet
    <3>2. ASSUME z \in ToSet(s) PROVE z \in ToSet(t)
      <4>1. PICK i \in DOMAIN s : s[i] = z
          BY <3>2 DEF ToSet
      <4>2. i # k
          BY <2>1, <4>1
      <4> QED
          BY <2>4, <4>1, <4>2 DEF ToSet
    <3> QED
        BY <3>1, <3>2
  <2>9. \A i \in DOMAIN s : s[i] # x => \E j \in DOMAIN t : j <= i /\ t[j] = s[i]
      BY <2>1, <2>4
  <2>10. t \in Seq(Var)
      BY <2>1
  <2> QED
      BY <2>6, <2>7, <2>8, <2>9, <2>10 DEF Without
<1> QED
    BY <1>2, <1>3

\* t is s after the assignment x = y, and a before x comes off.
Assigned(t, a, s, x, y) ==
  /\ t \in Seq(Var)
  /\ x \in ToSet(a) <=> x \in ToSet(s) \/ x = y
  /\ \A z \in Var \ {x} : z \in ToSet(t) <=> z \in ToSet(s) \/ z = y
  /\ x \in ToSet(t) => Twice(s, x) /\ x \in ToSet(s)
  /\ \A z \in Var : Twice(t, z) => Twice(s, z)
  /\ \A i \in DOMAIN s : s[i] # x => \E k \in DOMAIN t : k <= i /\ t[k] = s[i]

\* The list after x = y: y was marked, then the first entry for x went.
LEMMA AssignList ==
  ASSUME NEW s \in Seq(Var), NEW x \in Var, NEW y \in Var \cup {NoVar}, y \in Var => y \notin ToSet(s),
         NEW a, a = IF y = NoVar THEN s ELSE Append(s, y), NEW t, t = RemoveFirst(a, x)
  PROVE  Assigned(t, a, s, x, y)
<1>0. NoVar \notin Var
    BY VarAssumption
<1>1. a \in Seq(Var) /\ \A z \in Var : z \in ToSet(a) <=> z \in ToSet(s) \/ z = y
  <2>1. CASE y = NoVar
      BY <1>0, <2>1
  <2>2. CASE y # NoVar
    <3>1. y \in Var /\ a = Append(s, y)
        BY <2>2
    <3>2. ToSet(a) = ToSet(s) \cup {y}
        BY <3>1, AppendSet
    <3>3. a \in Seq(Var)
        BY <3>1, ListAppend
    <3> QED
        BY <3>2, <3>3
  <2> QED
      BY <2>1, <2>2
<1>2. \A z \in Var : Twice(a, z) => Twice(s, z)
  <2>1. CASE y = NoVar
      BY <2>1
  <2>2. CASE y # NoVar
    <3>1. y \in Var /\ a = Append(s, y) /\ y \notin ToSet(s)
        BY <2>2
    <3> QED
        BY <3>1, TwiceAppend
  <2> QED
      BY <2>1, <2>2
<1>3. \A i \in DOMAIN s : i \in DOMAIN a /\ a[i] = s[i]
  <2>1. CASE y = NoVar
      BY <2>1
  <2>2. CASE y # NoVar
    <3>1. y \in Var /\ a = Append(s, y)
        BY <2>2
    <3>2. /\ Len(s) \in Nat /\ DOMAIN s = 1 .. Len(s) /\ DOMAIN a = 1 .. Len(s) + 1
          /\ \A i \in 1 .. Len(s) : a[i] = s[i]
        BY <3>1, ListAppend
    <3> QED
        BY <3>2
  <2> QED
      BY <2>1, <2>2
<1>4. Without(t, a, x)
  <2>1. a \in Seq(Var)
      BY <1>1
  <2> QED
      BY <2>1, RemoveIs
<1>5. Twice(s, x) => x \in ToSet(s)
    BY DEF Twice, ToSet
<1> QED
    BY <1>1, <1>2, <1>3, <1>4, <1>5 DEF Without, Assigned

\* x = y keeps the invariant.
LEMMA AssignKeeps ==
  ASSUME IInv, NEW x \in Var, NEW y \in Var \cup {NoVar}, Assign(x, y)
  PROVE  IInv'
<1> DEFINE after == IF y = NoVar THEN moved ELSE Append(moved, y)
           off == IF x \in ToSet(moved) THEN {x} ELSE {}
           outer == IF off # {} THEN EnteredSince(x) ELSE {}
<1>1. /\ Statement /\ x \in InScope /\ y \in InScope \cup {NoVar} /\ (y # NoVar => y \notin ToSet(moved))
      /\ moved' = RemoveFirst(after, x)
      /\ forgotten' = forgotten \cup (IF outer # {} THEN {x} ELSE {})
      /\ maybeLive' = maybeLive \cup (off \cap conditional)
                       \cup (IF \E b \in outer : b.kind \in LoopKinds THEN {x} ELSE {})
      /\ conditional' = conditional \ off
      /\ bodies' = bodies
      /\ paths' = After(AssignCode(x, y, x \in ToSet(after)), paths)
      /\ jobs' = jobs /\ loopBegin' = loopBegin /\ destroyScope' = destroyScope /\ scopes' = scopes
      /\ selfAssigned' = selfAssigned \cup ({x} \cap {y})
      /\ declared' = declared /\ returned' = returned /\ overDropped' = overDropped
    BY DEF Assign, CheckAssign, EmitAssign, Usable, Marked, UnMoved, LhsWasMoved
<1>2. /\ InFunction /\ destroyScope = TRUE /\ returned = FALSE /\ size' \in Nat /\ inElse' = inElse
    BY <1>1, OpenFacts
<1>3. /\ moved \in Seq(Var) /\ jobs \in Seq(Var) /\ Len(jobs) \in Nat /\ IsInjective(jobs)
      /\ InScope \subseteq declared /\ InScope \subseteq Var
      /\ declared \subseteq Var /\ overDropped \subseteq Var /\ selfAssigned \subseteq Var
      /\ forgotten \subseteq Var /\ conditional \subseteq Var /\ maybeLive \subseteq Var
      /\ loopBegin \in Nat /\ scopes \in Seq(Scope) /\ bodies \in Seq(Body) /\ Len(scopes) \in Nat
      /\ Here.scope = InScope
      /\ Here.list = ToSet(moved) /\ Here.said = ToSet(moved) /\ Here.kept = Kept(bodies, Len(bodies))
    BY Facts
<1>4. y \in Var => y \notin ToSet(moved)
    BY <1>1, VarAssumption
<1>5. /\ moved' \in Seq(Var)
      /\ x \in ToSet(after) <=> x \in ToSet(moved) \/ x = y
      /\ \A z \in Var \ {x} : z \in ToSet(moved') <=> z \in ToSet(moved) \/ z = y
      /\ x \in ToSet(moved') => Twice(moved, x) /\ x \in ToSet(moved)
      /\ \A z \in Var : Twice(moved', z) => Twice(moved, z)
      /\ \A i \in DOMAIN moved : moved[i] # x => \E k \in DOMAIN moved' : k <= i /\ moved'[k] = moved[i]
  <2>1. moved \in Seq(Var) /\ moved' = RemoveFirst(after, x)
      BY <1>1, <1>3
  <2>2. after = IF y = NoVar THEN moved ELSE Append(moved, y)
      OBVIOUS
  <2> DEFINE t == moved'
  <2>3. t = RemoveFirst(after, x)
      BY <2>1
  <2> HIDE DEF after, t
  <2>4. Assigned(t, after, moved, x, y)
      BY <1>4, <2>1, <2>2, <2>3, AssignList
  <2> QED
      BY <2>4 DEF t, Assigned
<1> HIDE DEF after
<1>6. /\ forgotten \subseteq forgotten' /\ maybeLive \subseteq maybeLive'
      /\ conditional \cup maybeLive \subseteq conditional' \cup maybeLive'
      /\ x \in ToSet(moved) /\ x \in conditional \cup maybeLive => x \in maybeLive'
      /\ forgotten' \subseteq Var /\ conditional' \subseteq Var /\ maybeLive' \subseteq Var
    BY <1>1, <1>3
<1>7. Grown(Excuses, Excuses')
    BY <1>1, <1>6, ExcusesGrow
<1>8. Shape'
  <2>1. Len(jobs) <= Len(jobs') /\ InScope' = InScope
      BY <1>1, <1>3 DEF InScope
  <2>2. selfAssigned' \subseteq Var
      BY <1>1, <1>3
  <2> QED
      BY <1>1, <1>2, <1>3, <2>1, <2>2, StatementShape
<1>9. ListDeclared' /\ Doubles'
  <2>1. OpenBodies' = OpenBodies
      BY <1>1 DEF OpenBodies
  <2>2. ListDeclared /\ Doubles
      BY DEF IInv
  <2>3. ASSUME NEW z \in Var \ declared, z \in ToSet(moved') PROVE z \in ToSet(moved)
      BY <1>1, <1>3, <1>5, <2>3, VarAssumption
  <2>4. ListDeclared'
      BY <1>1, <1>6, <2>1, <2>2, <2>3 DEF ListDeclared
  <2>5. Doubles'
      BY <1>1, <1>5, <1>6, <2>1, <2>2 DEF Doubles
  <2> QED
      BY <2>4, <2>5
<1>10. ASSUME NEW n \in OpenBodies, bodies[n].kind # "block", x \in bodies[n].known, x \in ToSet(moved)
       PROVE  x \in forgotten' /\ (bodies[n].kind \in LoopKinds => x \in maybeLive')
  <2>1. bodies[n] \in EnteredSince(x)
    <3>1. bodies[n].kind \in LoopKinds \cup {"if"}
      <4>1. n \in 2 .. Len(scopes) + 1
          BY <1>2, InnerFacts
      <4>2. bodies[n].kind \in BodyKinds \ {"function"}
          BY <1>2, <4>1, InnerFacts
      <4> QED
          BY <1>10, <4>2 DEF BodyKinds
    <3>2. bodies[n] \in ToSet(bodies)
      <4>1. n \in 2 .. Len(scopes) + 1 /\ DOMAIN bodies = 1 .. Len(scopes) + 1
          BY <1>2, InnerFacts
      <4>2. n \in DOMAIN bodies
          BY <1>3, <4>1
      <4> QED
          BY <4>2 DEF ToSet
    <3> QED
        BY <1>10, <3>1, <3>2 DEF EnteredSince
  <2>2. bodies[n] \in outer
      BY <1>10, <2>1
  <2> HIDE DEF outer
  <2> QED
      BY <1>1, <2>2
<1>11. KnownKept'
  <2>1. \A n \in OpenBodies : bodies[n].kind # "block" => \A z \in bodies[n].known :
           \/ z \in forgotten' /\ (bodies[n].kind \in LoopKinds => z \in maybeLive')
           \/ \A i \in DOMAIN moved : moved[i] = z => \E k \in DOMAIN moved' : k <= i /\ moved'[k] = z
    <3> SUFFICES ASSUME NEW n \in OpenBodies, bodies[n].kind # "block", NEW z \in bodies[n].known,
                        NEW i \in DOMAIN moved, moved[i] = z
                 PROVE  \/ z \in forgotten' /\ (bodies[n].kind \in LoopKinds => z \in maybeLive')
                        \/ \E k \in DOMAIN moved' : k <= i /\ moved'[k] = z
        OBVIOUS
    <3>1. CASE z = x
      <4>1. x \in ToSet(moved)
          BY <3>1 DEF ToSet
      <4> QED
          BY <1>10, <3>1, <4>1
    <3>2. CASE z # x
        BY <1>5, <3>2
    <3> QED
        BY <3>1, <3>2
  <2> QED
      BY <1>1, <1>2, <1>5, <1>6, <2>1, KnownKeptStep
<1>12. ScopesGood' /\ EntryOf(Home(scopes, Len(scopes)))' = EntryOf(Home(scopes, Len(scopes)))
    BY <1>1, <1>2, <1>3, <1>7, StatementKeeps
<1> HIDE DEF off, outer
<1>13. CurrentGood'
  <2> DEFINE l == Home(scopes, Len(scopes))
             f == EntryOf(l)
             w == x \in ToSet(after)
  <2>1. Good(paths, f, Here, Excuses)
      BY DEF IInv, CurrentGood
  <2>2. /\ Here'.scope = Here.scope /\ Here'.kept = Here.kept
        /\ Here'.list = ToSet(moved') /\ Here'.said = ToSet(moved')
      BY <1>1, <1>3 DEF Here, Context, InScope
  <2>3. x \in ToSet(moved) /\ x \in f.list => x \in maybeLive'
    <3>1. f.list = Known(bodies, l)
        BY EntryIs DEF EntryOf
    <3>2. l > 1 => bodies[l].kind \in LoopKinds /\ l \in 2 .. Len(scopes) + 1
      <4>1. Len(scopes) \in 0 .. Len(scopes)
          BY <1>3
      <4>2. /\ l \in 1 .. Len(scopes) + 1
            /\ l > 1 => bodies[l].kind \in LoopKinds
          BY <1>2, <4>1, HomeFacts
      <4> HIDE DEF l
      <4> QED
          BY <4>2
    <3>3. l \in 1 .. Len(scopes) + 1
      <4>1. Len(scopes) \in 0 .. Len(scopes)
          BY <1>3
      <4> QED
          BY <1>2, <4>1, HomeFacts
    <3> HIDE DEF l, f
    <3>4. CASE l = 1
        BY <3>1, <3>4 DEF Known
    <3>5. CASE l > 1
      <4>1. f.list = bodies[l].known
          BY <3>1, <3>5 DEF Known
      <4>2. l \in OpenBodies /\ bodies[l].kind # "block" /\ bodies[l].kind \in LoopKinds
        <5>1. OpenBodies = 2 .. Len(scopes) + 1
            BY <1>2, InnerFacts
        <5> QED
            BY <3>2, <3>5, <5>1 DEF LoopKinds
      <4> QED
          BY <1>10, <4>1, <4>2
    <3> QED
        BY <1>3, <3>3, <3>4, <3>5
  <2>4. x \in ToSet(moved') => x \in Excuses'.clash
    <3>1. x \in ToSet(moved') => x \in conditional \cup maybeLive
        BY <1>5 DEF IInv, Doubles
    <3> QED
        BY <1>6, <3>1 DEF Excuses
  <2>5. x \in ToSet(moved) /\ (x \in Excuses.clash \/ x \in f.list) => x \in Excuses'.leak
      BY <1>6, <2>3 DEF Excuses
  <2>6. x = y => x \in Excuses'.down
      BY <1>1 DEF Excuses
  <2>7. y \in Var => y \in Here.scope /\ y \notin Here.said
      BY <1>1, <1>3, <1>4, VarAssumption
  <2>8. w \in BOOLEAN /\ (w <=> x \in Here.list \/ x = y)
      BY <1>3, <1>5
  <2> HIDE DEF l, f, w
  <2>10. Reassigned(x, y, w, f, Here, Here', Excuses, Excuses')
      BY <1>1, <1>3, <1>5, <2>2, <2>4, <2>5, <2>6, <2>7, <2>8 DEF Reassigned
  <2>9. Good(After(AssignCode(x, y, w), paths), f, Here', Excuses')
      BY <1>7, <2>1, <2>8, <2>10, GoodAssign
  <2> QED
      BY <1>1, <1>12, <2>9 DEF CurrentGood, l, f, w
<1>14. EmitTypeOK'
    BY <1>1, <1>2, <1>3, <1>13, EmitTypes
<1>15. Jumped' /\ LoopBegins'
    BY <1>1, <1>2, JumpedOpen, LoopBeginsSame
<1>16. CheckTypeOK'
    BY <1>1, <1>3, <1>5, <1>6 DEF CheckTypeOK
<1> QED
    BY <1>8, <1>9, <1>11, <1>12, <1>13, <1>14, <1>15, <1>16 DEF IInv

(***************************************************************************)
(* Opening a scope.                                                        *)
(***************************************************************************)
\* A list that grew by one element.
Longer(t, s, x) ==
  /\ Len(s) \in Nat /\ Len(t) = Len(s) + 1 /\ DOMAIN s = 1 .. Len(s) /\ DOMAIN t = 1 .. Len(s) + 1
  /\ t[Len(s) + 1] = x /\ \A i \in 1 .. Len(s) : t[i] = s[i]

\* A body or scope that is opened goes to the end.
LEMMA LongerIs ==
  ASSUME NEW S, NEW s \in Seq(S), NEW x \in S
  PROVE  Longer(Append(s, x), s, x) /\ Append(s, x) \in Seq(S)
  BY ListAppend DEF Longer

\* Every state a loop is entered in, as a run that has not started.
LEMMA GoodAny ==
  ASSUME NEW c, NEW h, c.scope = InScope, InScope \subseteq Var
  PROVE  Good({[from |-> e, now |-> e] : e \in AnyEnv}, c, c, h)
<1> SUFFICES ASSUME NEW e \in AnyEnv, NEW p, p = [from |-> e, now |-> e]
             PROVE  /\ p \in Path /\ Clean(p.from, c)
                    /\ \A x \in Var : Blamed(p, c, h, x)
                    /\ Running(p.now) => \A x \in c.scope : Safe(p, c, c, h, x)
    BY DEF Good
<1>1. PICK v \in [Var -> {"live", "gone"}], f \in [Var -> BOOLEAN] :
        e = [val  |-> [x \in Var |-> IF x \in ToSet(jobs) THEN v[x] ELSE "none"],
             flag |-> [x \in Var |-> x \in ToSet(jobs) /\ f[x]],
             fault |-> NoFault]
    BY DEF AnyEnv
<1>2. e \in Env /\ Running(e)
    BY <1>1 DEF Env, Running, Faults
<1>3. \A x \in Var : IF x \in InScope THEN e.val[x] \in {"live", "gone"} ELSE e.val[x] = "none" /\ e.flag[x] = FALSE
    BY <1>1 DEF InScope
<1>4. p \in Path /\ p.from = e /\ p.now = e
    BY <1>2 DEF Path
<1>5. Clean(p.from, c)
    BY <1>2, <1>3, <1>4 DEF Clean
<1>6. \A x \in Var : Blamed(p, c, h, x)
    BY <1>2, <1>4 DEF Blamed, Running, NoFault
<1>7. \A x \in c.scope : Safe(p, c, c, h, x)
    BY <1>3, <1>4 DEF Safe
<1> QED
    BY <1>4, <1>5, <1>6, <1>7

\* FirstJob depends on the begin of one scope.
LEMMA FirstJobSame ==
  ASSUME NEW sc, NEW sd, NEW l \in Nat, l >= 1, l > 1 => sd[l - 1].begin = sc[l - 1].begin
  PROVE  FirstJob(sd, l) = FirstJob(sc, l)
<1>1. CASE l = 1
    BY <1>1 DEF FirstJob
<1>2. CASE l > 1
    BY <1>2 DEF FirstJob
<1> QED
    BY <1>1, <1>2

\* The body and the scope that are opened.
LEMMA EnterShape ==
  ASSUME IInv, NEW kind \in BodyKinds \ {"function"}, Enter(kind)
  PROVE  /\ Shape' /\ CheckTypeOK' /\ bodies' \in Seq(Body) /\ scopes' \in Seq(Scope)
         /\ \E nb \in Body, ns \in Scope :
               /\ nb = [kind |-> kind, begin |-> Len(moved), backup |-> <<>>,
                        known |-> ToSet(moved), atBreak |-> {}]
               /\ ns = [kind |-> kind, begin |-> Len(jobs), prevLoop |-> loopBegin,
                        entry |-> paths, done |-> {}, again |-> {}]
               /\ Longer(bodies', bodies, nb) /\ Longer(scopes', scopes, ns)
<1> DEFINE nb == [kind |-> kind, begin |-> Len(moved), backup |-> <<>>,
                  known |-> ToSet(moved), atBreak |-> {}]
           ns == [kind |-> kind, begin |-> Len(jobs), prevLoop |-> loopBegin,
                  entry |-> paths, done |-> {}, again |-> {}]
           n == Len(scopes)
<1>1. /\ Open /\ bodies' = Append(bodies, nb) /\ scopes' = Append(scopes, ns)
      /\ inElse' = Append(inElse, FALSE) /\ size' = size + 1 /\ returned' = returned
      /\ jobs' = jobs /\ moved' = moved /\ declared' = declared
      /\ overDropped' = overDropped /\ selfAssigned' = selfAssigned
      /\ forgotten' = forgotten /\ conditional' = conditional /\ maybeLive' = maybeLive
    BY DEF Enter, CheckEnter, EmitEnter, history
<1>2. /\ moved \in Seq(Var) /\ jobs \in Seq(Var) /\ Len(jobs) \in Nat /\ IsInjective(jobs)
      /\ Len(moved) \in Nat /\ inElse \in Seq(BOOLEAN) /\ n \in Nat /\ n = Len(inElse)
      /\ loopBegin \in Nat /\ scopes \in Seq(Scope) /\ bodies \in Seq(Body)
      /\ returned \in BOOLEAN
    BY Facts
<1>3. InFunction
    BY <1>1 DEF Open
<1>4. nb \in Body
  <2>1. ToSet(moved) \subseteq Var /\ <<>> \in Seq(Var)
      BY <1>2 DEF ToSet
  <2> QED
      BY <1>2, <2>1 DEF Body
<1>5. ns \in Scope
  <2>1. \A p \in paths : p \in Path
      BY DEF IInv, CurrentGood, Good
  <2> QED
      BY <1>2, <2>1 DEF Scope
<1> HIDE DEF nb, ns
<1>6. /\ bodies' \in Seq(Body) /\ Longer(bodies', bodies, nb)
      /\ scopes' \in Seq(Scope) /\ Longer(scopes', scopes, ns)
  <2>1. bodies \in Seq(Body) /\ scopes \in Seq(Scope)
      BY <1>2
  <2>2. bodies' \in Seq(Body) /\ Longer(bodies', bodies, nb)
      BY <1>1, <1>4, <2>1, LongerIs
  <2>3. scopes' \in Seq(Scope) /\ Longer(scopes', scopes, ns)
      BY <1>1, <1>5, <2>1, LongerIs
  <2> QED
      BY <2>2, <2>3
<1>7. inElse' \in Seq(BOOLEAN) /\ Len(inElse') = n + 1
  <2>1. FALSE \in BOOLEAN
      OBVIOUS
  <2> QED
      BY <1>1, <1>2, <2>1, ListAppend
<1>8. Len(bodies) = n + 1
    BY <1>3, InnerFacts
<1>9. InFunction'
    BY <1>6, <1>8, <1>2 DEF InFunction, Longer
<1>10. ASSUME NEW i \in 1 .. n + 1
       PROVE  /\ bodies'[i + 1].kind = scopes'[i].kind /\ scopes'[i].begin <= Len(jobs')
              /\ \A j \in 1 .. i : scopes'[j].begin <= scopes'[i].begin
  <2>1. CASE i \in 1 .. n
    <3>1. /\ bodies[i + 1].kind = scopes[i].kind /\ scopes[i].begin \in 0 .. Len(jobs)
          /\ \A j \in 1 .. i : scopes[j].begin <= scopes[i].begin
        BY <1>3, <2>1, InnerFacts
    <3>2. bodies'[i + 1] = bodies[i + 1] /\ \A j \in 1 .. i : scopes'[j] = scopes[j]
        BY <1>2, <1>6, <1>8, <2>1 DEF Longer
    <3>3. i \in 1 .. i
        OBVIOUS
    <3>4. scopes'[i] = scopes[i]
        BY <3>2, <3>3
    <3>5. \A j \in 1 .. i : scopes'[j].begin <= scopes'[i].begin
        BY <3>1, <3>2, <3>4
    <3> QED
        BY <1>1, <3>1, <3>2, <3>4, <3>5
  <2>2. CASE i = n + 1
    <3>1. bodies'[i + 1] = nb /\ scopes'[i] = ns
        BY <1>2, <1>6, <1>8, <2>2 DEF Longer
    <3>2. nb.kind = kind /\ ns.kind = kind /\ ns.begin = Len(jobs)
        BY DEF nb, ns
    <3>3. ASSUME NEW j \in 1 .. i PROVE scopes'[j].begin <= Len(jobs)
      <4>1. CASE j \in 1 .. n
        <5>1. scopes'[j] = scopes[j]
            BY <1>6, <4>1 DEF Longer
        <5>2. scopes[j].begin \in 0 .. Len(jobs)
            BY <1>3, <4>1, InnerFacts
        <5> QED
            BY <1>2, <5>1, <5>2
      <4>2. CASE j = n + 1
          BY <1>2, <2>2, <3>1, <3>2, <4>2
      <4> QED
          BY <1>2, <2>2, <4>1, <4>2
    <3> QED
        BY <1>1, <1>2, <3>1, <3>2, <3>3
  <2> QED
      BY <1>2, <2>1, <2>2
<1>11. Shape'
  <2>1. DOMAIN scopes' = 1 .. n + 1 /\ Len(scopes') = n + 1 /\ Len(bodies') = n + 2
      BY <1>2, <1>6, <1>8 DEF Longer
  <2>2. Shape
      BY DEF IInv
  <2>3. InScope' = InScope
      BY <1>1 DEF InScope
  <2>4. /\ size' \in Nat /\ returned' \in BOOLEAN /\ IsInjective(jobs') /\ InScope' \subseteq declared'
        /\ {declared', overDropped', selfAssigned'} \subseteq SUBSET Var
      BY <1>1, <2>2, <2>3 DEF Shape
  <2>5. \A i \in DOMAIN scopes' :
          /\ bodies'[i + 1].kind = scopes'[i].kind /\ scopes'[i].begin <= Len(jobs')
          /\ \A j \in 1 .. i : scopes'[j].begin <= scopes'[i].begin
      BY <1>10, <2>1
  <2> HIDE DEF n
  <2>6. Len(bodies') = Len(scopes') + 1
      BY <1>2, <2>1
  <2> QED
      BY <1>6, <1>7, <1>9, <2>1, <2>4, <2>5, <2>6 DEF Shape
<1>12. CheckTypeOK'
  <2>1. CheckTypeOK
      BY DEF IInv
  <2> QED
      BY <1>1, <1>6, <2>1 DEF CheckTypeOK
<1> QED
    BY <1>4, <1>5, <1>6, <1>11, <1>12 DEF nb, ns

\* A body was opened, with the list of moved variables and the runs as they are.
Opened(kind, nb, ns) ==
  /\ nb \in Body /\ ns \in Scope /\ kind \in BodyKinds \ {"function"}
  /\ nb = [kind |-> kind, begin |-> Len(moved), backup |-> <<>>,
           known |-> ToSet(moved), atBreak |-> {}]
  /\ ns = [kind |-> kind, begin |-> Len(jobs), prevLoop |-> loopBegin,
           entry |-> paths, done |-> {}, again |-> {}]
  /\ Longer(bodies', bodies, nb) /\ Longer(scopes', scopes, ns)
  /\ bodies' \in Seq(Body) /\ scopes' \in Seq(Scope)
  /\ InFunction
  /\ jobs' = jobs /\ moved' = moved /\ loopBegin' = LoopBeginIn(kind)
  /\ forgotten' = forgotten /\ conditional' = conditional /\ maybeLive' = maybeLive
  /\ overDropped' = overDropped /\ selfAssigned' = selfAssigned /\ declared' = declared
  /\ paths' = IF kind \in LoopKinds THEN {[from |-> e, now |-> e] : e \in AnyEnv} ELSE paths

\* What Opened says, and where things are.
LEMMA OpenedFacts ==
  ASSUME IInv, NEW kind, NEW nb, NEW ns, Opened(kind, nb, ns)
  PROVE  /\ Len(scopes) \in Nat /\ Len(bodies) = Len(scopes) + 1
         /\ Len(scopes') = Len(scopes) + 1 /\ Len(bodies') = Len(scopes) + 2
         /\ DOMAIN scopes' = 1 .. Len(scopes) + 1
         /\ OpenBodies' = 2 .. Len(scopes) + 2 /\ OpenBodies = 2 .. Len(scopes) + 1
         /\ scopes'[Len(scopes) + 1] = ns /\ bodies'[Len(scopes) + 2] = nb
         /\ \A i \in 1 .. Len(scopes) : scopes'[i] = scopes[i]
         /\ \A i \in 1 .. Len(scopes) + 1 : bodies'[i] = bodies[i]
<1>1. InFunction /\ Longer(bodies', bodies, nb) /\ Longer(scopes', scopes, ns)
    BY DEF Opened
<1>2. Len(bodies) = Len(scopes) + 1 /\ OpenBodies = 2 .. Len(scopes) + 1
    BY <1>1, InnerFacts
<1>3. Len(scopes) \in Nat /\ Len(bodies') = Len(scopes) + 2
    BY <1>1, <1>2 DEF Longer
<1>4. bodies'[Len(scopes) + 2] = nb
  <2>1. Len(bodies) + 1 = Len(scopes) + 2
      BY <1>2, <1>3
  <2> QED
      BY <1>1, <2>1 DEF Longer
<1> QED
    BY <1>1, <1>2, <1>3, <1>4 DEF Longer, OpenBodies

\* Opening a scope changes no list: it is known on entry, and no backup is kept.
LEMMA OpenedLists ==
  ASSUME IInv, NEW kind, NEW nb, NEW ns, Opened(kind, nb, ns)
  PROVE  ListDeclared' /\ Doubles' /\ KnownKept'
<1> DEFINE n == Len(scopes)
<1>1. /\ n \in Nat /\ Len(bodies') = n + 2 /\ Len(bodies) = n + 1
      /\ OpenBodies' = 2 .. n + 2 /\ OpenBodies = 2 .. n + 1
      /\ bodies'[n + 2] = nb
      /\ \A i \in 1 .. n + 1 : bodies'[i] = bodies[i]
    BY OpenedFacts
<1> HIDE DEF n
<1>2. /\ nb = [kind |-> kind, begin |-> Len(moved), backup |-> <<>>,
               known |-> ToSet(moved), atBreak |-> {}]
      /\ moved' = moved /\ declared' = declared
      /\ forgotten' = forgotten /\ conditional' = conditional /\ maybeLive' = maybeLive
    BY DEF Opened
<1>3. nb.begin = Len(moved) /\ nb.backup = <<>> /\ nb.known = ToSet(moved)
    BY <1>2
<1>4. \A j \in 2 .. n + 2 : (j \in OpenBodies /\ bodies'[j] = bodies[j]) \/ (j = n + 2 /\ bodies'[j] = nb)
  <2> TAKE j \in 2 .. n + 2
  <2>1. j \in 1 .. n + 1 \/ j = n + 2
      BY <1>1
  <2> QED
      BY <1>1, <2>1
<1>5. ToSet(<<>>) = {} /\ \A x : ~Twice(<<>>, x)
    BY DEF ToSet, Twice
<1>6. ListDeclared'
  <2>1. ListDeclared
      BY DEF IInv
  <2> SUFFICES ASSUME NEW x \in Var \ declared,
                      x \in ToSet(moved) \/ \E j \in 2 .. n + 2 : x \in bodies'[j].known \cup ToSet(bodies'[j].backup)
               PROVE  x \in conditional \cup maybeLive
      BY <1>1, <1>2 DEF ListDeclared
  <2>2. x \in ToSet(moved) \/ \E j \in OpenBodies : x \in bodies[j].known \cup ToSet(bodies[j].backup)
      BY <1>3, <1>4, <1>5
  <2> QED
      BY <2>1, <2>2 DEF ListDeclared
<1>7. Doubles'
  <2>1. Doubles
      BY DEF IInv
  <2> SUFFICES ASSUME NEW x \in Var,
                      \/ Twice(moved, x)
                      \/ \E j \in 2 .. n + 2 :
                           Twice(bodies'[j].backup, x) \/ x \in bodies'[j].known \cap ToSet(bodies'[j].backup)
               PROVE  x \in conditional \cup maybeLive
      BY <1>1, <1>2 DEF Doubles
  <2>2. \/ Twice(moved, x)
        \/ \E j \in OpenBodies : Twice(bodies[j].backup, x) \/ x \in bodies[j].known \cap ToSet(bodies[j].backup)
      BY <1>3, <1>4, <1>5
  <2> QED
      BY <2>1, <2>2 DEF Doubles
<1>8. KnownKept'
  <2>1. KnownKept /\ moved \in Seq(Var)
      BY Facts DEF IInv
  <2>2. DOMAIN moved = 1 .. Len(moved) /\ Len(moved) \in Nat
      BY <2>1
  <2> SUFFICES ASSUME NEW m \in 2 .. n + 2, bodies'[m].kind # "block", NEW x \in bodies'[m].known
               PROVE  \/ Retaken(x, m)'
                      \/ \E i \in DOMAIN moved : moved[i] = x /\ \A j \in m .. n + 2 : i <= bodies'[j].begin
      BY <1>1, <1>2 DEF KnownKept
  <2>3. CASE m \in OpenBodies /\ bodies'[m] = bodies[m]
    <3>1. CASE Retaken(x, m)
        BY <1>2, <2>3, <3>1 DEF Retaken
    <3>2. CASE \E i \in DOMAIN moved : moved[i] = x /\ \A j \in m .. Len(bodies) : i <= bodies[j].begin
      <4>1. PICK i \in DOMAIN moved : moved[i] = x /\ \A j \in m .. n + 1 : i <= bodies[j].begin
          BY <1>1, <3>2
      <4>2. ASSUME NEW j \in m .. n + 2 PROVE i <= bodies'[j].begin
        <5>1. j \in 2 .. n + 2 /\ (j \in 2 .. n + 1 => j \in m .. n + 1)
            BY <1>1
        <5> QED
            BY <1>1, <1>3, <1>4, <2>2, <4>1, <5>1
      <4> QED
          BY <4>1, <4>2
    <3> QED
        BY <2>1, <2>3, <3>1, <3>2 DEF KnownKept
  <2>4. CASE m = n + 2 /\ bodies'[m] = nb
    <3>1. x \in ToSet(moved)
        BY <1>3, <2>4
    <3>2. PICK i \in DOMAIN moved : moved[i] = x
        BY <3>1 DEF ToSet
    <3>3. \A j \in m .. n + 2 : j = m
        BY <1>1, <2>4
    <3> QED
        BY <1>3, <2>2, <2>4, <3>2, <3>3
  <2> QED
      BY <1>4, <2>3, <2>4
<1> QED
    BY <1>6, <1>7, <1>8

\* Only the runs in a new loop start afresh.
LEMMA OpenedHome ==
  ASSUME IInv, NEW kind, NEW nb, NEW ns, Opened(kind, nb, ns)
  PROVE  /\ \A i \in 0 .. Len(scopes) : Home(scopes', i) = Home(scopes, i)
         /\ Home(scopes', Len(scopes) + 1) =
              IF kind \in LoopKinds THEN Len(scopes) + 2 ELSE Home(scopes, Len(scopes))
<1> DEFINE n == Len(scopes)
<1>1. /\ n \in Nat /\ scopes'[n + 1] = ns /\ \A i \in 1 .. n : scopes'[i] = scopes[i]
      /\ Len(scopes') = n + 1
    BY OpenedFacts
<1>2. scopes' \in Seq(Scope) /\ ns.kind = kind
    BY DEF Opened
<1> HIDE DEF n
<1>3. ASSUME NEW i \in 0 .. n PROVE Home(scopes', i) = Home(scopes, i)
  <2>1. i \in Nat /\ \A k \in 1 .. i : scopes'[k].kind = scopes[k].kind
      BY <1>1
  <2> QED
      BY <2>1, HomeSame
<1>4. Home(scopes', n + 1) = IF kind \in LoopKinds THEN n + 2 ELSE Home(scopes, n)
  <2> DEFINE m == n + 1
             sc == scopes'
  <2>1. m \in 1 .. Len(sc) /\ sc \in Seq(Scope) /\ sc[m].kind = kind
      BY <1>1, <1>2
  <2>2. m - 1 = n /\ m + 1 = n + 2 /\ n \in 0 .. n
      BY <1>1
  <2> HIDE DEF m, sc
  <2>3. Home(sc, m) = IF sc[m].kind \in LoopKinds THEN m + 1 ELSE Home(sc, m - 1)
      BY <2>1, HomeStep
  <2>4. Home(sc, m) = IF kind \in LoopKinds THEN n + 2 ELSE Home(sc, n)
      BY <2>1, <2>2, <2>3
  <2>5. Home(sc, n) = Home(scopes, n)
      BY <1>3, <2>2 DEF sc
  <2> QED
      BY <2>4, <2>5 DEF m, sc
<1> QED
    BY <1>3, <1>4 DEF n

\* A body's first job is one of the jobs.
LEMMA FirstJobs ==
  ASSUME IInv, InFunction, NEW l \in 1 .. Len(scopes) + 1
  PROVE  FirstJob(scopes, l) \in 0 .. Len(jobs)
<1>1. Len(scopes) \in Nat /\ Len(jobs) \in Nat
    BY Facts
<1>2. l > 1 => l - 1 \in 1 .. Len(scopes)
    BY <1>1
<1>3. l > 1 => scopes[l - 1].begin \in 0 .. Len(jobs)
    BY <1>2, InnerFacts
<1> QED
    BY <1>1, <1>3 DEF FirstJob

\* loop_job_begin_index after a scope was opened.
LEMMA OpenedLoopBegins ==
  ASSUME IInv, NEW kind, NEW nb, NEW ns, Opened(kind, nb, ns)
  PROVE  LoopBegins'
<1> DEFINE n == Len(scopes)
           sd == scopes'
<1>1. /\ n \in Nat /\ Len(scopes') = n + 1 /\ DOMAIN scopes' = 1 .. n + 1
      /\ sd[n + 1] = ns /\ \A i \in 1 .. n : sd[i] = scopes[i]
    BY OpenedFacts
<1>2. /\ \A i \in 0 .. n : Home(sd, i) = Home(scopes, i)
      /\ Home(sd, n + 1) = IF kind \in LoopKinds THEN n + 2 ELSE Home(scopes, n)
    BY OpenedHome
<1>3. /\ DOMAIN scopes = 1 .. n /\ loopBegin \in Nat /\ Len(jobs) \in Nat
      /\ loopBegin <= FirstJob(scopes, Home(scopes, n))
      /\ \A i \in DOMAIN scopes :
            scopes[i].kind \in LoopKinds => scopes[i].prevLoop <= FirstJob(scopes, Home(scopes, i - 1))
  <2>1. InFunction
      BY DEF Opened
  <2> QED
      BY <2>1, Facts, InnerFacts DEF IInv, LoopBegins
<1>4. ns.begin = Len(jobs) /\ ns.prevLoop = loopBegin /\ ns.kind = kind
      /\ loopBegin' = LoopBeginIn(kind) /\ InFunction /\ kind \in BodyKinds \ {"function"}
    BY DEF Opened
<1>5. \A i \in 0 .. n : Home(scopes, i) \in 1 .. n + 1
  <2> TAKE i \in 0 .. n
  <2>1. Home(scopes, i) \in 1 .. i + 1
      BY <1>4, HomeFacts
  <2> QED
      BY <1>1, <2>1
<1>6. \A l \in 1 .. n + 1 : FirstJob(scopes, l) \in 0 .. Len(jobs)
    BY <1>4, FirstJobs
<1> HIDE DEF n, sd
<1>7. \A l \in 1 .. n + 1 : FirstJob(sd, l) = FirstJob(scopes, l)
  <2> TAKE l \in 1 .. n + 1
  <2>1. l \in Nat /\ l >= 1 /\ (l > 1 => l - 1 \in 1 .. n)
      BY <1>1
  <2>2. l > 1 => sd[l - 1].begin = scopes[l - 1].begin
      BY <1>1, <2>1
  <2> QED
      BY <2>1, <2>2, FirstJobSame
<1>8. n \in 0 .. n
    BY <1>1
<1>9. loopBegin' <= FirstJob(sd, Home(sd, n + 1))
  <2>1. CASE kind \in LoopKinds
    <3>1. Home(sd, n + 1) = n + 2 /\ n + 2 # 1 /\ (n + 2) - 1 = n + 1
        BY <1>1, <1>2, <2>1
    <3>2. FirstJob(sd, n + 2) = Len(jobs)
        BY <1>1, <1>4, <3>1 DEF FirstJob
    <3>3. FirstJob(scopes, Home(scopes, n)) \in 0 .. Len(jobs)
        BY <1>5, <1>6, <1>8
    <3> DEFINE a == FirstJob(scopes, Home(scopes, n))
    <3>4. a \in 0 .. Len(jobs) /\ loopBegin <= a
        BY <1>3, <3>3
    <3> HIDE DEF a
    <3>5. loopBegin' <= Len(jobs)
        BY <1>3, <1>4, <3>4 DEF LoopBeginIn
    <3> QED
        BY <3>1, <3>2, <3>5
  <2>2. CASE kind \notin LoopKinds
    <3>1. loopBegin' = loopBegin
        BY <1>4, <2>2 DEF LoopBeginIn, LoopKinds
    <3>2. Home(sd, n + 1) = Home(scopes, n) /\ Home(scopes, n) \in 1 .. n + 1
        BY <1>2, <1>5, <1>8, <2>2
    <3> QED
        BY <1>3, <1>7, <3>1, <3>2
  <2> QED
      BY <2>1, <2>2
<1>10. ASSUME NEW i \in 1 .. n + 1, sd[i].kind \in LoopKinds
       PROVE  sd[i].prevLoop <= FirstJob(sd, Home(sd, i - 1))
  <2>1. i - 1 \in 0 .. n
      BY <1>1
  <2>2. Home(sd, i - 1) = Home(scopes, i - 1) /\ Home(scopes, i - 1) \in 1 .. n + 1
      BY <1>2, <1>5, <2>1
  <2>3. FirstJob(sd, Home(sd, i - 1)) = FirstJob(scopes, Home(scopes, i - 1))
      BY <1>7, <2>2
  <2>4. CASE i \in 1 .. n
      BY <1>1, <1>3, <1>10, <2>3, <2>4
  <2>5. CASE i = n + 1
    <3>1. i - 1 = n /\ sd[i] = ns
        BY <1>1, <2>5
    <3> QED
        BY <1>3, <1>4, <2>3, <3>1
  <2> QED
      BY <1>1, <2>4, <2>5
<1> QED
  <2>1. Len(sd) = n + 1
      BY <1>1 DEF sd
  <2> QED
      BY <1>1, <1>9, <1>10, <2>1 DEF LoopBegins, sd

\* The contexts at the entries of the bodies around stay.
LEMMA OpenedEntry ==
  ASSUME IInv, NEW kind, NEW nb, NEW ns, Opened(kind, nb, ns), NEW l \in 1 .. Len(scopes) + 1
  PROVE  EntryOf(l)' = EntryOf(l)
<1> DEFINE n == Len(scopes)
<1>1. /\ n \in Nat
      /\ \A i \in 1 .. n : scopes'[i] = scopes[i]
      /\ \A i \in 1 .. n + 1 : bodies'[i] = bodies[i]
    BY OpenedFacts
<1>2. jobs' = jobs /\ jobs \in Seq(Var) /\ InFunction
    BY Facts DEF Opened
<1>3. l > 1 => l - 1 \in 1 .. n
    BY <1>1
<1>4. l > 1 => scopes[l - 1].begin \in 0 .. Len(jobs)
    BY <1>2, <1>3, InnerFacts
<1> HIDE DEF n
<1>5. l > 1 => /\ scopes'[l - 1].begin = scopes[l - 1].begin /\ bodies'[l].known = bodies[l].known
               /\ scopes[l - 1].begin <= Len(jobs')
               /\ \A i \in 1 .. scopes[l - 1].begin : jobs'[i] = jobs[i]
  <2>1. l \in 1 .. n + 1
      BY DEF n
  <2> QED
      BY <1>1, <1>2, <1>3, <1>4, <2>1
<1>6. \A j \in 2 .. l : bodies'[j].backup = bodies[j].backup
  <2>1. \A j \in 2 .. l : j \in 1 .. n + 1
      BY <1>1 DEF n
  <2> QED
      BY <1>1, <2>1
<1> QED
    BY <1>2, <1>5, <1>6, EntryKept

\* The runs at the entry of the new body.
LEMMA OpenedGood ==
  ASSUME IInv, NEW kind, NEW nb, NEW ns, Opened(kind, nb, ns),
         NEW f, f = EntryOf(Home(scopes, Len(scopes))),
         NEW c, c = Entry(jobs', scopes', bodies', Len(scopes) + 2)
  PROVE  Good(paths, f, c, Excuses) /\ Here' = c /\ c.scope = InScope
<1> DEFINE n == Len(scopes)
<1>1. /\ n \in Nat /\ Len(bodies') = n + 2 /\ Len(bodies) = n + 1
      /\ scopes'[n + 1] = ns /\ bodies'[n + 2] = nb
      /\ \A i \in 1 .. n + 1 : bodies'[i] = bodies[i]
    BY OpenedFacts
<1> HIDE DEF n
<1>2. /\ nb = [kind |-> kind, begin |-> Len(moved), backup |-> <<>>,
               known |-> ToSet(moved), atBreak |-> {}]
      /\ ns = [kind |-> kind, begin |-> Len(jobs), prevLoop |-> loopBegin,
               entry |-> paths, done |-> {}, again |-> {}]
      /\ moved' = moved /\ jobs' = jobs
    BY DEF Opened
<1>3. nb.backup = <<>> /\ nb.known = ToSet(moved) /\ ns.begin = Len(jobs)
    BY <1>2
<1>4. /\ jobs \in Seq(Var) /\ Len(jobs) \in Nat
      /\ Here.scope = InScope /\ Here.list = ToSet(moved) /\ Here.said = ToSet(moved)
      /\ Here.kept = Kept(bodies, Len(bodies))
    BY Facts
<1>5. n + 2 # 1 /\ (n + 2) - 1 = n + 1
    BY <1>1
<1>6. Outer(jobs', scopes', n + 2) = InScope
  <2>1. Outer(jobs', scopes', n + 2) = ToSet(SubSeq(jobs, 1, Len(jobs)))
      BY <1>1, <1>2, <1>3, <1>5 DEF Outer
  <2>2. SubSeq(jobs, 1, Len(jobs)) = jobs
      BY <1>4
  <2> QED
      BY <2>1, <2>2 DEF InScope
<1>7. Known(bodies', n + 2) = ToSet(moved)
    BY <1>1, <1>3, <1>5 DEF Known
<1>8. /\ c.scope = InScope /\ c.list = ToSet(moved) /\ c.said = ToSet(moved)
      /\ c.kept = Kept(bodies', n + 2)
      /\ c = Context(InScope, ToSet(moved), ToSet(moved), Kept(bodies', n + 2))
  <2>1. c = Entry(jobs', scopes', bodies', n + 2)
      BY DEF n
  <2> QED
      BY <1>6, <1>7, <2>1 DEF Entry, Context
<1>9. Here' = c
  <2>1. Len(bodies') = n + 2 /\ InScope' = InScope
      BY <1>1, <1>2 DEF InScope
  <2> QED
      BY <1>2, <1>8, <2>1 DEF Here
<1>10. /\ DOMAIN c.kept = 2 .. n + 2 /\ DOMAIN Here.kept = 2 .. n + 1 /\ c.kept[n + 2] = {}
       /\ \A j \in 2 .. n + 1 : c.kept[j] = Here.kept[j]
  <2>1. ToSet(<<>>) = {}
      BY DEF ToSet
  <2>2. /\ \A j \in 2 .. n + 2 : c.kept[j] = ToSet(bodies'[j].backup)
        /\ DOMAIN c.kept = 2 .. n + 2
      BY <1>8 DEF Kept
  <2>3. /\ \A j \in 2 .. n + 1 : Here.kept[j] = ToSet(bodies[j].backup)
        /\ DOMAIN Here.kept = 2 .. n + 1
      BY <1>1, <1>4 DEF Kept
  <2>4. n + 2 \in 2 .. n + 2
      BY <1>1
  <2>5. \A j \in 2 .. n + 1 : bodies'[j] = bodies[j] /\ j \in 2 .. n + 2
      BY <1>1
  <2>6. c.kept[n + 2] = {}
      BY <1>1, <1>3, <2>1, <2>2, <2>4
  <2> QED
      BY <2>2, <2>3, <2>5, <2>6
<1>11. \A j \in DOMAIN c.kept, x \in Var : x \in c.kept[j] => j \in DOMAIN Here.kept /\ x \in Here.kept[j]
  <2>1. \A j \in 2 .. n + 2 : j \in 2 .. n + 1 \/ j = n + 2
      BY <1>1
  <2> QED
      BY <1>10, <2>1
<1>12. Recast(f, Here, c, Excuses)
  <2>1. \A x \in Var, j \in DOMAIN c.kept : Listed(c, j, x) => Listed(Here, j, x)
      BY <1>4, <1>8, <1>11 DEF Listed
  <2>2. InScope \subseteq Var
      BY Facts
  <2> QED
      BY <1>4, <1>8, <1>11, <2>1, <2>2 DEF Recast
<1>13. Good(paths, f, Here, Excuses)
    BY DEF IInv, CurrentGood
<1>14. Grown(Excuses, Excuses)
    BY DEF Grown
<1>15. Good(paths, f, c, Excuses)
    BY <1>12, <1>13, <1>14, GoodRecast
<1> QED
    BY <1>8, <1>9, <1>15

\* The runs kept for the end of each scope, the new one included, are good.
LEMMA OpenedScopes ==
  ASSUME IInv, NEW kind, NEW nb, NEW ns, Opened(kind, nb, ns)
  PROVE  ScopesGood' /\ CurrentGood'
<1> DEFINE n == Len(scopes)
           f == EntryOf(Home(scopes, n))
           c == Entry(jobs', scopes', bodies', n + 2)
<1>1. /\ n \in Nat /\ Len(bodies') = n + 2 /\ Len(bodies) = n + 1 /\ Len(scopes') = n + 1
      /\ DOMAIN scopes' = 1 .. n + 1
      /\ scopes'[n + 1] = ns /\ bodies'[n + 2] = nb
      /\ \A i \in 1 .. n : scopes'[i] = scopes[i]
      /\ \A i \in 1 .. n + 1 : bodies'[i] = bodies[i]
    BY OpenedFacts
<1>2. Excuses' = Excuses /\ Grown(Excuses, Excuses')
  <2>1. Excuses' = Excuses
      BY DEF Excuses, Opened
  <2> QED
      BY <2>1 DEF Grown
<1>3. Good(paths, f, c, Excuses) /\ Here' = c /\ c.scope = InScope
    BY OpenedGood
<1>4. /\ \A i \in 0 .. n : Home(scopes', i) = Home(scopes, i)
      /\ Home(scopes', n + 1) = IF kind \in LoopKinds THEN n + 2 ELSE Home(scopes, n)
    BY OpenedHome
<1>5. \A l \in 1 .. n + 1 : EntryOf(l)' = EntryOf(l)
    BY OpenedEntry
<1>6. /\ ns.kind = kind /\ ns.entry = paths /\ ns.done = {} /\ ns.again = {} /\ InFunction
      /\ paths' = IF kind \in LoopKinds THEN {[from |-> e, now |-> e] : e \in AnyEnv} ELSE paths
    BY DEF Opened
<1>7. Home(scopes, n) \in 1 .. n + 1
  <2>1. n \in 0 .. n
      BY <1>1
  <2> QED
      BY <1>6, <2>1, HomeFacts
<1>8. Entry(jobs', scopes', bodies', Home(scopes, n)) = f
  <2> DEFINE l == Home(scopes, n)
  <2>1. l \in 1 .. n + 1
      BY <1>7
  <2> HIDE DEF l, n
  <2>2. \A k \in 1 .. n + 1 : Entry(jobs', scopes', bodies', k) = EntryOf(k)
      BY <1>5 DEF EntryOf
  <2>3. Entry(jobs', scopes', bodies', l) = EntryOf(l)
      BY <2>1, <2>2
  <2> QED
      BY <2>3 DEF l
<1>9. ASSUME NEW i \in 1 .. n PROVE ScopeGood(i)'
  <2>1. i \in DOMAIN scopes
      BY <1>6, InnerFacts
  <2>2. \A k \in 1 .. i : scopes'[k].kind = scopes[k].kind
      BY <1>1
  <2>3. \A l \in 1 .. i + 1 : EntryOf(l)' = EntryOf(l)
    <3>1. \A l \in 1 .. i + 1 : l \in 1 .. n + 1
        BY <1>1
    <3> QED
        BY <1>5, <3>1
  <2>4. bodies'[i + 1] = bodies[i + 1] /\ scopes'[i] = scopes[i]
      BY <1>1
  <2> QED
      BY <1>2, <1>6, <2>1, <2>2, <2>3, <2>4, ScopeKept
<1>10. ASSUME NEW i, i = n + 1 PROVE ScopeGood(i)'
  <2>1. scopes'[i] = ns /\ i - 1 = n /\ Home(scopes', i - 1) = Home(scopes, n) /\ i + 1 = n + 2
    <3>1. n \in 0 .. n /\ i - 1 = n /\ i + 1 = n + 2
        BY <1>1, <1>10
    <3> QED
        BY <1>1, <1>4, <1>10, <3>1
  <2>2. EntryOf(i + 1)' = c /\ EntryOf(Home(scopes, i - 1))' = f
    <3>1. Entry(jobs', scopes', bodies', i + 1) = c
        BY <2>1
    <3>2. Entry(jobs', scopes', bodies', Home(scopes', i - 1)) = f
        BY <1>8, <2>1
    <3> HIDE DEF c, f
    <3> QED
        BY <3>1, <3>2 DEF EntryOf
  <2> HIDE DEF c, f, n
  <2>3. Good(ns.entry, f, c, Excuses')
      BY <1>2, <1>3, <1>6
  <2> QED
      BY <1>6, <2>1, <2>2, <2>3, GoodNone DEF ScopeGood
<1>11. ScopesGood'
  <2>1. \A i \in 1 .. n + 1 : i \in 1 .. n \/ i = n + 1
      BY <1>1
  <2>2. \A i \in 1 .. n + 1 : ScopeGood(i)'
    <3> HIDE DEF n
    <3> QED
        BY <1>9, <1>10, <2>1
  <2>3. \A i \in DOMAIN scopes' : ScopeGood(i)'
      BY <1>1, <2>2
  <2> QED
      BY <2>3 DEF ScopesGood
<1>12. CurrentGood'
  <2>1. Len(scopes') = n + 1
      BY <1>1
  <2>2. CASE kind \in LoopKinds
    <3>1. Entry(jobs', scopes', bodies', Home(scopes', Len(scopes'))) = c
        BY <1>4, <2>1, <2>2
    <3>2. EntryOf(Home(scopes, Len(scopes)))' = c
      <4> HIDE DEF c
      <4> QED
          BY <3>1 DEF EntryOf
    <3> HIDE DEF c, f, n
    <3>3. InScope \subseteq Var
        BY Facts
    <3>4. Good(paths', c, c, Excuses)
        BY <1>3, <1>6, <2>2, <3>3, GoodAny
    <3> QED
        BY <1>2, <1>3, <3>2, <3>4 DEF CurrentGood
  <2>3. CASE kind \notin LoopKinds
    <3>1. Entry(jobs', scopes', bodies', Home(scopes', Len(scopes'))) = f
        BY <1>4, <1>8, <2>1, <2>3
    <3>2. EntryOf(Home(scopes, Len(scopes)))' = f
      <4> HIDE DEF f
      <4> QED
          BY <3>1 DEF EntryOf
    <3> HIDE DEF c, f, n
    <3> QED
        BY <1>2, <1>3, <1>6, <2>3, <3>2 DEF CurrentGood
  <2> QED
      BY <2>2, <2>3
<1> QED
    BY <1>11, <1>12

\* if, while, do, loop and a block keep the invariant.
LEMMA EnterKeeps ==
  ASSUME IInv, NEW kind \in BodyKinds \ {"function"}, Enter(kind)
  PROVE  IInv'
<1>1. /\ Shape' /\ CheckTypeOK' /\ bodies' \in Seq(Body) /\ scopes' \in Seq(Scope)
      /\ \E nb \in Body, ns \in Scope :
           /\ nb = [kind |-> kind, begin |-> Len(moved), backup |-> <<>>,
                    known |-> ToSet(moved), atBreak |-> {}]
           /\ ns = [kind |-> kind, begin |-> Len(jobs), prevLoop |-> loopBegin,
                    entry |-> paths, done |-> {}, again |-> {}]
           /\ Longer(bodies', bodies, nb) /\ Longer(scopes', scopes, ns)
    BY EnterShape
<1>2. /\ Open /\ jobs' = jobs /\ moved' = moved /\ loopBegin' = LoopBeginIn(kind)
      /\ forgotten' = forgotten /\ conditional' = conditional /\ maybeLive' = maybeLive
      /\ overDropped' = overDropped /\ selfAssigned' = selfAssigned /\ declared' = declared
      /\ returned' = returned /\ destroyScope' = destroyScope
      /\ paths' = IF kind \in LoopKinds THEN {[from |-> e, now |-> e] : e \in AnyEnv} ELSE paths
    BY DEF Enter, CheckEnter, EmitEnter, history
<1>3. PICK nb \in Body, ns \in Scope :
           /\ nb = [kind |-> kind, begin |-> Len(moved), backup |-> <<>>,
                    known |-> ToSet(moved), atBreak |-> {}]
           /\ ns = [kind |-> kind, begin |-> Len(jobs), prevLoop |-> loopBegin,
                    entry |-> paths, done |-> {}, again |-> {}]
           /\ Longer(bodies', bodies, nb) /\ Longer(scopes', scopes, ns)
    BY <1>1
<1>4. Opened(kind, nb, ns)
    BY <1>1, <1>2, <1>3 DEF Opened, Open
<1>5. ListDeclared' /\ Doubles' /\ KnownKept' /\ LoopBegins' /\ ScopesGood' /\ CurrentGood'
    BY <1>4, OpenedLists, OpenedLoopBegins, OpenedScopes
<1>6. Jumped'
  <2>1. returned \in BOOLEAN /\ destroyScope \in BOOLEAN
      BY Facts
  <2>2. InFunction /\ destroyScope
      BY <1>2 DEF Open
  <2>3. ~returned
      BY <2>2 DEF IInv, Jumped
  <2> QED
      BY <1>2, <2>1, <2>2, <2>3, JumpedOpen
<1>7. EmitTypeOK'
  <2>1. jobs \in Seq(Var) /\ Len(jobs) \in Nat /\ loopBegin \in Nat /\ destroyScope \in BOOLEAN
      BY Facts
  <2>2. jobs' \in Seq(Var) /\ loopBegin' \in Nat /\ destroyScope' \in BOOLEAN
      BY <1>2, <2>1 DEF LoopBeginIn
  <2> QED
      BY <1>1, <1>5, <2>2, EmitTypes
<1> QED
    BY <1>1, <1>5, <1>6, <1>7 DEF IInv

(***************************************************************************)
(* Jumps.                                                                  *)
(***************************************************************************)
\* What a break or a continue leaves of the open scopes and bodies.
Marks ==
  /\ Len(scopes') = Len(scopes) /\ scopes' \in Seq(Scope)
  /\ \A i \in 1 .. Len(scopes) : /\ scopes'[i].kind = scopes[i].kind /\ scopes'[i].begin = scopes[i].begin
                                 /\ scopes'[i].prevLoop = scopes[i].prevLoop
                                 /\ scopes'[i].entry = scopes[i].entry
  /\ Len(bodies') = Len(bodies) /\ bodies' \in Seq(Body)
  /\ \A i \in 1 .. Len(scopes) + 1 : /\ bodies'[i].kind = bodies[i].kind /\ bodies'[i].begin = bodies[i].begin
                                     /\ bodies'[i].known = bodies[i].known /\ bodies'[i].backup = bodies[i].backup

\* A jump opens and closes nothing,
LEMMA MarksHome ==
  ASSUME IInv, InFunction, Marks, NEW i \in 0 .. Len(scopes)
  PROVE  Home(scopes', i) = Home(scopes, i) /\ Home(scopes, i) \in 1 .. Len(scopes) + 1
<1>1. Len(scopes) \in Nat
    BY Facts
<1>2. i \in Nat /\ \A k \in 1 .. i : scopes'[k].kind = scopes[k].kind
    BY <1>1 DEF Marks
<1>3. Home(scopes', i) = Home(scopes, i)
    BY <1>2, HomeSame
<1>4. Home(scopes, i) \in 1 .. i + 1
    BY HomeFacts
<1> QED
    BY <1>1, <1>3, <1>4

\* changes no context at an entry,
LEMMA MarksEntry ==
  ASSUME IInv, InFunction, Marks, jobs' = jobs, NEW l \in 1 .. Len(scopes) + 1
  PROVE  EntryOf(l)' = EntryOf(l)
<1>1. jobs \in Seq(Var) /\ Len(scopes) \in Nat
    BY Facts
<1>2. l > 1 => l - 1 \in 1 .. Len(scopes)
    BY <1>1
<1>3. l > 1 => scopes[l - 1].begin \in 0 .. Len(jobs)
    BY <1>2, InnerFacts
<1>4. l > 1 => /\ scopes'[l - 1].begin = scopes[l - 1].begin /\ bodies'[l].known = bodies[l].known
               /\ scopes[l - 1].begin <= Len(jobs')
               /\ \A i \in 1 .. scopes[l - 1].begin : jobs'[i] = jobs[i]
    BY <1>2, <1>3 DEF Marks
<1>5. \A j \in 2 .. l : bodies'[j].backup = bodies[j].backup
  <2>1. \A j \in 2 .. l : j \in 1 .. Len(scopes) + 1
      BY <1>1
  <2> QED
      BY <2>1 DEF Marks
<1> QED
    BY <1>1, <1>4, <1>5, EntryKept

\* and no bound of the jobs.
LEMMA MarksShape ==
  ASSUME IInv, InFunction, Marks, jobs' = jobs, loopBegin' = loopBegin, inElse' = inElse, declared' = declared,
         size' \in Nat, returned' \in BOOLEAN, overDropped' \subseteq Var, selfAssigned' \subseteq Var
  PROVE  Shape' /\ LoopBegins'
<1> DEFINE k == Len(scopes)
           sd == scopes'
<1>1. /\ Len(sd) = k /\ sd \in Seq(Scope) /\ k \in Nat /\ DOMAIN sd = 1 .. k /\ DOMAIN scopes = 1 .. k
      /\ Len(bodies) = k + 1
  <2>1. Len(sd) = k /\ sd \in Seq(Scope) /\ k \in Nat /\ DOMAIN scopes = 1 .. k /\ Len(bodies) = k + 1
      BY Facts, InnerFacts DEF Marks
  <2> QED
      BY <2>1
<1>2. /\ \A i \in 1 .. k : /\ sd[i].kind = scopes[i].kind /\ sd[i].begin = scopes[i].begin
                           /\ sd[i].prevLoop = scopes[i].prevLoop
      /\ Len(bodies') = Len(bodies) /\ bodies' \in Seq(Body)
      /\ \A i \in 1 .. k + 1 : bodies'[i].kind = bodies[i].kind
    BY DEF Marks
<1>3. Shape /\ LoopBegins
    BY DEF IInv
<1>4. Shape'
  <2>1. InFunction'
    <3>1. Len(bodies') = k + 1
        BY <1>1, <1>2
    <3> QED
        BY <1>1, <3>1 DEF InFunction
  <2>2. \A i \in 1 .. k :
          /\ bodies'[i + 1].kind = sd[i].kind /\ sd[i].begin <= Len(jobs')
          /\ \A j \in 1 .. i : sd[j].begin <= sd[i].begin
    <3> TAKE i \in 1 .. k
    <3>1. /\ bodies[i + 1].kind = scopes[i].kind /\ scopes[i].begin \in 0 .. Len(jobs)
          /\ \A j \in 1 .. i : scopes[j].begin <= scopes[i].begin
        BY InnerFacts
    <3>2. i + 1 \in 1 .. k + 1 /\ \A j \in 1 .. i : j \in 1 .. k
        BY <1>1
    <3>3. Len(jobs') = Len(jobs) /\ Len(jobs) \in Nat
        BY Facts
    <3> HIDE DEF sd, k
    <3> QED
        BY <1>2, <3>1, <3>2, <3>3
  <2>3. Len(bodies') = Len(scopes') + 1 /\ Len(scopes') = Len(inElse') /\ inElse' \in Seq(BOOLEAN)
      BY <1>1, <1>2, <1>3 DEF Shape
  <2>4. IsInjective(jobs') /\ InScope' \subseteq declared' /\ declared' \subseteq Var
      BY Facts DEF InScope
  <2>5. scopes' \in Seq(Scope) /\ DOMAIN scopes' = 1 .. k
      BY <1>1
  <2>6. \A i \in DOMAIN scopes' :
          /\ bodies'[i + 1].kind = scopes'[i].kind /\ scopes'[i].begin <= Len(jobs')
          /\ \A j \in 1 .. i : scopes'[j].begin <= scopes'[i].begin
      BY <2>2, <2>5
  <2> QED
      BY <2>1, <2>3, <2>4, <2>5, <2>6 DEF Shape
<1>5. LoopBegins'
  <2>1. \A i \in 0 .. k : Home(sd, i) = Home(scopes, i) /\ Home(scopes, i) \in 1 .. k + 1
      BY MarksHome
  <2>2. /\ loopBegin <= FirstJob(scopes, Home(scopes, k))
        /\ \A i \in DOMAIN scopes :
              scopes[i].kind \in LoopKinds => scopes[i].prevLoop <= FirstJob(scopes, Home(scopes, i - 1))
      BY <1>3 DEF LoopBegins
  <2> HIDE DEF k, sd
  <2>3. \A l \in 1 .. k + 1 : FirstJob(sd, l) = FirstJob(scopes, l)
    <3> TAKE l \in 1 .. k + 1
    <3>1. l \in Nat /\ l >= 1 /\ (l > 1 => l - 1 \in 1 .. k)
        BY <1>1
    <3>2. l > 1 => sd[l - 1].begin = scopes[l - 1].begin
        BY <1>2, <3>1
    <3> QED
        BY <3>1, <3>2, FirstJobSame
  <2>4. loopBegin <= FirstJob(sd, Home(sd, k))
    <3>1. k \in 0 .. k
        BY <1>1
    <3> QED
        BY <2>1, <2>2, <2>3, <3>1
  <2>5. ASSUME NEW i \in 1 .. k, sd[i].kind \in LoopKinds
        PROVE  sd[i].prevLoop <= FirstJob(sd, Home(sd, i - 1))
    <3>1. i - 1 \in 0 .. k
        BY <1>1
    <3>2. FirstJob(sd, Home(sd, i - 1)) = FirstJob(scopes, Home(scopes, i - 1))
        BY <2>1, <2>3, <3>1
    <3> QED
        BY <1>1, <1>2, <2>2, <2>5, <3>2
  <2> QED
      BY <1>1, <2>4, <2>5 DEF LoopBegins, sd
<1> QED
    BY <1>4, <1>5

\* A jump out of, or to the start of, the loop bodies[l].
JumpTo(l, isBreak, left) ==
  LET s == scopes[l - 1]
      b == bodies[l]
      gone == {p \in left : Running(p.now)}
      outer == ToSet(SubSeq(jobs, 1, s.begin)) IN
  /\ l \in 2 .. Len(scopes) + 1 /\ l = Home(scopes, Len(scopes))
  /\ left = After(Drops(loopBegin, NoVar) \o Ends(s.begin), paths)
  /\ scopes' = [scopes EXCEPT ![l - 1] =
                  IF isBreak THEN [s EXCEPT !.done = @ \cup gone] ELSE [s EXCEPT !.again = @ \cup gone]]
  /\ bodies' = IF isBreak THEN [bodies EXCEPT ![l].atBreak = @ \cup (outer \cap ToSet(moved))] ELSE bodies
  /\ forgotten' = IF isBreak THEN forgotten ELSE forgotten \cup ((outer \cap ToSet(moved)) \ b.known)
  /\ overDropped' = overDropped \cup ToSet(SubSeq(jobs, loopBegin + 1, s.begin))
  /\ paths' = Stopped(left) /\ destroyScope' = FALSE
  /\ moved' = moved /\ conditional' = conditional /\ maybeLive' = maybeLive
  /\ jobs' = jobs /\ loopBegin' = loopBegin
  /\ declared' = declared /\ returned' = returned /\ selfAssigned' = selfAssigned

\* break and continue go to the innermost loop.
LEMMA JumpIs ==
  ASSUME IInv, NEW isBreak \in BOOLEAN, Jump(isBreak)
  PROVE  Statement /\ \E l, left : JumpTo(l, isBreak, left)
<1> DEFINE n == Max(LoopScopes)
           l == Home(scopes, Len(scopes))
           left == After(Drops(loopBegin, NoVar) \o Ends(scopes[n].begin), paths)
<1>1. Statement /\ LoopScopes # {} /\ InFunction
    BY DEF Jump, Statement, Open
<1>2. scopes \in Seq(Scope) /\ Len(scopes) \in Nat
    BY Facts
<1>3. n = l - 1 /\ l > 1
    BY <1>1, <1>2, LoopOf
<1>4. l \in 1 .. Len(scopes) + 1
  <2>1. Len(scopes) \in 0 .. Len(scopes)
      BY <1>2
  <2> QED
      BY <1>1, <2>1, HomeFacts
<1>5. /\ l \in 2 .. Len(scopes) + 1 /\ n + 1 = l
    BY <1>2, <1>3, <1>4
<1>6. JumpTo(l, isBreak, left)
  <2>1. /\ IF isBreak THEN CheckBreak(OuterOf(n), n + 1) ELSE CheckContinue(OuterOf(n), n + 1)
        /\ EmitJump(n, isBreak)
        /\ overDropped' = overDropped \cup ToSet(SubSeq(jobs, loopBegin + 1, scopes[n].begin))
        /\ UNCHANGED <<declared, returned, selfAssigned>>
      BY DEF Jump
  <2> HIDE DEF n, l
  <2>2. CASE isBreak
      BY <1>3, <1>5, <2>1, <2>2 DEF JumpTo, CheckBreak, EmitJump, OuterOf, l
  <2>3. CASE ~isBreak
      BY <1>3, <1>5, <2>1, <2>3 DEF JumpTo, CheckContinue, EmitJump, OuterOf, MovedInRound, l
  <2> QED
      BY <2>2, <2>3
<1> HIDE DEF left, l
<1> QED
    BY <1>1, <1>6

\* The runs that reach the jump, where the variables of the loop have ended.
LEMMA JumpGood ==
  ASSUME IInv, InFunction, NEW isBreak \in BOOLEAN, NEW l, NEW left, JumpTo(l, isBreak, left),
         NEW d, d = [Here EXCEPT !.scope = JobsFrom(1, scopes[l - 1].begin)]
  PROVE  /\ Grown(Excuses, Excuses') /\ Sane(Excuses')
         /\ Good(left, EntryOf(l), d, Excuses')
         /\ overDropped' \subseteq Var /\ forgotten' \subseteq Var
<1> DEFINE b2 == scopes[l - 1].begin
<1>1. /\ jobs \in Seq(Var) /\ IsInjective(jobs) /\ loopBegin \in Nat /\ Len(jobs) \in Nat
      /\ Here.scope = InScope /\ overDropped \subseteq Var /\ forgotten \subseteq Var
      /\ moved \in Seq(Var) /\ Len(scopes) \in Nat
    BY Facts
<1>2. /\ l \in 2 .. Len(scopes) + 1 /\ l = Home(scopes, Len(scopes))
      /\ left = After(Drops(loopBegin, NoVar) \o Ends(b2), paths)
      /\ forgotten' = IF isBreak THEN forgotten
                      ELSE forgotten \cup ((ToSet(SubSeq(jobs, 1, b2)) \cap ToSet(moved)) \ bodies[l].known)
      /\ overDropped' = overDropped \cup ToSet(SubSeq(jobs, loopBegin + 1, b2))
      /\ conditional' = conditional /\ maybeLive' = maybeLive /\ selfAssigned' = selfAssigned
    BY DEF JumpTo
<1>3. b2 \in 0 .. Len(jobs)
  <2>1. l - 1 \in 1 .. Len(scopes)
      BY <1>1, <1>2
  <2> QED
      BY <2>1, InnerFacts
<1>4. loopBegin <= b2
  <2>1. loopBegin <= FirstJob(scopes, l)
      BY <1>2 DEF IInv, LoopBegins
  <2>2. FirstJob(scopes, l) = b2
      BY <1>1, <1>2 DEF FirstJob
  <2> QED
      BY <2>1, <2>2
<1> HIDE DEF b2
<1>5. ToSet(moved) \subseteq Var
    BY <1>1 DEF ToSet
<1>6. forgotten' \subseteq Var /\ forgotten \subseteq forgotten'
    BY <1>1, <1>2, <1>5
<1>7. ToSet(SubSeq(jobs, loopBegin + 1, b2)) = JobsFrom(loopBegin + 1, b2)
  <2>1. b2 \in Nat /\ loopBegin + 1 \in Nat
      BY <1>1, <1>3
  <2>2. \A i \in loopBegin + 1 .. b2 : jobs[i] \in Var
    <3>1. \A i \in loopBegin + 1 .. b2 : i \in DOMAIN jobs
        BY <1>1, <1>3
    <3> QED
        BY <1>1, <3>1
  <2> DEFINE t == SubSeq(jobs, loopBegin + 1, b2)
             e == b2 - loopBegin
  <2>3. /\ Len(t) = e /\ DOMAIN t = 1 .. e /\ e \in Nat
        /\ \A i \in 1 .. e : t[i] = jobs[loopBegin + i]
    <3>1. loopBegin + 1 \in Int /\ b2 \in Int /\ Len(jobs) \in Nat
        BY <1>1, <2>1
    <3>2. /\ Len(t) = IF loopBegin + 1 <= b2 THEN b2 - (loopBegin + 1) + 1 ELSE 0
          /\ t \in Seq(Var)
          /\ \A i \in 1 .. Len(t) : t[i] = jobs[loopBegin + 1 + i - 1]
        BY <1>1, <2>2, <3>1, SubSeqProperties, SMTT(20)
    <3>3. Len(t) = e /\ e \in Nat
        BY <1>1, <1>4, <2>1, <3>2
    <3>4. DOMAIN t = 1 .. Len(t)
        BY <3>2
    <3>5. \A i \in 1 .. e : loopBegin + 1 + i - 1 = loopBegin + i
        BY <1>1, <2>1
    <3> HIDE DEF t, e
    <3> QED
        BY <3>2, <3>3, <3>4, <3>5
  <2> HIDE DEF t
  <2>4. ASSUME NEW i \in 1 .. e PROVE t[i] \in JobsFrom(loopBegin + 1, b2)
    <3>1. loopBegin + i \in loopBegin + 1 .. b2
        BY <1>1, <1>4, <2>1
    <3> QED
        BY <2>3, <3>1 DEF JobsFrom
  <2>5. ASSUME NEW i \in loopBegin + 1 .. b2 PROVE jobs[i] \in ToSet(t)
    <3>1. i - loopBegin \in 1 .. e /\ loopBegin + (i - loopBegin) = i
        BY <1>1, <1>4, <2>1
    <3> HIDE DEF e
    <3>2. t[i - loopBegin] = jobs[i]
        BY <2>3, <3>1
    <3> QED
        BY <2>3, <3>1, <3>2 DEF ToSet
  <2> HIDE DEF e
  <2>6. ToSet(t) \subseteq JobsFrom(loopBegin + 1, b2)
      BY <2>3, <2>4 DEF ToSet
  <2>7. JobsFrom(loopBegin + 1, b2) \subseteq ToSet(t)
      BY <2>5 DEF JobsFrom
  <2> QED
      BY <2>6, <2>7 DEF t
<1>8. JobsFrom(loopBegin + 1, b2) \subseteq Var /\ overDropped' \subseteq Var /\ JobsFrom(loopBegin + 1, b2) \subseteq Excuses'.up
  <2>1. \A i \in loopBegin + 1 .. b2 : i \in DOMAIN jobs
      BY <1>1, <1>3
  <2>2. JobsFrom(loopBegin + 1, b2) \subseteq Var
      BY <1>1, <2>1 DEF JobsFrom
  <2>3. Excuses'.up = overDropped'
      BY DEF Excuses
  <2> QED
      BY <1>1, <1>2, <1>7, <2>2, <2>3
<1>9. Grown(Excuses, Excuses') /\ Sane(Excuses')
    BY <1>2, <1>6, ExcusesGrow
<1>10. /\ d.scope = JobsFrom(1, b2) /\ d.list = Here.list /\ d.said = Here.said /\ d.kept = Here.kept
  <2>1. Here = [scope |-> Here.scope, list |-> Here.list, said |-> Here.said, kept |-> Here.kept]
      BY DEF Here, Context
  <2> QED
      BY <2>1 DEF b2
<1>11. Good(paths, EntryOf(l), Here, Excuses)
    BY <1>2 DEF IInv, CurrentGood
<1>12. Good(left, EntryOf(l), d, Excuses')
  <2>1. b2 \in Nat /\ b2 <= Len(jobs) /\ Here.scope = ToSet(jobs)
      BY <1>1, <1>3 DEF InScope
  <2> QED
      BY <1>1, <1>2, <1>4, <1>8, <1>9, <1>10, <1>11, <2>1, GoodLeave
<1> QED
    BY <1>6, <1>8, <1>9, <1>12

\* What a jump adds to its loop: the runs that leave it or go back.
LEMMA JumpMarks ==
  ASSUME IInv, InFunction, NEW isBreak \in BOOLEAN, NEW l, NEW left, JumpTo(l, isBreak, left),
         left \subseteq Path
  PROVE  /\ Marks
         /\ \A i \in 1 .. Len(scopes) : i # l - 1 => scopes'[i] = scopes[i] /\ bodies'[i + 1].atBreak = bodies[i + 1].atBreak
         /\ scopes'[l - 1].done =
              IF isBreak THEN scopes[l - 1].done \cup {p \in left : Running(p.now)} ELSE scopes[l - 1].done
         /\ scopes'[l - 1].again =
              IF isBreak THEN scopes[l - 1].again ELSE scopes[l - 1].again \cup {p \in left : Running(p.now)}
         /\ bodies'[l].atBreak =
              IF isBreak THEN bodies[l].atBreak \cup (ToSet(SubSeq(jobs, 1, scopes[l - 1].begin)) \cap ToSet(moved))
              ELSE bodies[l].atBreak
<1> DEFINE s == scopes[l - 1]
           b == bodies[l]
           k == Len(scopes)
           gone == {p \in left : Running(p.now)}
           outer == ToSet(SubSeq(jobs, 1, s.begin))
           ns == IF isBreak THEN [s EXCEPT !.done = @ \cup gone] ELSE [s EXCEPT !.again = @ \cup gone]
           nb == [b EXCEPT !.atBreak = @ \cup (outer \cap ToSet(moved))]
<1>1. /\ l \in 2 .. k + 1
      /\ scopes' = [scopes EXCEPT ![l - 1] = ns]
      /\ bodies' = IF isBreak THEN [bodies EXCEPT ![l] = nb] ELSE bodies
    BY DEF JumpTo
<1>2. /\ k \in Nat /\ scopes \in Seq(Scope) /\ bodies \in Seq(Body) /\ moved \in Seq(Var)
      /\ Len(bodies) = k + 1 /\ DOMAIN scopes = 1 .. k /\ DOMAIN bodies = 1 .. k + 1
    BY Facts, InnerFacts
<1>3. l - 1 \in 1 .. k /\ l \in 1 .. k + 1
    BY <1>1, <1>2
<1>4. s \in Scope /\ b \in Body
    BY <1>3, InnerFacts
<1>5. gone \subseteq Path /\ outer \cap ToSet(moved) \subseteq Var
    BY <1>2 DEF ToSet
<1>6. /\ ns \in Scope /\ ns.kind = s.kind /\ ns.begin = s.begin /\ ns.prevLoop = s.prevLoop
      /\ ns.entry = s.entry
      /\ ns.done = IF isBreak THEN s.done \cup gone ELSE s.done
      /\ ns.again = IF isBreak THEN s.again ELSE s.again \cup gone
  <2> HIDE DEF s, gone
  <2>1. s = [kind |-> s.kind, begin |-> s.begin, prevLoop |-> s.prevLoop,
             entry |-> s.entry, done |-> s.done, again |-> s.again]
        /\ s.kind \in BodyKinds \ {"function"} /\ s.begin \in Nat /\ s.prevLoop \in Nat
        /\ s.entry \in SUBSET Path /\ s.done \in SUBSET Path /\ s.again \in SUBSET Path
      BY <1>4 DEF Scope
  <2>2. CASE isBreak
    <3>1. ns = [kind |-> s.kind, begin |-> s.begin, prevLoop |-> s.prevLoop,
                entry |-> s.entry, done |-> s.done \cup gone, again |-> s.again]
        BY <2>1, <2>2
    <3> HIDE DEF ns
    <3> QED
        BY <1>5, <2>1, <2>2, <3>1 DEF Scope
  <2>3. CASE ~isBreak
    <3>1. ns = [kind |-> s.kind, begin |-> s.begin, prevLoop |-> s.prevLoop,
                entry |-> s.entry, done |-> s.done, again |-> s.again \cup gone]
        BY <2>1, <2>3
    <3> HIDE DEF ns
    <3> QED
        BY <1>5, <2>1, <2>3, <3>1 DEF Scope
  <2> QED
      BY <2>2, <2>3
<1>7. /\ nb \in Body /\ nb.kind = b.kind /\ nb.begin = b.begin /\ nb.backup = b.backup /\ nb.known = b.known
      /\ nb.atBreak = b.atBreak \cup (outer \cap ToSet(moved))
  <2> HIDE DEF b, outer
  <2>1. b = [kind |-> b.kind, begin |-> b.begin, backup |-> b.backup,
             known |-> b.known, atBreak |-> b.atBreak]
        /\ b.kind \in BodyKinds /\ b.begin \in Nat /\ b.backup \in Seq(Var)
        /\ b.known \in SUBSET Var /\ b.atBreak \in SUBSET Var
      BY <1>4 DEF Body
  <2> DEFINE w == outer \cap ToSet(moved)
  <2> HIDE DEF w
  <2>2. nb = [kind |-> b.kind, begin |-> b.begin, backup |-> b.backup,
              known |-> b.known, atBreak |-> b.atBreak \cup w]
    <3>1. nb = [b EXCEPT !.atBreak = b.atBreak \cup w]
        BY DEF w
    <3> HIDE DEF nb
    <3> QED
        BY <2>1, <3>1
  <2>3. w \subseteq Var /\ w = outer \cap ToSet(moved)
      BY <1>5 DEF w, outer
  <2> HIDE DEF nb
  <2> QED
      BY <2>1, <2>2, <2>3 DEF Body
<1> HIDE DEF s, b, k, gone, outer, ns, nb
<1>8. /\ scopes' \in Seq(Scope) /\ Len(scopes') = k
      /\ \A i \in 1 .. k : scopes'[i] = IF i = l - 1 THEN ns ELSE scopes[i]
  <2>1. scopes \in Seq(Scope) /\ ns \in Scope /\ l - 1 \in 1 .. Len(scopes)
      BY <1>2, <1>3, <1>6 DEF k
  <2> DEFINE m == l - 1
             sd == [scopes EXCEPT ![m] = ns]
  <2> HIDE DEF m
  <2>2. /\ sd \in Seq(Scope) /\ Len(sd) = Len(scopes)
        /\ \A i \in 1 .. Len(scopes) : sd[i] = IF i = m THEN ns ELSE scopes[i]
    <3>1. m \in 1 .. Len(scopes)
        BY <2>1 DEF m
    <3>2. \A i \in DOMAIN scopes : scopes[i] \in Scope
        BY <2>1
    <3>3. DOMAIN scopes = 1 .. Len(scopes) /\ Len(scopes) \in Nat
        BY <2>1
    <3>4. sd = [i \in 1 .. Len(scopes) |-> IF i = m THEN ns ELSE scopes[i]]
        BY <3>1, <3>3
    <3>5. sd \in [1 .. Len(scopes) -> Scope]
        BY <2>1, <3>2, <3>3, <3>4
    <3> HIDE DEF sd
    <3>6. sd \in Seq(Scope) /\ Len(sd) = Len(scopes)
        BY <3>3, <3>5, SeqDef
    <3> QED
        BY <3>4, <3>6
  <2> QED
      BY <1>1, <2>2 DEF m, k
<1>9. /\ bodies' \in Seq(Body) /\ Len(bodies') = Len(bodies)
      /\ \A i \in 1 .. k + 1 : bodies'[i] = IF isBreak /\ i = l THEN nb ELSE bodies[i]
  <2>1. CASE isBreak
    <3> DEFINE bd == [bodies EXCEPT ![l] = nb]
    <3>1. \A i \in DOMAIN bodies : bodies[i] \in Body
        BY <1>2
    <3>2. bd = [i \in 1 .. k + 1 |-> IF i = l THEN nb ELSE bodies[i]]
        BY <1>2, <1>3
    <3>3. bd \in [1 .. k + 1 -> Body] /\ k + 1 \in Nat
      <4>1. \A i \in 1 .. k + 1 : bodies[i] \in Body
          BY <1>2, <3>1
      <4> HIDE DEF bd
      <4> QED
          BY <1>2, <1>7, <3>2, <4>1
    <3> HIDE DEF bd
    <3>4. bd \in Seq(Body) /\ Len(bd) = k + 1
        BY <3>3, SeqDef
    <3>5. bodies' = bd
        BY <1>1, <2>1 DEF bd
    <3> QED
        BY <1>2, <2>1, <3>2, <3>4, <3>5
  <2>2. CASE ~isBreak
      BY <1>1, <1>2, <2>2
  <2> QED
      BY <2>1, <2>2
<1>10. \A i \in 1 .. k : /\ scopes'[i].kind = scopes[i].kind /\ scopes'[i].begin = scopes[i].begin
                         /\ scopes'[i].prevLoop = scopes[i].prevLoop /\ scopes'[i].entry = scopes[i].entry
    BY <1>6, <1>8 DEF s
<1>11. \A i \in 1 .. k + 1 : /\ bodies'[i].kind = bodies[i].kind /\ bodies'[i].begin = bodies[i].begin
                             /\ bodies'[i].known = bodies[i].known /\ bodies'[i].backup = bodies[i].backup
    BY <1>7, <1>9 DEF b
<1>12. Marks
    BY <1>8, <1>9, <1>10, <1>11 DEF Marks, k
<1>13. ASSUME NEW i \in 1 .. k, i # l - 1
       PROVE  scopes'[i] = scopes[i] /\ bodies'[i + 1].atBreak = bodies[i + 1].atBreak
  <2>1. i + 1 \in 1 .. k + 1 /\ i + 1 # l
      BY <1>1, <1>2, <1>13
  <2> QED
      BY <1>8, <1>9, <1>13, <2>1
<1>14. scopes'[l - 1] = ns /\ bodies'[l] = IF isBreak THEN nb ELSE b
    BY <1>3, <1>8, <1>9 DEF b
<1> QED
    BY <1>6, <1>7, <1>12, <1>13, <1>14 DEF s, b, k, gone, outer

\* The variables of the oldest jobs.
LEMMA JobsStart ==
  ASSUME jobs \in Seq(Var), NEW m \in 0 .. Len(jobs)
  PROVE  ToSet(SubSeq(jobs, 1, m)) = JobsFrom(1, m)
<1> DEFINE t == SubSeq(jobs, 1, m)
<1>1. DOMAIN t = 1 .. m /\ \A i \in 1 .. m : t[i] = jobs[i]
    OBVIOUS
<1> HIDE DEF t
<1>2. ToSet(t) = {jobs[i] : i \in 1 .. m}
    BY <1>1 DEF ToSet
<1> QED
    BY <1>2 DEF t, JobsFrom

\* The list seen where control goes back to the entry of the loop bodies[l], or
\* behind it with said.
LEMMA JumpRecast ==
  ASSUME IInv, InFunction, NEW l \in 2 .. Len(scopes) + 1, bodies[l].kind \in LoopKinds,
         NEW c, c = EntryOf(l), NEW d, NEW said, NEW e, NEW g,
         d = [Here EXCEPT !.scope = JobsFrom(1, scopes[l - 1].begin)], e = [c EXCEPT !.said = said],
         \A x \in JobsFrom(1, scopes[l - 1].begin) : x \in ToSet(moved) => x \in said \/ x \in g.gone,
         maybeLive \subseteq g.clash
  PROVE  Recast(c, d, e, g) /\ e.scope \subseteq c.scope
<1> DEFINE k == Len(scopes)
           b2 == scopes[l - 1].begin
<1>1. /\ jobs \in Seq(Var) /\ Len(jobs) \in Nat /\ k \in Nat /\ Len(bodies) = k + 1
      /\ moved \in Seq(Var)
      /\ Here.list = ToSet(moved) /\ Here.said = ToSet(moved) /\ Here.kept = Kept(bodies, Len(bodies))
    BY Facts, InnerFacts
<1>2. b2 \in 0 .. Len(jobs)
  <2>1. l - 1 \in 1 .. k
      BY <1>1
  <2> QED
      BY <2>1, InnerFacts
<1>3. /\ l \in Nat /\ l # 1
      /\ c.scope = Outer(jobs, scopes, l) /\ c.list = Known(bodies, l) /\ c.said = Known(bodies, l)
      /\ c.kept = Kept(bodies, l)
      /\ DOMAIN Kept(bodies, l) = 2 .. l
      /\ \A j \in 2 .. l : Kept(bodies, l)[j] = ToSet(bodies[j].backup)
    BY EntryIs DEF EntryOf
<1>4. /\ DOMAIN Here.kept = 2 .. k + 1
      /\ \A j \in 2 .. k + 1 : Here.kept[j] = ToSet(bodies[j].backup)
    BY <1>1 DEF Kept
<1> HIDE DEF b2, k
<1>5. c.scope = JobsFrom(1, b2)
  <2>1. c.scope = ToSet(SubSeq(jobs, 1, b2))
      BY <1>3 DEF Outer, b2
  <2> QED
      BY <1>1, <1>2, <2>1, JobsStart
<1>6. /\ d.scope = JobsFrom(1, b2) /\ d.list = ToSet(moved) /\ d.said = ToSet(moved) /\ d.kept = Here.kept
  <2>1. Here = [scope |-> Here.scope, list |-> Here.list, said |-> Here.said, kept |-> Here.kept]
      BY DEF Here, Context
  <2> QED
      BY <1>1, <2>1 DEF b2
<1>7. /\ e.scope = c.scope /\ e.list = c.list /\ e.said = said /\ e.kept = c.kept
  <2>1. c = [scope |-> c.scope, list |-> c.list, said |-> c.said, kept |-> c.kept]
      BY DEF EntryOf, Entry, Context
  <2> QED
      BY <2>1
<1>8. \A x \in c.list : x \in g.clash \/ x \in ToSet(moved)
  <2> TAKE x \in c.list
  <2>1. x \in bodies[l].known
      BY <1>3 DEF Known
  <2>2. l \in OpenBodies /\ bodies[l].kind # "block"
    <3>1. OpenBodies = 2 .. Len(scopes) + 1
        BY InnerFacts
    <3> QED
        BY <3>1 DEF LoopKinds
  <2>3. Retaken(x, l) \/ \E i \in DOMAIN moved : moved[i] = x
      BY <2>1, <2>2 DEF IInv, KnownKept
  <2> QED
      BY <2>3 DEF Retaken, ToSet
<1>9. \A j \in 2 .. l : j \in 2 .. k + 1 /\ e.kept[j] = d.kept[j]
  <2>1. \A j \in 2 .. l : j \in 2 .. k + 1
    <3>1. l \in 2 .. k + 1
        BY DEF k
    <3> QED
        BY <1>1, <3>1
  <2> QED
      BY <1>3, <1>4, <1>6, <1>7, <2>1
<1>10. /\ DOMAIN e.kept = 2 .. l /\ DOMAIN d.kept = 2 .. k + 1
    BY <1>3, <1>4, <1>6, <1>7
<1>11. ASSUME NEW j \in DOMAIN e.kept, NEW x, x \notin g.clash, Listed(e, j, x) PROVE Listed(d, j, x)
  <2>1. CASE x \in e.list
      BY <1>6, <1>7, <1>8, <1>11, <2>1 DEF Listed
  <2>2. CASE \E n \in DOMAIN e.kept : n > j /\ x \in e.kept[n]
      BY <1>9, <1>10, <2>2 DEF Listed
  <2> QED
      BY <1>11, <2>1, <2>2 DEF Listed
<1>12. e.scope \subseteq d.scope
    BY <1>5, <1>6, <1>7
<1>13. ASSUME NEW x \in e.scope
       PROVE  /\ x \in d.said => x \in e.said \/ x \in g.gone
              /\ x \in e.list => x \in g.clash \/ x \in d.list
              /\ \A j \in DOMAIN e.kept : x \in e.kept[j] =>
                   \/ x \in g.clash
                   \/ j \in DOMAIN d.kept /\ x \in d.kept[j] /\ (Listed(e, j, x) => Listed(d, j, x))
  <2>1. x \in d.said => x \in e.said \/ x \in g.gone
      BY <1>5, <1>6, <1>7 DEF b2
  <2>2. x \in e.list => x \in g.clash \/ x \in d.list
      BY <1>6, <1>7, <1>8
  <2>3. \A j \in DOMAIN e.kept : x \in e.kept[j] =>
                   \/ x \in g.clash
                   \/ j \in DOMAIN d.kept /\ x \in d.kept[j] /\ (Listed(e, j, x) => Listed(d, j, x))
      BY <1>9, <1>10, <1>11
  <2> QED
      BY <2>1, <2>2, <2>3
<1>14. Recast(c, d, e, g)
    BY <1>12, <1>13 DEF Recast
<1> QED
    BY <1>7, <1>14

\* The runs kept for the end of the loop stay good with those of the jump.
LEMMA JumpScopes ==
  ASSUME IInv, InFunction, NEW isBreak \in BOOLEAN, NEW l, NEW left, JumpTo(l, isBreak, left)
  PROVE  /\ ScopesGood' /\ CurrentGood' /\ Marks /\ Grown(Excuses, Excuses')
         /\ overDropped' \subseteq Var /\ forgotten' \subseteq Var
<1> DEFINE s == scopes[l - 1]
           b == bodies[l]
           k == Len(scopes)
           gone == {p \in left : Running(p.now)}
           c == EntryOf(l)
           d == [Here EXCEPT !.scope = JobsFrom(1, s.begin)]
           outer == ToSet(SubSeq(jobs, 1, s.begin))
           g == Excuses'
<1>1. /\ l \in 2 .. k + 1 /\ l = Home(scopes, k) /\ jobs' = jobs /\ paths' = Stopped(left)
      /\ forgotten' = IF isBreak THEN forgotten ELSE forgotten \cup ((outer \cap ToSet(moved)) \ b.known)
      /\ moved' = moved /\ conditional' = conditional /\ maybeLive' = maybeLive
    BY DEF JumpTo
<1>2. /\ Grown(Excuses, g) /\ Sane(g) /\ Good(left, c, d, g)
      /\ overDropped' \subseteq Var /\ forgotten' \subseteq Var
    BY JumpGood
<1>3. left \subseteq Path
    BY <1>2 DEF Good
<1>4. /\ Marks
      /\ \A i \in 1 .. k : i # l - 1 => scopes'[i] = scopes[i] /\ bodies'[i + 1].atBreak = bodies[i + 1].atBreak
      /\ scopes'[l - 1].done = IF isBreak THEN s.done \cup gone ELSE s.done
      /\ scopes'[l - 1].again = IF isBreak THEN s.again ELSE s.again \cup gone
      /\ bodies'[l].atBreak = IF isBreak THEN b.atBreak \cup (outer \cap ToSet(moved)) ELSE b.atBreak
    BY <1>3, JumpMarks
<1>5. /\ k \in Nat /\ DOMAIN scopes = 1 .. k /\ DOMAIN scopes' = 1 .. k /\ Len(scopes') = k
  <2>1. k \in Nat /\ DOMAIN scopes = 1 .. k /\ Len(scopes') = k /\ scopes' \in Seq(Scope)
      BY <1>4, Facts, InnerFacts DEF Marks
  <2> QED
      BY <2>1
<1>6. l - 1 \in 1 .. k /\ l \in 1 .. k + 1 /\ l > 1
    BY <1>1, <1>5
<1>7. /\ b.kind \in LoopKinds /\ s.kind \in LoopKinds /\ s.kind # "if"
  <2>1. k \in 0 .. k
      BY <1>5
  <2>2. b.kind \in LoopKinds /\ scopes[Home(scopes, k) - 1].kind \in LoopKinds
      BY <1>1, <1>6, <2>1, HomeFacts
  <2> QED
      BY <1>1, <2>2 DEF LoopKinds
<1>8. \A m \in 1 .. k + 1 : EntryOf(m)' = EntryOf(m)
    BY <1>1, <1>4, MarksEntry
<1>9. outer = JobsFrom(1, s.begin)
  <2>1. s.begin \in 0 .. Len(jobs) /\ jobs \in Seq(Var)
      BY <1>6, Facts, InnerFacts
  <2> DEFINE m == s.begin
  <2>2. m \in 0 .. Len(jobs)
      BY <2>1
  <2> HIDE DEF m
  <2>3. ToSet(SubSeq(jobs, 1, m)) = JobsFrom(1, m)
      BY <2>1, <2>2, JobsStart
  <2> QED
      BY <2>3 DEF m
<1>10. Good(gone, c, d, g)
    BY <1>2, GoodSub
<1>11. ASSUME NEW i \in 1 .. k, i # l - 1 PROVE ScopeGood(i)'
  <2>1. \A m \in 1 .. i + 1 : EntryOf(m)' = EntryOf(m)
    <3>1. \A m \in 1 .. i + 1 : m \in 1 .. k + 1
        BY <1>5
    <3> QED
        BY <1>8, <3>1
  <2>2. \A m \in 1 .. i : scopes'[m].kind = scopes[m].kind
    <3>1. \A m \in 1 .. i : m \in 1 .. k
        BY <1>5
    <3> QED
        BY <1>4, <3>1 DEF Marks
  <2>3. scopes'[i] = scopes[i] /\ bodies'[i + 1].atBreak = bodies[i + 1].atBreak
      BY <1>4, <1>11
  <2>4. bodies'[i + 1].backup = bodies[i + 1].backup
    <3>1. i + 1 \in 1 .. k + 1
        BY <1>5
    <3> QED
        BY <1>4, <3>1 DEF Marks
  <2>5. i \in DOMAIN scopes
      BY <1>5
  <2> HIDE DEF g
  <2> QED
      BY <1>2, <2>1, <2>2, <2>3, <2>4, <2>5, ScopeKept DEF g
<1>12. ASSUME NEW i, i = l - 1 PROVE ScopeGood(i)'
  <2> DEFINE f == EntryOf(Home(scopes, i - 1))
  <2>1. i \in DOMAIN scopes /\ i + 1 = l /\ i - 1 \in 0 .. k
      BY <1>1, <1>5, <1>6, <1>12
  <2>2. /\ Good(s.entry, f, c, Excuses)
        /\ Good(s.done, c, [c EXCEPT !.said = b.atBreak], Excuses) /\ Good(s.again, c, c, Excuses)
    <3>1. ScopeGood(i)
        BY <2>1 DEF IInv, ScopesGood
    <3> HIDE DEF c, f
    <3> QED
        BY <1>7, <1>12, <2>1, <3>1 DEF ScopeGood, c, f
  <2>3. Home(scopes', i - 1) = Home(scopes, i - 1) /\ Home(scopes, i - 1) \in 1 .. k + 1
      BY <1>4, <2>1, MarksHome
  <2>4. EntryOf(i + 1)' = c
      BY <1>6, <1>8, <2>1
  <2>5. EntryOf(Home(scopes, i - 1))' = f
    <3> DEFINE m == Home(scopes, i - 1)
    <3>1. m \in 1 .. k + 1 /\ Home(scopes', i - 1) = m
        BY <2>3
    <3>2. Entry(jobs', scopes', bodies', Home(scopes', i - 1)) = Entry(jobs', scopes', bodies', m)
        BY <3>1
    <3> HIDE DEF m
    <3>3. \A q \in 1 .. k + 1 : Entry(jobs', scopes', bodies', q) = EntryOf(q)
        BY <1>8 DEF EntryOf
    <3>4. Entry(jobs', scopes', bodies', m) = EntryOf(m)
        BY <3>1, <3>3
    <3> QED
        BY <3>2, <3>4 DEF m, EntryOf
  <2> DEFINE sd == scopes'[i]
             bd == bodies'[i + 1]
  <2>6. /\ sd.kind = s.kind /\ sd.entry = s.entry
        /\ sd.done = IF isBreak THEN s.done \cup gone ELSE s.done
        /\ sd.again = IF isBreak THEN s.again ELSE s.again \cup gone
        /\ bd.atBreak = IF isBreak THEN b.atBreak \cup (outer \cap ToSet(moved)) ELSE b.atBreak
      BY <1>4, <1>6, <1>12, <2>1 DEF Marks
  <2> HIDE DEF sd, bd
  <2>7. maybeLive \subseteq g.clash /\ g.gone = forgotten' \cup overDropped'
      BY <1>1 DEF Excuses
  <2> HIDE DEF f, g
  <2>8. Good(sd.entry, f, c, g)
      BY <1>2, <2>2, <2>6, GoodGrows
  <2>9. Good(sd.done, c, [c EXCEPT !.said = bd.atBreak], g)
    <3>1. CASE isBreak
      <4> DEFINE said == bd.atBreak
                 e == [c EXCEPT !.said = said]
                 o == [c EXCEPT !.said = b.atBreak]
      <4>1. \A x \in JobsFrom(1, s.begin) : x \in ToSet(moved) => x \in said \/ x \in g.gone
          BY <1>9, <2>6, <3>1
      <4>2. Recast(c, d, e, g)
        <5> HIDE DEF said
        <5>1. e = [c EXCEPT !.said = said] /\ c = EntryOf(l) /\ d = [Here EXCEPT !.scope = JobsFrom(1, scopes[l - 1].begin)]
            OBVIOUS
        <5> HIDE DEF c, d, e, s
        <5>2. \A x \in JobsFrom(1, scopes[l - 1].begin) : x \in ToSet(moved) => x \in said \/ x \in g.gone
            BY <4>1 DEF s
        <5> QED
            BY <1>1, <1>7, <2>7, <5>1, <5>2, JumpRecast
      <4>3. Recast(c, o, e, g)
        <5>1. b.atBreak \subseteq said
            BY <2>6, <3>1
        <5>2. c = [scope |-> c.scope, list |-> c.list, said |-> c.said, kept |-> c.kept]
            BY DEF EntryOf, Entry, Context
        <5>3. /\ e.scope = o.scope /\ e.list = o.list /\ e.kept = o.kept /\ e.said = said /\ o.said = b.atBreak
            BY <5>2
        <5> HIDE DEF c, e, o
        <5> QED
            BY <5>1, <5>3 DEF Recast, Listed
      <4> HIDE DEF c, d, e, o, gone
      <4>4. Good(s.done, c, e, g)
          BY <1>2, <2>2, <4>3, GoodRecast DEF o
      <4>5. Good(gone, c, e, g)
        <5>1. Grown(g, g)
            BY DEF Grown
        <5> QED
            BY <1>10, <4>2, <5>1, GoodRecast
      <4>6. Good(s.done \cup gone, c, e, g)
          BY <4>4, <4>5, GoodUnion
      <4> QED
          BY <2>6, <3>1, <4>6 DEF e
    <3>2. CASE ~isBreak
      <4> HIDE DEF c
      <4> QED
          BY <1>2, <2>2, <2>6, <3>2, GoodGrows
    <3> QED
        BY <3>1, <3>2
  <2>10. Good(sd.again, c, c, g)
    <3>1. CASE isBreak
      <4> HIDE DEF c
      <4> QED
          BY <1>2, <2>2, <2>6, <3>1, GoodGrows
    <3>2. CASE ~isBreak
      <4>1. c.said = b.known /\ c = [c EXCEPT !.said = c.said]
        <5>1. c = [scope |-> c.scope, list |-> c.list, said |-> c.said, kept |-> c.kept]
            BY DEF EntryOf, Entry, Context
        <5>2. c.said = Known(bodies, l)
            BY EntryIs DEF EntryOf
        <5> QED
            BY <1>6, <5>1, <5>2 DEF Known
      <4> DEFINE said == c.said
      <4>2. \A x \in JobsFrom(1, scopes[l - 1].begin) : x \in ToSet(moved) => x \in said \/ x \in g.gone
        <5>1. (outer \cap ToSet(moved)) \ b.known \subseteq g.gone
            BY <1>1, <2>7, <3>2
        <5>2. outer = JobsFrom(1, scopes[l - 1].begin)
            BY <1>9
        <5> HIDE DEF outer
        <5> QED
            BY <4>1, <5>1, <5>2
      <4>3. Recast(c, d, c, g)
        <5>1. c = [c EXCEPT !.said = said] /\ c = EntryOf(l) /\ d = [Here EXCEPT !.scope = JobsFrom(1, scopes[l - 1].begin)]
            BY <4>1
        <5> HIDE DEF c, d, said
        <5> QED
            BY <1>1, <1>7, <2>7, <4>2, <5>1, JumpRecast
      <4> HIDE DEF c, d, gone
      <4>4. Good(gone, c, c, g)
        <5>1. Grown(g, g)
            BY DEF Grown
        <5> QED
            BY <1>10, <4>3, <5>1, GoodRecast
      <4>5. Good(s.again, c, c, g)
          BY <1>2, <2>2, GoodGrows
      <4> QED
          BY <2>6, <3>2, <4>4, <4>5, GoodUnion
    <3> QED
        BY <3>1, <3>2
  <2> HIDE DEF c
  <2>11. sd.kind # "if"
      BY <1>7, <2>6
  <2> QED
      BY <2>4, <2>5, <2>8, <2>9, <2>10, <2>11 DEF ScopeGood, sd, bd, f, g
<1>13. ScopesGood'
  <2>1. \A i \in 1 .. k : ScopeGood(i)'
      BY <1>11, <1>12
  <2> QED
      BY <1>5, <2>1 DEF ScopesGood
<1>14. CurrentGood'
  <2>1. k \in 0 .. k
      BY <1>5
  <2>2. Home(scopes', k) = l
      BY <1>1, <1>4, <2>1, MarksHome
  <2>3. EntryOf(Home(scopes, Len(scopes)))' = c
    <3>1. Entry(jobs', scopes', bodies', Home(scopes', Len(scopes'))) = Entry(jobs', scopes', bodies', l)
        BY <1>5, <2>2
    <3>2. Entry(jobs', scopes', bodies', l) = EntryOf(l)
        BY <1>6, <1>8 DEF EntryOf
    <3> QED
        BY <3>1, <3>2 DEF EntryOf
  <2> HIDE DEF c, g, d
  <2>4. Good(Stopped(left), c, d, g)
      BY <1>2, GoodSub DEF Stopped
  <2>5. Good(Stopped(left), c, Here', g)
    <3>1. \A p \in Stopped(left) : ~Running(p.now)
        BY DEF Stopped
    <3> QED
        BY <2>4, <3>1, GoodStopped
  <2> QED
      BY <1>1, <2>3, <2>5 DEF CurrentGood, g
<1> QED
    BY <1>2, <1>4, <1>13, <1>14

\* break and continue keep the invariant, even where a loop used as a value
\* lets loop_job_begin_index reach below the loop.
LEMMA JumpKeeps ==
  ASSUME IInv, NEW isBreak \in BOOLEAN, Jump(isBreak)
  PROVE  IInv'
<1>1. Statement /\ \E l, left : JumpTo(l, isBreak, left)
    BY JumpIs
<1>2. PICK l, left : JumpTo(l, isBreak, left)
    BY <1>1
<1>3. InFunction /\ destroyScope = TRUE /\ returned = FALSE /\ size' \in Nat /\ inElse' = inElse
    BY <1>1, OpenFacts
<1>4. /\ ScopesGood' /\ CurrentGood' /\ Marks /\ Grown(Excuses, Excuses')
      /\ overDropped' \subseteq Var /\ forgotten' \subseteq Var
    BY <1>2, <1>3, JumpScopes
<1>5. /\ paths' = Stopped(left) /\ destroyScope' = FALSE /\ moved' = moved /\ conditional' = conditional
      /\ maybeLive' = maybeLive /\ jobs' = jobs /\ loopBegin' = loopBegin
      /\ declared' = declared /\ returned' = returned /\ selfAssigned' = selfAssigned
      /\ forgotten \subseteq forgotten'
    BY <1>2 DEF JumpTo
<1>6. /\ moved \in Seq(Var) /\ jobs \in Seq(Var) /\ loopBegin \in Nat /\ declared \subseteq Var
      /\ conditional \subseteq Var /\ maybeLive \subseteq Var /\ selfAssigned \subseteq Var
    BY Facts
<1>7. Shape' /\ LoopBegins'
    BY <1>3, <1>4, <1>5, <1>6, MarksShape
<1>8. CheckTypeOK'
  <2>1. bodies' \in Seq(Body)
      BY <1>4 DEF Marks
  <2> QED
      BY <1>4, <1>5, <1>6, <2>1 DEF CheckTypeOK
<1>9. EmitTypeOK'
  <2>1. scopes' \in Seq(Scope) /\ destroyScope' \in BOOLEAN
      BY <1>4, <1>5 DEF Marks
  <2> QED
      BY <1>4, <1>5, <1>6, <2>1, EmitTypes
<1>10. ListDeclared' /\ Doubles' /\ KnownKept'
  <2>1. Len(bodies') = Len(bodies)
      BY <1>4 DEF Marks
  <2>2. \A n \in OpenBodies : /\ bodies'[n].kind = bodies[n].kind /\ bodies'[n].known = bodies[n].known
                               /\ bodies'[n].begin = bodies[n].begin /\ bodies'[n].backup = bodies[n].backup
    <3>1. \A n \in OpenBodies : n \in 1 .. Len(scopes) + 1
      <4>1. OpenBodies = 2 .. Len(scopes) + 1 /\ Len(scopes) \in Nat
          BY <1>3, InnerFacts, Facts
      <4> QED
          BY <4>1
    <3> QED
        BY <1>4, <3>1 DEF Marks
  <2> QED
      BY <1>3, <1>5, <1>6, <2>1, <2>2, ListsStay
<1>11. Jumped'
  <2>1. \A p \in paths' : ~Running(p.now)
      BY <1>5 DEF Stopped
  <2> QED
      BY <1>5, <2>1 DEF Jumped
<1> QED
    BY <1>4, <1>7, <1>8, <1>9, <1>10, <1>11 DEF IInv

(***************************************************************************)
(* What the ends of bodies do to the lists.                                *)
(***************************************************************************)
\* What is twice on a part of the list is twice on the list.
LEMMA TwicePart ==
  ASSUME NEW s \in Seq(Var), NEW n \in 0 .. Len(s), NEW x
  PROVE  /\ Twice(SubSeq(s, 1, n), x) => Twice(s, x)
         /\ Twice(SubSeq(s, n + 1, Len(s)), x) => Twice(s, x)
         /\ x \in ToSet(SubSeq(s, 1, n)) /\ x \in ToSet(SubSeq(s, n + 1, Len(s))) => Twice(s, x)
<1> DEFINE a == SubSeq(s, 1, n)
           b == SubSeq(s, n + 1, Len(s))
<1>1. Len(s) \in Nat /\ n \in Nat /\ n <= Len(s) /\ DOMAIN s = 1 .. Len(s)
    OBVIOUS
<1>2. DOMAIN a = 1 .. n /\ \A i \in 1 .. n : i \in DOMAIN s /\ a[i] = s[i]
    OBVIOUS
<1>3. DOMAIN b = 1 .. (Len(s) - n) /\ \A i \in 1 .. (Len(s) - n) : n + i \in DOMAIN s /\ b[i] = s[n + i]
    BY ListEnd
<1> HIDE DEF a, b
<1>4. \A i \in 1 .. n, j \in 1 .. (Len(s) - n) : n + j # i
    BY <1>1
<1>5. \A i, j \in 1 .. (Len(s) - n) : i # j => n + i # n + j
    BY <1>1
<1>6. Twice(a, x) => Twice(s, x)
    BY <1>2 DEF Twice
<1>7. Twice(b, x) => Twice(s, x)
  <2> SUFFICES ASSUME Twice(b, x) PROVE Twice(s, x)
      OBVIOUS
  <2>1. PICK i \in DOMAIN b, j \in DOMAIN b : i # j /\ b[i] = x /\ b[j] = x
      BY DEF Twice
  <2>2. n + i \in DOMAIN s /\ n + j \in DOMAIN s /\ n + i # n + j /\ s[n + i] = x /\ s[n + j] = x
      BY <1>3, <1>5, <2>1
  <2> QED
      BY <2>2 DEF Twice
<1>8. x \in ToSet(a) /\ x \in ToSet(b) => Twice(s, x)
  <2> SUFFICES ASSUME x \in ToSet(a), x \in ToSet(b) PROVE Twice(s, x)
      OBVIOUS
  <2>1. PICK i \in DOMAIN a : a[i] = x
      BY DEF ToSet
  <2>2. PICK j \in DOMAIN b : b[j] = x
      BY DEF ToSet
  <2>3. i \in DOMAIN s /\ n + j \in DOMAIN s /\ i # n + j /\ s[i] = x /\ s[n + j] = x
      BY <1>2, <1>3, <1>4, <2>1, <2>2
  <2> QED
      BY <2>3 DEF Twice
<1> QED
    BY <1>6, <1>7, <1>8 DEF a, b

\* A list made of two.
Joined(t, s, u) ==
  /\ t \in Seq(Var) /\ ToSet(t) = ToSet(s) \cup ToSet(u)
  /\ \A i \in DOMAIN s : i \in DOMAIN t /\ t[i] = s[i]
  /\ \A x \in Var : Twice(t, x) => Twice(s, x) \/ Twice(u, x) \/ (x \in ToSet(s) /\ x \in ToSet(u))

\* restore_moved_ids puts the backup behind the list.
LEMMA JoinedIs ==
  ASSUME NEW s \in Seq(Var), NEW u \in Seq(Var), NEW t, t = s \o u
  PROVE  Joined(t, s, u)
<1>1. /\ t \in Seq(Var) /\ Len(s) \in Nat /\ Len(u) \in Nat /\ Len(t) = Len(s) + Len(u)
      /\ DOMAIN s = 1 .. Len(s) /\ DOMAIN u = 1 .. Len(u) /\ DOMAIN t = 1 .. Len(t)
      /\ \A i \in 1 .. Len(s) : t[i] = s[i]
      /\ \A i \in 1 .. Len(u) : t[Len(s) + i] = u[i]
    OBVIOUS
<1>2. \A i \in DOMAIN t : i \in DOMAIN s \/ (i - Len(s) \in DOMAIN u /\ i = Len(s) + (i - Len(s)))
    BY <1>1
<1>3. \A i \in DOMAIN s : i \in DOMAIN t /\ t[i] = s[i]
    BY <1>1
<1>4. \A i \in DOMAIN t : i \in DOMAIN s \/ (i - Len(s) \in DOMAIN u /\ t[i] = u[i - Len(s)])
  <2> TAKE i \in DOMAIN t
  <2>1. CASE i \in DOMAIN s
      BY <2>1
  <2>2. CASE i - Len(s) \in DOMAIN u /\ i = Len(s) + (i - Len(s))
    <3> DEFINE j == i - Len(s)
    <3>1. j \in DOMAIN u /\ i = Len(s) + j
        BY <2>2
    <3> HIDE DEF j
    <3>2. t[i] = u[j]
        BY <1>1, <3>1
    <3> QED
        BY <3>1, <3>2 DEF j
  <2> QED
      BY <1>2, <2>1, <2>2
<1>5. ASSUME NEW x \in Var, Twice(t, x)
      PROVE  Twice(s, x) \/ Twice(u, x) \/ (x \in ToSet(s) /\ x \in ToSet(u))
  <2>1. PICK i \in DOMAIN t, j \in DOMAIN t : i # j /\ t[i] = x /\ t[j] = x
      BY <1>5 DEF Twice
  <2> DEFINE p == i - Len(s)
             q == j - Len(s)
  <2>2. p # q
      BY <1>1, <2>1
  <2>3. (i \in DOMAIN s /\ s[i] = x) \/ (p \in DOMAIN u /\ u[p] = x)
    <3>1. i \in DOMAIN s \/ (p \in DOMAIN u /\ t[i] = u[p])
        BY <1>4, <2>1
    <3> HIDE DEF p
    <3> QED
        BY <1>3, <2>1, <3>1
  <2>4. (j \in DOMAIN s /\ s[j] = x) \/ (q \in DOMAIN u /\ u[q] = x)
    <3>1. j \in DOMAIN s \/ (q \in DOMAIN u /\ t[j] = u[q])
        BY <1>4, <2>1
    <3> HIDE DEF q
    <3> QED
        BY <1>3, <2>1, <3>1
  <2> HIDE DEF p, q
  <2> QED
      BY <2>1, <2>2, <2>3, <2>4 DEF Twice, ToSet
<1>6. ToSet(t) = ToSet(s) \cup ToSet(u)
  <2>1. ASSUME NEW i \in DOMAIN t PROVE t[i] \in ToSet(s) \cup ToSet(u)
    <3> DEFINE j == i - Len(s)
    <3>1. i \in DOMAIN s \/ (j \in DOMAIN u /\ t[i] = u[j])
        BY <1>4
    <3> HIDE DEF j
    <3> QED
        BY <1>3, <3>1 DEF ToSet
  <2>2. ToSet(s) \subseteq ToSet(t)
      BY <1>3 DEF ToSet
  <2>3. ASSUME NEW i \in DOMAIN u PROVE u[i] \in ToSet(t)
    <3> DEFINE j == Len(s) + i
    <3>1. j \in DOMAIN t /\ t[j] = u[i]
        BY <1>1
    <3> HIDE DEF j
    <3> QED
        BY <3>1 DEF ToSet
  <2>4. ToSet(t) \subseteq ToSet(s) \cup ToSet(u)
      BY <2>1 DEF ToSet
  <2>5. ToSet(u) \subseteq ToSet(t)
      BY <2>3 DEF ToSet
  <2> QED
      BY <2>2, <2>4, <2>5
<1> QED
    BY <1>1, <1>3, <1>5, <1>6 DEF Joined

\* m is the list s after the last statement of the body b.
LinkedAs(m, s, b, ret, stale) ==
  /\ m \in Seq(Var) /\ stale \in Seq(Var)
  /\ ToSet(m) \subseteq ToSet(s) \cup ToSet(stale)
  /\ \A i \in DOMAIN s : i <= b.begin => i \in DOMAIN m /\ m[i] = s[i]
  /\ \A x \in Var : Twice(m, x) => Twice(s, x) \/ x \in ToSet(stale)
  /\ ~ret => m = s /\ ToSet(stale) = {}

\* The list at the end of a body: shorter behind a return, or longer by what a
\* reversed vector::erase brought back.
LEMMA LinkedIs ==
  ASSUME moved \in Seq(Var), NEW b \in Body, NEW ret \in BOOLEAN, NEW stale \in Stale(b, ret),
         NEW m, m = Linked(b, ret, stale)
  PROVE  LinkedAs(m, moved, b, ret, stale)
<1>1. b.begin \in Nat /\ Len(moved) \in Nat /\ DOMAIN moved = 1 .. Len(moved)
    BY DEF Body
<1>2. stale \in Seq(Var) /\ (~ret => stale = <<>>)
  <2>0. <<>> \in Seq(Var)
      OBVIOUS
  <2>1. CASE stale = <<>>
      BY <2>0, <2>1
  <2>2. CASE stale # <<>>
    <3> DEFINE k == b.begin - Len(moved)
    <3>1. ret /\ Len(moved) < b.begin /\ stale \in [1 .. k -> Var]
        BY <2>2 DEF Stale
    <3>2. k \in Nat
        BY <1>1, <3>1
    <3> HIDE DEF k
    <3>3. stale \in Seq(Var)
        BY <3>1, <3>2, SeqDef
    <3> QED
        BY <3>1, <3>3
  <2> QED
      BY <2>1, <2>2
<1>3. CASE ret /\ Len(moved) > b.begin
  <2> DEFINE n == b.begin
  <2>1. n \in 0 .. Len(moved) /\ m = SubSeq(moved, 1, n)
      BY <1>1, <1>3 DEF Linked
  <2> HIDE DEF n
  <2>2. m \in Seq(Var) /\ DOMAIN m = 1 .. n /\ \A i \in 1 .. n : i \in DOMAIN moved /\ m[i] = moved[i]
      BY <2>1
  <2>3. ToSet(m) \subseteq ToSet(moved)
      BY <2>2 DEF ToSet
  <2>4. \A x \in Var : Twice(m, x) => Twice(moved, x)
      BY <2>1, TwicePart
  <2>5. \A i \in DOMAIN moved : i <= n => i \in 1 .. n
      BY <1>1, <2>1
  <2> QED
      BY <1>2, <1>3, <2>2, <2>3, <2>4, <2>5 DEF LinkedAs, n
<1>4. CASE ~(ret /\ Len(moved) > b.begin)
  <2>1. m = moved \o stale
      BY <1>4 DEF Linked
  <2>2. Joined(m, moved, stale)
      BY <1>2, <2>1, JoinedIs
  <2>3. ~ret => m = moved /\ ToSet(stale) = {}
    <3>1. moved \o <<>> = moved
        OBVIOUS
    <3>2. ToSet(<<>>) = {}
        BY DEF ToSet
    <3> QED
        BY <1>2, <2>1, <3>1, <3>2
  <2>4. \A x \in Var : Twice(stale, x) => x \in ToSet(stale)
      BY DEF Twice, ToSet
  <2> QED
      BY <1>2, <2>2, <2>3, <2>4 DEF LinkedAs, Joined
<1> QED
    BY <1>3, <1>4

\* rest and bk are what the end of the branch b makes of the list m.
SplitAs(rest, bk, m, b) ==
  /\ rest \in Seq(Var) /\ bk \in Seq(Var)
  /\ ToSet(rest) \subseteq ToSet(m) /\ ToSet(m) \subseteq ToSet(rest) \cup ToSet(bk)
  /\ \A i \in DOMAIN m : i <= b.begin => i \in DOMAIN rest /\ rest[i] = m[i]
  /\ \A x \in Var : Twice(rest, x) => Twice(m, x)
  /\ \/ bk = b.backup
     \/ /\ ToSet(bk) \subseteq ToSet(m)
        /\ \A x \in Var : Twice(bk, x) \/ (x \in ToSet(rest) /\ x \in ToSet(bk)) => Twice(m, x)

\* extractEnd splits the list at the begin of the body.
LEMMA SplitIs ==
  ASSUME NEW b \in Body, NEW m \in Seq(Var), NEW rest, rest = WithoutNew(b, m), NEW bk, bk = Backup(b, m)
  PROVE  SplitAs(rest, bk, m, b)
<1>1. b.begin \in Nat /\ Len(m) \in Nat /\ DOMAIN m = 1 .. Len(m) /\ b.backup \in Seq(Var)
    BY DEF Body
<1>2. CASE Len(m) <= b.begin
  <2>1. rest = m /\ bk = b.backup
      BY <1>2 DEF WithoutNew, Backup
  <2> QED
      BY <1>1, <2>1 DEF SplitAs
<1>3. CASE ~(Len(m) <= b.begin)
  <2> DEFINE n == b.begin
  <2>0. rest = SubSeq(m, 1, n) /\ bk = SubSeq(m, n + 1, Len(m))
      BY <1>3 DEF WithoutNew, Backup
  <2>01. n \in 0 .. Len(m)
      BY <1>1, <1>3
  <2>1. n \in 0 .. Len(m) /\ rest = SubSeq(m, 1, n) /\ bk = SubSeq(m, n + 1, Len(m))
      BY <2>0, <2>01
  <2> HIDE DEF n
  <2>2. rest \in Seq(Var) /\ DOMAIN rest = 1 .. n /\ \A i \in 1 .. n : i \in DOMAIN m /\ rest[i] = m[i]
      BY <2>1
  <2>3. /\ bk \in Seq(Var) /\ DOMAIN bk = 1 .. (Len(m) - n)
        /\ \A i \in 1 .. (Len(m) - n) : n + i \in DOMAIN m /\ bk[i] = m[n + i]
        /\ \A i \in n + 1 .. Len(m) : i - n \in DOMAIN bk /\ bk[i - n] = m[i]
    <3>1. /\ bk \in Seq(Var) /\ DOMAIN bk = 1 .. (Len(m) - n)
        BY <2>1, ListEnd
    <3>2. /\ \A i \in 1 .. (Len(m) - n) : n + i \in DOMAIN m /\ bk[i] = m[n + i]
        BY <2>1, ListEnd
    <3>3. \A i \in n + 1 .. Len(m) : i - n \in DOMAIN bk /\ bk[i - n] = m[i]
        BY <2>1, ListEnd
    <3> QED
        BY <3>1, <3>2, <3>3
  <2>4. ToSet(rest) \subseteq ToSet(m)
      BY <2>2 DEF ToSet
  <2>5. ToSet(bk) \subseteq ToSet(m)
      BY <2>3 DEF ToSet
  <2>6. ToSet(m) \subseteq ToSet(rest) \cup ToSet(bk)
    <3> SUFFICES ASSUME NEW i \in DOMAIN m PROVE m[i] \in ToSet(rest) \cup ToSet(bk)
        BY DEF ToSet
    <3>1. i \in 1 .. n \/ i \in n + 1 .. Len(m)
        BY <1>1, <2>1
    <3>2. CASE i \in 1 .. n
        BY <2>2, <3>2 DEF ToSet
    <3>3. CASE i \in n + 1 .. Len(m)
        BY <2>3, <3>3 DEF ToSet
    <3> QED
        BY <3>1, <3>2, <3>3
  <2>7. \A i \in DOMAIN m : i <= n => i \in DOMAIN rest /\ rest[i] = m[i]
    <3>1. \A i \in DOMAIN m : i <= n => i \in 1 .. n
        BY <1>1, <2>1
    <3> QED
        BY <2>2, <3>1
  <2>8. \A x \in Var : /\ Twice(rest, x) => Twice(m, x)
                       /\ Twice(bk, x) \/ (x \in ToSet(rest) /\ x \in ToSet(bk)) => Twice(m, x)
      BY <2>1, TwicePart
  <2> QED
      BY <2>2, <2>3, <2>4, <2>5, <2>6, <2>7, <2>8 DEF SplitAs, n
<1> QED
    BY <1>2, <1>3

(***************************************************************************)
(* Leaving a scope, in the context around it.                              *)
(***************************************************************************)
\* The body n + 1 is closed: its list goes back on the list of moved ones, or is
\* given up.
LEMMA DropRecast ==
  ASSUME NEW n \in Nat, NEW f, NEW c, NEW e, NEW g,
         e.scope = c.scope, DOMAIN c.kept = 2 .. n + 1, DOMAIN e.kept = 2 .. n,
         \A j \in 2 .. n : e.kept[j] = c.kept[j],
         \A x \in e.scope : x \in c.said => x \in e.said \/ x \in g.gone,
         \A x \in e.scope : x \in e.list => \/ x \in g.clash \/ x \in c.list
                                            \/ n > 0 /\ n + 1 \notin DOMAIN f.kept /\ x \in c.kept[n + 1]
  PROVE  Recast(f, c, e, g)
<1>1. \A j \in 2 .. n : j \in 2 .. n + 1
    OBVIOUS
<1>2. n > 0 => n + 1 \in 2 .. n + 1
    OBVIOUS
<1>3. \A j \in 2 .. n : n + 1 > j
    OBVIOUS
<1>4. ASSUME NEW x \in e.scope, x \notin g.clash, NEW j \in 2 .. n, Listed(e, j, x) PROVE Listed(c, j, x)
  <2>1. CASE x \in e.list
    <3>1. x \in c.list \/ (n > 0 /\ x \in c.kept[n + 1])
        BY <1>4, <2>1
    <3> QED
        BY <1>2, <1>3, <3>1 DEF Listed
  <2>2. CASE \E q \in DOMAIN e.kept : q > j /\ x \in e.kept[q]
      BY <1>1, <2>2 DEF Listed
  <2> QED
      BY <1>4, <2>1, <2>2 DEF Listed
<1>5. ASSUME NEW x \in e.scope
      PROVE  /\ x \in c.said => x \in e.said \/ x \in g.gone
             /\ x \in e.list => \/ x \in g.clash \/ x \in c.list
                                \/ \E j \in DOMAIN c.kept \ DOMAIN f.kept : x \in c.kept[j]
             /\ \A j \in DOMAIN e.kept : x \in e.kept[j] =>
                  \/ x \in g.clash
                  \/ j \in DOMAIN c.kept /\ x \in c.kept[j] /\ (Listed(e, j, x) => Listed(c, j, x))
  <2>1. x \in e.list => \/ x \in g.clash \/ x \in c.list
                        \/ \E j \in DOMAIN c.kept \ DOMAIN f.kept : x \in c.kept[j]
      BY <1>2
  <2>2. \A j \in DOMAIN e.kept : x \in e.kept[j] =>
                  \/ x \in g.clash
                  \/ j \in DOMAIN c.kept /\ x \in c.kept[j] /\ (Listed(e, j, x) => Listed(c, j, x))
      BY <1>1, <1>4
  <2> QED
      BY <2>1, <2>2
<1> QED
    BY <1>5 DEF Recast

\* The lists of the body n + 1 are replaced.
LEMMA BackRecast ==
  ASSUME NEW n \in Nat, n > 0, NEW f, NEW c, NEW e, NEW g,
         e.scope = c.scope, DOMAIN c.kept = 2 .. n + 1, DOMAIN e.kept = 2 .. n + 1,
         \A j \in 2 .. n : e.kept[j] = c.kept[j],
         \A x \in e.scope : x \in c.said => x \in e.said \/ x \in g.gone,
         \A x \in e.scope : x \in e.list => x \in g.clash \/ x \in c.list,
         \A x \in e.scope : x \in e.kept[n + 1] =>
            x \in g.clash \/ (x \notin e.list /\ (x \in c.list \/ x \in c.kept[n + 1]))
  PROVE  Recast(f, c, e, g)
<1>1. \A j \in 2 .. n + 1 : j \in 2 .. n \/ j = n + 1
    OBVIOUS
<1>2. n + 1 \in 2 .. n + 1 /\ \A j \in 2 .. n : n + 1 > j /\ j \in 2 .. n + 1
    OBVIOUS
<1>3. \A j \in 2 .. n + 1 : ~(j > n + 1)
    OBVIOUS
<1>4. ASSUME NEW x \in e.scope, x \notin g.clash, NEW j \in 2 .. n, Listed(e, j, x) PROVE Listed(c, j, x)
  <2>1. CASE x \in e.list
      BY <1>4, <2>1 DEF Listed
  <2>2. CASE \E q \in DOMAIN e.kept : q > j /\ x \in e.kept[q]
    <3>1. PICK q \in 2 .. n + 1 : q > j /\ x \in e.kept[q]
        BY <2>2
    <3>2. CASE q \in 2 .. n
        BY <1>2, <3>1, <3>2 DEF Listed
    <3>3. CASE q = n + 1
      <4>1. x \in c.list \/ x \in c.kept[n + 1]
          BY <1>4, <3>1, <3>3
      <4> QED
          BY <1>2, <4>1 DEF Listed
    <3> QED
        BY <1>1, <3>2, <3>3
  <2> QED
      BY <1>4, <2>1, <2>2 DEF Listed
<1>5. ASSUME NEW x \in e.scope, NEW j \in DOMAIN e.kept, x \in e.kept[j]
      PROVE  \/ x \in g.clash
             \/ x \in c.list /\ ~Listed(e, j, x)
             \/ j \in DOMAIN c.kept /\ x \in c.kept[j] /\ (Listed(e, j, x) => Listed(c, j, x))
  <2>1. CASE j \in 2 .. n
      BY <1>2, <1>4, <1>5, <2>1
  <2>2. CASE j = n + 1
    <3>1. Listed(e, j, x) => x \in e.list
        BY <1>3, <2>2 DEF Listed
    <3> QED
        BY <1>2, <1>5, <2>2, <3>1
  <2> QED
      BY <1>1, <2>1, <2>2
<1> QED
    BY <1>5 DEF Recast

\* Nothing runs at the end of a scope that a jump ended.
LEMMA EndStopped ==
  ASSUME jobs \in Seq(Var), NEW s, s.begin \in Nat, s.begin <= Len(jobs), paths \subseteq Path,
         ~destroyScope, \A p \in paths : ~Running(p.now)
  PROVE  \A p \in ScopeEnd(s) : ~Running(p.now)
<1> DEFINE code == (IF destroyScope THEN Drops(s.begin, NoVar) ELSE <<>>) \o Ends(s.begin)
<1>1. code \in Seq(Code)
  <2>1. Ends(s.begin) \in Seq(Code)
      BY EndsIs
  <2>2. <<>> \in Seq(Code)
      OBVIOUS
  <2>3. code = <<>> \o Ends(s.begin)
      OBVIOUS
  <2> HIDE DEF code
  <2> QED
      BY <2>1, <2>2, <2>3
<1>2. ScopeEnd(s) = After(code, paths)
    BY DEF ScopeEnd
<1> HIDE DEF code
<1>3. ASSUME NEW p \in After(code, paths) PROVE ~Running(p.now)
  <2>1. PICK q \in paths : ~Running(q.now) => p = q
      BY <1>1, AfterHas
  <2> QED
      BY <2>1
<1> QED
    BY <1>2, <1>3

\* The runs behind the end of the scope.
LEMMA EndGood ==
  ASSUME IInv, InFunction, NEW s, s.begin \in Nat, s.begin <= Len(jobs),
         NEW g, Grown(Excuses, g), Sane(g),
         NEW d, d = [Here EXCEPT !.scope = JobsFrom(1, s.begin)]
  PROVE  /\ Good(ScopeEnd(s), EntryOf(Home(scopes, Len(scopes))), d, g)
         /\ ~destroyScope \/ returned => \A p \in ScopeEnd(s) : ~Running(p.now)
         /\ d.scope = JobsFrom(1, s.begin) /\ d.list = ToSet(moved) /\ d.said = ToSet(moved)
         /\ d.kept = Kept(bodies, Len(bodies))
<1>1. /\ jobs \in Seq(Var) /\ IsInjective(jobs) /\ destroyScope \in BOOLEAN
      /\ Here.scope = InScope /\ Here.list = ToSet(moved) /\ Here.said = ToSet(moved)
      /\ Here.kept = Kept(bodies, Len(bodies))
    BY Facts
<1>2. /\ d.scope = JobsFrom(1, s.begin) /\ d.list = Here.list /\ d.said = Here.said /\ d.kept = Here.kept
    BY DEF Here, Context
<1>3. /\ ~destroyScope => \A p \in paths : ~Running(p.now)
      /\ returned => ~destroyScope
    BY DEF IInv, Jumped
<1>4. Good(paths, EntryOf(Home(scopes, Len(scopes))), Here, Excuses) /\ paths \subseteq Path
    BY DEF IInv, CurrentGood, Good
<1> DEFINE f == EntryOf(Home(scopes, Len(scopes)))
           c == Here
<1>5. Good(ScopeEnd(s), f, d, g)
  <2>1. c.scope = ToSet(jobs)
      BY <1>1 DEF InScope
  <2> HIDE DEF f, c
  <2> QED
      BY <1>1, <1>2, <1>3, <1>4, <2>1, GoodScopeEnd DEF c, f
<1>6. ~destroyScope => \A p \in ScopeEnd(s) : ~Running(p.now)
    BY <1>1, <1>3, <1>4, EndStopped
<1> QED
    BY <1>1, <1>2, <1>3, <1>5, <1>6

\* The innermost scope, n, is left; k scopes are open then.
ScopeLeft(n, k) ==
  /\ InFunction /\ n = Len(scopes) /\ n > 0 /\ (k = n \/ k = n - 1)
  /\ scopes' \in Seq(Scope) /\ bodies' \in Seq(Body) /\ Len(scopes') = k /\ Len(bodies') = k + 1
  /\ \A i \in 1 .. n - 1 : scopes'[i] = scopes[i]
  /\ \A i \in 1 .. n : bodies'[i] = bodies[i]
  /\ k = n => /\ scopes'[n].kind = scopes[n].kind /\ scopes'[n].begin = scopes[n].begin
              /\ scopes[n].kind \notin LoopKinds /\ bodies'[n + 1].kind = scopes[n].kind
  /\ jobs' = SubSeq(jobs, 1, scopes[n].begin)
  /\ inElse' \in Seq(BOOLEAN) /\ Len(inElse') = k
  /\ destroyScope' = TRUE /\ returned' = FALSE /\ size' \in Nat
  /\ loopBegin' = IF scopes[n].kind \in LoopKinds THEN scopes[n].prevLoop ELSE loopBegin
  /\ declared' = declared /\ overDropped' = overDropped /\ selfAssigned' = selfAssigned

\* What is left of the jobs.
LEMMA LeftJobs ==
  ASSUME IInv, NEW n, NEW k, ScopeLeft(n, k)
  PROVE  /\ n \in Nat /\ n \in 1 .. Len(scopes) /\ Len(bodies) = n + 1 /\ k \in Nat
         /\ scopes[n].begin \in 0 .. Len(jobs) /\ Len(jobs) \in Nat
         /\ jobs' \in Seq(Var) /\ Len(jobs') = scopes[n].begin /\ IsInjective(jobs')
         /\ \A i \in 1 .. scopes[n].begin : jobs'[i] = jobs[i]
         /\ InScope' = JobsFrom(1, scopes[n].begin) /\ InScope' \subseteq InScope
         /\ Outer(jobs, scopes, n + 1) = JobsFrom(1, scopes[n].begin)
<1>1. /\ jobs \in Seq(Var) /\ Len(jobs) \in Nat /\ IsInjective(jobs) /\ n \in Nat /\ n = Len(scopes) /\ n > 0
      /\ InFunction /\ (k = n \/ k = n - 1) /\ jobs' = SubSeq(jobs, 1, scopes[n].begin)
    BY Facts DEF ScopeLeft
<1>2. n \in 1 .. Len(scopes) /\ k \in Nat
    BY <1>1
<1>3. scopes[n].begin \in 0 .. Len(jobs) /\ Len(bodies) = n + 1
    BY <1>1, <1>2, InnerFacts
<1> DEFINE m == scopes[n].begin
           t == SubSeq(jobs, 1, m)
<1>4. m \in 0 .. Len(jobs) /\ jobs' = t
    BY <1>1, <1>3
<1> HIDE DEF m
<1>5. t \in Seq(Var) /\ Len(t) = m /\ DOMAIN t = 1 .. m /\ \A i \in 1 .. m : i \in DOMAIN jobs /\ t[i] = jobs[i]
    BY <1>1, <1>4
<1>6. ToSet(t) = JobsFrom(1, m)
    BY <1>1, <1>4, JobsStart
<1> HIDE DEF t
<1>7. IsInjective(t)
    BY <1>1, <1>5 DEF IsInjective
<1>8. JobsFrom(1, m) \subseteq ToSet(jobs)
    BY <1>5 DEF JobsFrom, ToSet
<1>9. InScope' = JobsFrom(1, m) /\ InScope' \subseteq InScope
    BY <1>4, <1>6, <1>8 DEF InScope
<1>10. Outer(jobs, scopes, n + 1) = JobsFrom(1, m)
  <2>1. n + 1 # 1 /\ (n + 1) - 1 = n
      BY <1>1
  <2>2. Outer(jobs, scopes, n + 1) = t
        \/ Outer(jobs, scopes, n + 1) = ToSet(SubSeq(jobs, 1, scopes[n].begin))
      BY <2>1 DEF Outer
  <2>3. Outer(jobs, scopes, n + 1) = ToSet(SubSeq(jobs, 1, scopes[n].begin))
      BY <2>1 DEF Outer
  <2> QED
      BY <1>6, <2>3 DEF m, t
<1> QED
    BY <1>1, <1>2, <1>3, <1>4, <1>5, <1>7, <1>9, <1>10 DEF m

\* Leaving a scope: the runs around it are those of before.
LEMMA LeftHome ==
  ASSUME IInv, NEW n, NEW k, ScopeLeft(n, k)
  PROVE  /\ \A i \in 0 .. n - 1 : Home(scopes', i) = Home(scopes, i) /\ Home(scopes, i) \in 1 .. n
         /\ Home(scopes', k) = Home(scopes, n - 1)
         /\ Home(scopes, n) = IF scopes[n].kind \in LoopKinds THEN n + 1 ELSE Home(scopes, n - 1)
         /\ \A l \in 1 .. n : FirstJob(scopes', l) = FirstJob(scopes, l)
<1>1. n \in Nat /\ n \in 1 .. Len(scopes) /\ k \in Nat
    BY LeftJobs
<1>2. /\ scopes \in Seq(Scope) /\ InFunction /\ n = Len(scopes) /\ (k = n \/ k = n - 1)
      /\ scopes' \in Seq(Scope) /\ Len(scopes') = k
      /\ \A i \in 1 .. n - 1 : scopes'[i] = scopes[i]
      /\ k = n => /\ scopes'[n].kind = scopes[n].kind /\ scopes'[n].begin = scopes[n].begin
                  /\ scopes[n].kind \notin LoopKinds
    BY Facts DEF ScopeLeft
<1>3. ASSUME NEW i \in 0 .. n - 1 PROVE Home(scopes', i) = Home(scopes, i) /\ Home(scopes, i) \in 1 .. n
  <2>1. i \in Nat /\ i \in 0 .. Len(scopes) /\ i + 1 \in 1 .. n /\ \A q \in 1 .. i : q \in 1 .. n - 1
      BY <1>1, <1>2
  <2>2. \A q \in 1 .. i : scopes'[q].kind = scopes[q].kind
      BY <1>2, <2>1
  <2>3. Home(scopes', i) = Home(scopes, i)
      BY <2>1, <2>2, HomeSame
  <2>4. Home(scopes, i) \in 1 .. i + 1
      BY <1>2, <2>1, HomeFacts
  <2>5. \A q \in 1 .. i + 1 : q \in 1 .. n
      BY <1>1, <2>1
  <2> QED
      BY <2>3, <2>4, <2>5
<1>4. Home(scopes, n) = IF scopes[n].kind \in LoopKinds THEN n + 1 ELSE Home(scopes, n - 1)
    BY <1>1, <1>2, HomeStep
<1>5. n - 1 \in 0 .. n - 1
    BY <1>1
<1>6. Home(scopes', k) = Home(scopes, n - 1)
  <2>1. CASE k = n - 1
      BY <1>3, <1>5, <2>1
  <2>2. CASE k = n
    <3>1. n \in 1 .. Len(scopes')
        BY <1>1, <1>2, <2>2
    <3>2. Home(scopes', n) = IF scopes'[n].kind \in LoopKinds THEN n + 1 ELSE Home(scopes', n - 1)
        BY <1>2, <3>1, HomeStep
    <3> QED
        BY <1>2, <1>3, <1>5, <2>2, <3>2
  <2> QED
      BY <1>2, <2>1, <2>2
<1>7. ASSUME NEW l \in 1 .. n PROVE FirstJob(scopes', l) = FirstJob(scopes, l)
  <2>1. l \in Nat /\ l >= 1 /\ (l > 1 => l - 1 \in 1 .. n - 1)
      BY <1>1
  <2>2. l > 1 => scopes'[l - 1].begin = scopes[l - 1].begin
      BY <1>2, <2>1
  <2> QED
      BY <2>1, <2>2, FirstJobSame
<1> QED
    BY <1>3, <1>4, <1>6, <1>7

\* The bounds of the jobs after a scope was left.
LEMMA LeftShape ==
  ASSUME IInv, NEW n, NEW k, ScopeLeft(n, k)
  PROVE  Shape' /\ Jumped' /\ LoopBegins' /\ loopBegin' \in Nat
<1>1. /\ n \in Nat /\ n \in 1 .. Len(scopes) /\ k \in Nat
      /\ scopes[n].begin \in 0 .. Len(jobs) /\ Len(jobs) \in Nat
      /\ jobs' \in Seq(Var) /\ Len(jobs') = scopes[n].begin /\ IsInjective(jobs')
      /\ InScope' \subseteq InScope
    BY LeftJobs
<1>2. /\ n = Len(scopes) /\ (k = n \/ k = n - 1)
      /\ scopes' \in Seq(Scope) /\ Len(scopes') = k /\ bodies' \in Seq(Body) /\ Len(bodies') = k + 1
      /\ \A i \in 1 .. n - 1 : scopes'[i] = scopes[i]
      /\ \A i \in 1 .. n : bodies'[i] = bodies[i]
      /\ k = n => /\ scopes'[n].kind = scopes[n].kind /\ scopes'[n].begin = scopes[n].begin
                  /\ bodies'[n + 1].kind = scopes[n].kind
      /\ inElse' \in Seq(BOOLEAN) /\ Len(inElse') = k /\ InFunction
      /\ destroyScope' = TRUE /\ returned' = FALSE /\ size' \in Nat
      /\ loopBegin' = IF scopes[n].kind \in LoopKinds THEN scopes[n].prevLoop ELSE loopBegin
      /\ declared' = declared /\ overDropped' = overDropped /\ selfAssigned' = selfAssigned
    BY DEF ScopeLeft
<1>3. Jumped'
    BY <1>2, JumpedOpen
<1>4. /\ declared \subseteq Var /\ overDropped \subseteq Var /\ selfAssigned \subseteq Var
      /\ InScope \subseteq declared /\ loopBegin \in Nat
    BY Facts
<1>5. bodies' # <<>> /\ DOMAIN scopes' = 1 .. k
    BY <1>1, <1>2
<1>6. ASSUME NEW i \in 1 .. k
      PROVE  /\ bodies'[i + 1].kind = scopes'[i].kind /\ scopes'[i].begin = scopes[i].begin
             /\ scopes[i].begin <= scopes[n].begin /\ \A j \in 1 .. i : j \in 1 .. k /\ scopes[j].begin <= scopes[i].begin
             /\ scopes[i].begin <= Len(jobs')
  <2>1. i \in 1 .. n /\ i \in 1 .. Len(scopes) /\ ((i \in 1 .. n - 1 /\ i + 1 \in 1 .. n) \/ (i = n /\ k = n)) /\ \A j \in 1 .. i : j \in 1 .. k
      BY <1>1, <1>2
  <2>2. bodies[i + 1].kind = scopes[i].kind /\ \A j \in 1 .. i : scopes[j].begin <= scopes[i].begin
      BY <1>2, <2>1, InnerFacts
  <2>3. scopes[i].begin <= scopes[n].begin
    <3>1. \A j \in 1 .. n : scopes[j].begin <= scopes[n].begin
        BY <1>1, <1>2, InnerFacts
    <3> QED
        BY <2>1, <3>1
  <2>4. bodies'[i + 1].kind = scopes'[i].kind /\ scopes'[i].begin = scopes[i].begin
      BY <1>2, <2>1, <2>2
  <2> QED
      BY <1>1, <2>1, <2>2, <2>3, <2>4
<1>7. Shape'
  <2>1. \A i \in 1 .. k : bodies'[i + 1].kind = scopes'[i].kind /\ scopes'[i].begin <= Len(jobs')
      BY <1>6
  <2>2. \A i \in 1 .. k : \A j \in 1 .. i : scopes'[j].begin <= scopes'[i].begin
      BY <1>6
  <2> QED
      BY <1>1, <1>2, <1>4, <1>5, <2>1, <2>2 DEF Shape, InFunction
<1>8. \A i \in 1 .. n : i - 1 \in 0 .. n - 1
    BY <1>1
<1>9. /\ \A i \in 0 .. n - 1 : Home(scopes', i) = Home(scopes, i) /\ Home(scopes, i) \in 1 .. n
      /\ Home(scopes', k) = Home(scopes, n - 1)
      /\ Home(scopes, n) = IF scopes[n].kind \in LoopKinds THEN n + 1 ELSE Home(scopes, n - 1)
      /\ \A l \in 1 .. n : FirstJob(scopes', l) = FirstJob(scopes, l)
    BY LeftHome
<1>10. \A i \in 1 .. n : FirstJob(scopes', Home(scopes', i - 1)) = FirstJob(scopes, Home(scopes, i - 1))
    BY <1>8, <1>9
<1>11. /\ loopBegin <= FirstJob(scopes, Home(scopes, n))
       /\ \A i \in 1 .. n : scopes[i].kind \in LoopKinds => scopes[i].prevLoop <= FirstJob(scopes, Home(scopes, i - 1))
    BY <1>2, InnerFacts DEF IInv, LoopBegins
<1>12. LoopBegins'
  <2>1. loopBegin' <= FirstJob(scopes', Home(scopes', Len(scopes')))
    <3>1. n \in 1 .. n
        BY <1>1
    <3>2. Home(scopes', k) = Home(scopes', n - 1)
        BY <1>8, <1>9, <3>1
    <3>3. FirstJob(scopes', Home(scopes', Len(scopes'))) = FirstJob(scopes, Home(scopes, n - 1))
        BY <1>2, <1>10, <3>1, <3>2
    <3> QED
        BY <1>2, <1>9, <1>11, <3>1, <3>3
  <2>2. ASSUME NEW i \in 1 .. k, scopes'[i].kind \in LoopKinds
        PROVE  scopes'[i].prevLoop <= FirstJob(scopes', Home(scopes', i - 1))
    <3>1. i \in 1 .. n /\ (i \in 1 .. n - 1 \/ (i = n /\ k = n))
        BY <1>1, <1>2
    <3>2. i \in 1 .. n - 1
        BY <2>2, <3>1 DEF ScopeLeft
    <3> QED
        BY <1>2, <1>10, <1>11, <2>2, <3>1, <3>2
  <2> QED
      BY <1>5, <2>1, <2>2 DEF LoopBegins
<1>13. loopBegin' \in Nat
  <2>1. scopes[n].prevLoop \in Nat
    <3>1. scopes[n] \in Scope
        BY <1>1, <1>2, InnerFacts
    <3> QED
        BY <3>1 DEF Scope
  <2> QED
      BY <1>2, <1>4, <2>1
<1> QED
    BY <1>3, <1>7, <1>12, <1>13

\* The contexts at the entries of the bodies that stay.
LEMMA LeftEntry ==
  ASSUME IInv, NEW n, NEW k, ScopeLeft(n, k), NEW l \in 1 .. n
  PROVE  EntryOf(l)' = EntryOf(l)
<1>1. /\ n \in Nat /\ n \in 1 .. Len(scopes)
      /\ scopes[n].begin \in 0 .. Len(jobs) /\ Len(jobs) \in Nat
      /\ jobs' \in Seq(Var) /\ Len(jobs') = scopes[n].begin
      /\ \A i \in 1 .. scopes[n].begin : jobs'[i] = jobs[i]
    BY LeftJobs
<1>2. /\ n = Len(scopes) /\ InFunction
      /\ \A i \in 1 .. n - 1 : scopes'[i] = scopes[i]
      /\ \A i \in 1 .. n : bodies'[i] = bodies[i]
    BY DEF ScopeLeft
<1>3. l \in Nat /\ l \in 1 .. Len(scopes) + 1 /\ (l > 1 => l - 1 \in 1 .. n - 1 /\ l - 1 \in 1 .. n) /\ \A j \in 2 .. l : j \in 1 .. n
    BY <1>1, <1>2
<1>4. \A j \in 1 .. n : scopes[j].begin <= scopes[n].begin /\ scopes[j].begin \in 0 .. Len(jobs)
    BY <1>1, <1>2, InnerFacts
<1>5. l > 1 => /\ scopes'[l - 1].begin = scopes[l - 1].begin /\ bodies'[l].known = bodies[l].known
               /\ scopes[l - 1].begin <= Len(jobs')
               /\ \A i \in 1 .. scopes[l - 1].begin : jobs'[i] = jobs[i]
  <2> SUFFICES ASSUME l > 1
               PROVE  /\ scopes'[l - 1].begin = scopes[l - 1].begin /\ bodies'[l].known = bodies[l].known
                      /\ scopes[l - 1].begin <= Len(jobs')
                      /\ \A i \in 1 .. scopes[l - 1].begin : jobs'[i] = jobs[i]
      OBVIOUS
  <2> DEFINE a == scopes[l - 1].begin
             b == scopes[n].begin
  <2>1. a \in Nat /\ b \in Nat /\ a <= b
      BY <1>1, <1>3, <1>4
  <2>2. scopes'[l - 1].begin = a /\ bodies'[l] = bodies[l]
      BY <1>2, <1>3
  <2>3. Len(jobs') = b /\ \A i \in 1 .. b : jobs'[i] = jobs[i]
      BY <1>1
  <2> HIDE DEF a, b
  <2>4. \A i \in 1 .. a : i \in 1 .. b
      BY <2>1
  <2>5. a <= Len(jobs') /\ \A i \in 1 .. a : jobs'[i] = jobs[i]
      BY <2>1, <2>3, <2>4
  <2> QED
      BY <2>2, <2>5 DEF a
<1>6. \A j \in 2 .. l : bodies'[j].backup = bodies[j].backup
    BY <1>2, <1>3
<1> QED
    BY <1>1, <1>2, <1>3, <1>5, <1>6, EntryKept

\* The runs kept for the scopes around.
LEMMA LeftScopes ==
  ASSUME IInv, NEW n, NEW k, ScopeLeft(n, k), Grown(Excuses, Excuses'), NEW i \in 1 .. n - 1
  PROVE  ScopeGood(i)'
<1>1. n \in Nat /\ n \in 1 .. Len(scopes) /\ n = Len(scopes) /\ InFunction
    BY LeftJobs DEF ScopeLeft
<1>2. /\ \A q \in 1 .. n - 1 : scopes'[q] = scopes[q]
      /\ \A q \in 1 .. n : bodies'[q] = bodies[q]
    BY DEF ScopeLeft
<1>3. /\ i \in 1 .. Len(scopes) /\ i \in DOMAIN scopes /\ i + 1 \in 1 .. n
      /\ \A q \in 1 .. i : q \in 1 .. n - 1
      /\ \A q \in 1 .. i + 1 : q \in 1 .. n
  <2>1. DOMAIN scopes = 1 .. Len(scopes)
      BY <1>1, InnerFacts
  <2> QED
      BY <1>1, <2>1
<1>4. \A l \in 1 .. i + 1 : EntryOf(l)' = EntryOf(l)
    BY <1>3, LeftEntry
<1>5. /\ scopes'[i] = scopes[i] /\ \A q \in 1 .. i : scopes'[q].kind = scopes[q].kind
      /\ bodies'[i + 1] = bodies[i + 1]
    BY <1>2, <1>3
<1> QED
    BY <1>1, <1>3, <1>4, <1>5, ScopeKept

\* A branch, bodies[n + 1], ends; rest is what stays on the list, bk its moves.
Branch(n, k, rest, bk) ==
  /\ ScopeLeft(n, k) /\ scopes[n].kind = "if"
  /\ \E stale \in Stale(bodies[n + 1], returned) :
       LET b == bodies[n + 1]
           m == Linked(b, returned, stale) IN
       /\ rest = WithoutNew(b, m) /\ bk = Backup(b, m)
       /\ BranchHistory(b, m, stale)

\* The variables that may be listed without need, or twice.
Excused == conditional \cup maybeLive

\* What the branch does to the lists.
Lists(n, rest, bk) ==
  LET b == bodies[n + 1] IN
  /\ rest \in Seq(Var) /\ bk \in Seq(Var)
  /\ forgotten \subseteq forgotten' /\ forgotten' \subseteq Var
  /\ conditional \subseteq conditional' /\ conditional' \subseteq Var /\ maybeLive' = maybeLive
  /\ \A x \in Var : Twice(rest, x) \/ Twice(bk, x) \/ (x \in ToSet(rest) /\ x \in ToSet(bk)) => x \in Excused'
  /\ \A x \in Var : x \in ToSet(rest) \cup ToSet(bk) =>
       x \in ToSet(moved) \/ x \in ToSet(b.backup) \/ x \in Excused'
  /\ \A i \in DOMAIN moved : i <= b.begin => i \in DOMAIN rest /\ rest[i] = moved[i]
  /\ \A x \in Var : x \in b.known => x \in ToSet(rest) \/ x \in forgotten'
  /\ \A x \in Var : x \in ToSet(rest) => x \in b.known \/ x \in Excused'
  /\ \A x \in Var : x \in ToSet(bk) => x \in b.known \/ x \in ToSet(b.backup) \/ x \in Excused'
  /\ \A x \in Var : x \in ToSet(b.backup) => x \in ToSet(bk) \/ x \in forgotten'
  /\ ~returned => /\ ToSet(moved) = ToSet(rest) \cup ToSet(bk) \/ ToSet(moved) \subseteq ToSet(rest) \cup ToSet(bk)
                  /\ ToSet(rest) \subseteq ToSet(moved)
                  /\ \A x \in Var : x \in ToSet(bk) => x \in ToSet(moved) \/ x \in ToSet(b.backup)

\* At the end of a branch, what its list loses is recorded in the history.
LEMMA BranchLists ==
  ASSUME IInv, NEW n, NEW k, NEW rest, NEW bk, Branch(n, k, rest, bk)
  PROVE  Lists(n, rest, bk) /\ Grown(Excuses, Excuses') /\ Sane(Excuses')
<1> DEFINE b == bodies[n + 1]
<1>0. InFunction /\ n \in Nat /\ n \in 1 .. Len(scopes) /\ Len(bodies) = n + 1 /\ n = Len(scopes)
      /\ overDropped' = overDropped /\ selfAssigned' = selfAssigned
    BY LeftJobs DEF Branch, ScopeLeft
<1>1. b \in Body /\ b.kind = "if" /\ n + 1 \in OpenBodies
  <2>1. b \in Body /\ b.kind = scopes[n].kind /\ OpenBodies = 2 .. Len(scopes) + 1
      BY <1>0, InnerFacts
  <2>2. n + 1 \in 2 .. Len(scopes) + 1
      BY <1>0
  <2> QED
      BY <2>1, <2>2 DEF Branch
<1>2. /\ moved \in Seq(Var) /\ forgotten \subseteq Var /\ conditional \subseteq Var /\ maybeLive \subseteq Var
      /\ returned \in BOOLEAN
    BY Facts
<1>3. b.backup \in Seq(Var) /\ b.begin \in Nat /\ b.known \subseteq Var
    BY <1>1 DEF Body
<1>4. PICK stale \in Stale(b, returned) :
         /\ rest = WithoutNew(b, Linked(b, returned, stale)) /\ bk = Backup(b, Linked(b, returned, stale))
         /\ BranchHistory(b, Linked(b, returned, stale), stale)
    BY DEF Branch
<1> DEFINE m == Linked(b, returned, stale)
           K == b.known
           B == b.backup
<1>5. /\ forgotten' = forgotten \cup (ToSet(B) \ ToSet(bk))
      /\ conditional' = conditional \cup (ToSet(m) \ K) \cup ToSet(stale)
      /\ maybeLive' = maybeLive
    BY <1>4 DEF BranchHistory
<1>6. LinkedAs(m, moved, b, returned, stale)
    BY <1>1, <1>2, LinkedIs
<1>7. m \in Seq(Var)
    BY <1>6 DEF LinkedAs
<1>8. SplitAs(rest, bk, m, b)
    BY <1>1, <1>4, <1>7, SplitIs
<1> HIDE DEF m, b
<1>9. /\ stale \in Seq(Var) /\ ToSet(m) \subseteq ToSet(moved) \cup ToSet(stale)
      /\ \A i \in DOMAIN moved : i <= b.begin => i \in DOMAIN m /\ m[i] = moved[i]
      /\ \A x \in Var : Twice(m, x) => Twice(moved, x) \/ x \in ToSet(stale)
      /\ ~returned => m = moved
    BY <1>6 DEF LinkedAs
<1>10. /\ rest \in Seq(Var) /\ bk \in Seq(Var)
       /\ ToSet(rest) \subseteq ToSet(m) /\ ToSet(m) \subseteq ToSet(rest) \cup ToSet(bk)
       /\ \A i \in DOMAIN m : i <= b.begin => i \in DOMAIN rest /\ rest[i] = m[i]
       /\ \A x \in Var : Twice(rest, x) => Twice(m, x)
       /\ \/ bk = B
          \/ /\ ToSet(bk) \subseteq ToSet(m)
             /\ \A x \in Var : Twice(bk, x) \/ (x \in ToSet(rest) /\ x \in ToSet(bk)) => Twice(m, x)
    BY <1>8 DEF SplitAs
<1>11. /\ \A x \in Var : Twice(moved, x) \/ Twice(B, x) \/ (x \in K /\ x \in ToSet(B)) => x \in Excused
       /\ \A x \in K : x \in forgotten \/ \E i \in DOMAIN moved : moved[i] = x /\ i <= b.begin
  <2>1. \A x \in Var : Twice(moved, x) \/ Twice(B, x) \/ (x \in K /\ x \in ToSet(B)) => x \in Excused
      BY <1>1 DEF IInv, Doubles, Excused, b
  <2>2. \A x \in K : Retaken(x, n + 1) \/ \E i \in DOMAIN moved : moved[i] = x /\ \A j \in n + 1 .. Len(bodies) : i <= bodies[j].begin
      BY <1>1 DEF IInv, KnownKept, b
  <2>3. n + 1 \in n + 1 .. Len(bodies)
      BY <1>0
  <2> QED
      BY <2>1, <2>2, <2>3 DEF Retaken, b
<1>12. Excused \subseteq Excused' /\ ToSet(stale) \subseteq Excused' /\ ToSet(m) \subseteq K \cup Excused'
    BY <1>5 DEF Excused
<1>13. \A x \in Var : Twice(m, x) => x \in Excused'
    BY <1>9, <1>11, <1>12
<1>14. \A x \in Var : Twice(rest, x) \/ Twice(bk, x) \/ (x \in ToSet(rest) /\ x \in ToSet(bk)) => x \in Excused'
    BY <1>10, <1>11, <1>12, <1>13
<1>15. \A x \in Var : x \in ToSet(rest) \cup ToSet(bk) =>
         x \in ToSet(moved) \/ x \in ToSet(B) \/ x \in Excused'
    BY <1>9, <1>10, <1>12
<1>16. \A i \in DOMAIN moved : i <= b.begin => i \in DOMAIN rest /\ rest[i] = moved[i]
    BY <1>9, <1>10
<1>17. \A x \in Var : x \in K => x \in ToSet(rest) \/ x \in forgotten'
    BY <1>5, <1>11, <1>16 DEF ToSet
<1>18. \A x \in Var : /\ x \in ToSet(rest) => x \in K \/ x \in Excused'
                      /\ x \in ToSet(bk) => x \in K \/ x \in ToSet(B) \/ x \in Excused'
                      /\ x \in ToSet(B) => x \in ToSet(bk) \/ x \in forgotten'
    BY <1>5, <1>10, <1>12
<1>19. ~returned => /\ ToSet(moved) \subseteq ToSet(rest) \cup ToSet(bk)
                    /\ ToSet(rest) \subseteq ToSet(moved)
                    /\ \A x \in Var : x \in ToSet(bk) => x \in ToSet(moved) \/ x \in ToSet(B)
    BY <1>9, <1>10
<1>20. forgotten' \subseteq Var /\ conditional' \subseteq Var
  <2>1. \A s \in Seq(Var) : ToSet(s) \subseteq Var
      BY DEF ToSet
  <2> QED
      BY <1>2, <1>3, <1>5, <1>7, <1>9, <2>1
<1>21. Grown(Excuses, Excuses') /\ Sane(Excuses')
    BY <1>0, <1>5, ExcusesGrow
<1> QED
    BY <1>5, <1>10, <1>14, <1>15, <1>16, <1>17, <1>18, <1>19, <1>20, <1>21 DEF Lists, b

\* The runs that go on behind the branch: e is the context at the entry of the
\* next branch, e with everything moved in said is that of the branches done.
LEMMA BranchGood ==
  ASSUME IInv, NEW n, NEW k, NEW rest, NEW bk, Branch(n, k, rest, bk),
         NEW f, f = EntryOf(Home(scopes, n - 1)),
         NEW e, e.scope = JobsFrom(1, scopes[n].begin), e.list = ToSet(rest), e.said = ToSet(rest),
         DOMAIN e.kept = 2 .. n + 1, \A j \in 2 .. n : e.kept[j] = ToSet(bodies[j].backup),
         e.kept[n + 1] = ToSet(bk),
         NEW d, d.scope = e.scope, d.list = e.list, d.kept = e.kept, d.said = ToSet(rest) \cup ToSet(bk)
  PROVE  /\ Good(scopes[n].entry, f, e, Excuses')
         /\ Good(scopes[n].done \cup ScopeEnd(scopes[n]), f, d, Excuses')
<1> DEFINE b == bodies[n + 1]
           s == scopes[n]
           g == Excuses'
           c == EntryOf(n + 1)
           cd == [c EXCEPT !.said = @ \cup ToSet(b.backup)]
           here == [Here EXCEPT !.scope = JobsFrom(1, s.begin)]
<1>0. /\ n \in Nat /\ n \in 1 .. Len(scopes) /\ Len(bodies) = n + 1 /\ s.begin \in 0 .. Len(jobs)
      /\ Outer(jobs, scopes, n + 1) = JobsFrom(1, s.begin) /\ InScope' = JobsFrom(1, s.begin)
      /\ Len(jobs) \in Nat /\ JobsFrom(1, s.begin) \subseteq InScope
    BY LeftJobs DEF Branch
<1>1. InFunction /\ n = Len(scopes) /\ n > 0 /\ s.kind = "if"
    BY DEF Branch, ScopeLeft
<1>2. Lists(n, rest, bk) /\ Grown(Excuses, g) /\ Sane(g)
    BY BranchLists
<1>3. JobsFrom(1, s.begin) \subseteq Var /\ jobs \in Seq(Var) /\ moved \in Seq(Var)
    BY <1>0, Facts
<1>4. Good(s.entry, f, c, Excuses) /\ Good(s.done, f, cd, Excuses)
  <2>1. n \in DOMAIN scopes
      BY <1>0, <1>1, InnerFacts
  <2> HIDE DEF c
  <2> QED
      BY <1>1, <2>1 DEF IInv, ScopesGood, ScopeGood, c
<1>5. /\ c.scope = JobsFrom(1, s.begin) /\ c.list = b.known /\ c.said = b.known
      /\ c.kept = Kept(bodies, n + 1) /\ c = [scope |-> c.scope, list |-> c.list, said |-> c.said, kept |-> c.kept]
  <2>1. c = [scope |-> c.scope, list |-> c.list, said |-> c.said, kept |-> c.kept]
      BY DEF EntryOf, Entry, Context
  <2>2. n + 1 # 1
      BY <1>0
  <2>3. Known(bodies, n + 1) = b.known
      BY <2>2 DEF Known
  <2> QED
      BY <1>0, <2>1, <2>3, EntryIs DEF EntryOf
<1>6. /\ DOMAIN Kept(bodies, n + 1) = 2 .. n + 1
      /\ \A j \in 2 .. n + 1 : Kept(bodies, n + 1)[j] = ToSet(bodies[j].backup)
    BY EntryIs
<1>7. n + 1 \in 2 .. n + 1 /\ \A j \in 2 .. n : j \in 2 .. n + 1
    BY <1>0
<1>8. /\ cd.scope = c.scope /\ cd.list = c.list /\ cd.said = c.said \cup ToSet(b.backup) /\ cd.kept = c.kept
    BY <1>5
<1>9. /\ Good(ScopeEnd(s), EntryOf(Home(scopes, Len(scopes))), here, g)
      /\ ~destroyScope \/ returned => \A p \in ScopeEnd(s) : ~Running(p.now)
      /\ here.scope = JobsFrom(1, s.begin) /\ here.list = ToSet(moved) /\ here.said = ToSet(moved)
      /\ here.kept = Kept(bodies, n + 1)
  <2>1. s.begin \in Nat /\ s.begin <= Len(jobs)
      BY <1>0
  <2> HIDE DEF s, g
  <2> QED
      BY <1>0, <1>1, <1>2, <2>1, EndGood, ZenonT(40)
<1>10. EntryOf(Home(scopes, Len(scopes))) = f
  <2>1. Home(scopes, n) = Home(scopes, n - 1)
    <3>1. Home(scopes, n) = IF scopes[n].kind \in LoopKinds THEN n + 1 ELSE Home(scopes, n - 1)
        BY LeftHome DEF Branch
    <3> QED
        BY <1>1, <3>1 DEF LoopKinds
  <2> QED
      BY <1>1, <2>1
<1>11. g.clash = Excused' /\ forgotten' \subseteq g.gone
    BY DEF Excuses, Excused
<1>12. /\ \A x \in Var : (x \in ToSet(rest) /\ x \in ToSet(bk)) => x \in g.clash
       /\ \A x \in Var : x \in b.known => x \in ToSet(rest) \/ x \in g.gone
       /\ \A x \in Var : x \in ToSet(rest) => x \in b.known \/ x \in g.clash
       /\ \A x \in Var : x \in ToSet(bk) => x \in b.known \/ x \in ToSet(b.backup) \/ x \in g.clash
       /\ \A x \in Var : x \in ToSet(b.backup) => x \in ToSet(bk) \/ x \in g.gone
       /\ ~returned => /\ ToSet(moved) \subseteq ToSet(rest) \cup ToSet(bk)
                       /\ ToSet(rest) \subseteq ToSet(moved)
                       /\ \A x \in Var : x \in ToSet(bk) => x \in ToSet(moved) \/ x \in ToSet(b.backup)
    BY <1>2, <1>11 DEF Lists
<1> HIDE DEF g, s
<1>13. /\ c.kept[n + 1] = ToSet(b.backup) /\ \A j \in 2 .. n : e.kept[j] = c.kept[j]
       /\ DOMAIN c.kept = 2 .. n + 1
    BY <1>5, <1>6, <1>7
<1>14. e.scope = JobsFrom(1, s.begin)
    BY DEF s
<1> HIDE DEF c, cd, here, b
<1>15. Recast(f, c, e, g)
  <2>1. \A x \in e.scope : x \in c.said => x \in e.said \/ x \in g.gone
      BY <1>3, <1>5, <1>12, <1>14
  <2>2. \A x \in e.scope : x \in e.list => x \in g.clash \/ x \in c.list
      BY <1>3, <1>5, <1>12, <1>14
  <2>3. \A x \in e.scope : x \in e.kept[n + 1] =>
            x \in g.clash \/ (x \notin e.list /\ (x \in c.list \/ x \in c.kept[n + 1]))
      BY <1>3, <1>5, <1>12, <1>13, <1>14
  <2>4. e.scope = c.scope
      BY <1>5, <1>14
  <2> QED
      BY <1>0, <1>1, <1>13, <2>1, <2>2, <2>3, <2>4, BackRecast
<1>16. Recast(f, cd, d, g)
  <2>1. \A x \in d.scope : x \in cd.said => x \in d.said \/ x \in g.gone
      BY <1>3, <1>5, <1>8, <1>12, <1>14
  <2>2. \A x \in d.scope : x \in d.list => x \in g.clash \/ x \in cd.list
      BY <1>3, <1>5, <1>8, <1>12, <1>14
  <2>3. \A x \in d.scope : x \in d.kept[n + 1] =>
            x \in g.clash \/ (x \notin d.list /\ (x \in cd.list \/ x \in cd.kept[n + 1]))
      BY <1>3, <1>5, <1>8, <1>12, <1>13, <1>14
  <2>4. d.scope = cd.scope /\ DOMAIN cd.kept = 2 .. n + 1 /\ DOMAIN d.kept = 2 .. n + 1
        /\ \A j \in 2 .. n : d.kept[j] = cd.kept[j]
      BY <1>5, <1>8, <1>13, <1>14
  <2> QED
      BY <1>0, <1>1, <2>1, <2>2, <2>3, <2>4, BackRecast
<1>17. ~returned => Recast(f, here, d, g)
  <2> SUFFICES ASSUME ~returned PROVE Recast(f, here, d, g)
      OBVIOUS
  <2>0. here.kept[n + 1] = ToSet(b.backup) /\ d.kept[n + 1] = ToSet(bk)
      BY <1>5, <1>9, <1>13
  <2>1. \A x \in d.scope : x \in here.said => x \in d.said \/ x \in g.gone
      BY <1>9, <1>12
  <2>2. \A x \in d.scope : x \in d.list => x \in g.clash \/ x \in here.list
      BY <1>9, <1>12
  <2>3. \A x \in d.scope : x \in d.kept[n + 1] =>
            x \in g.clash \/ (x \notin d.list /\ (x \in here.list \/ x \in here.kept[n + 1]))
      BY <1>3, <1>9, <1>12, <1>14, <2>0
  <2>4. d.scope = here.scope /\ DOMAIN here.kept = 2 .. n + 1 /\ DOMAIN d.kept = 2 .. n + 1
        /\ \A j \in 2 .. n : d.kept[j] = here.kept[j]
      BY <1>5, <1>9, <1>13, <1>14
  <2> QED
      BY <1>0, <1>1, <2>1, <2>2, <2>3, <2>4, BackRecast
<1>18. Grown(g, g)
    BY DEF Grown
<1>19. Good(s.entry, f, e, g)
    BY <1>2, <1>4, <1>15, GoodRecast
<1>20. Good(s.done, f, d, g)
    BY <1>2, <1>4, <1>16, GoodRecast
<1>21. Good(ScopeEnd(s), f, d, g)
  <2>1. Good(ScopeEnd(s), f, here, g)
      BY <1>9, <1>10
  <2>2. CASE returned
      BY <1>9, <2>1, <2>2, GoodStopped
  <2>3. CASE ~returned
      BY <1>17, <1>18, <2>1, <2>3, GoodRecast
  <2> QED
      BY <2>2, <2>3
<1>22. Good(s.done \cup ScopeEnd(s), f, d, g)
    BY <1>20, <1>21, GoodUnion
<1> QED
    BY <1>19, <1>22 DEF s, g

(***************************************************************************)
(* Closing bodies and opening branches.                                    *)
(***************************************************************************)
\* t is s without its last element.
Shorter(t, s, S) ==
  /\ Len(s) \in Nat /\ Len(s) > 0 /\ t \in Seq(S) /\ Len(t) = Len(s) - 1
  /\ \A i \in 1 .. (Len(s) - 1) : t[i] = s[i]
  /\ Last(s) = s[Len(s)] /\ Last(s) \in S

\* A body or scope that is closed leaves the others alone.
LEMMA ShorterIs ==
  ASSUME NEW S, NEW s \in Seq(S), s # <<>>
  PROVE  Shorter(Front(s), s, S)
<1> DEFINE t == Front(s)
<1>1. t = Front(s)
    OBVIOUS
<1> HIDE DEF t
<1>2. /\ t \in Seq(S) /\ Len(s) \in Nat /\ Len(s) > 0 /\ Len(t) = Len(s) - 1
      /\ \A i \in 1 .. (Len(s) - 1) : i \in DOMAIN s /\ t[i] = s[i]
      /\ Last(s) = s[Len(s)] /\ Last(s) \in S
    BY <1>1, ListFront
<1> QED
    BY <1>1, <1>2 DEF Shorter

\* t is s with its last element replaced by x.
Replaced(t, s, x, S) ==
  /\ t \in Seq(S) /\ Len(t) = Len(s) /\ t[Len(s)] = x
  /\ \A i \in 1 .. (Len(s) - 1) : t[i] = s[i]

\* The next branch replaces the innermost body and scope.
LEMMA ReplacedIs ==
  ASSUME NEW S, NEW s \in Seq(S), s # <<>>, NEW x \in S
  PROVE  Replaced(Append(Front(s), x), s, x, S)
<1> DEFINE t == Front(s)
<1>1. /\ Len(s) \in Nat /\ Len(s) > 0 /\ t \in Seq(S) /\ Len(t) = Len(s) - 1
      /\ \A i \in 1 .. (Len(s) - 1) : t[i] = s[i]
    BY ShorterIs DEF Shorter
<1> HIDE DEF t
<1>2. /\ Append(t, x) \in Seq(S) /\ Len(Append(t, x)) = Len(t) + 1 /\ Append(t, x)[Len(t) + 1] = x
      /\ \A i \in 1 .. Len(t) : Append(t, x)[i] = t[i]
    BY <1>1
<1>3. Len(t) + 1 = Len(s)
    BY <1>1
<1> QED
    BY <1>1, <1>2, <1>3 DEF Replaced, t

\* A scope that the program may close, and the list around it.
LEMMA InnermostIs ==
  ASSUME IInv, InFunction, inElse # <<>>, NEW n, n = Len(scopes)
  PROVE  /\ n \in Nat /\ n > 0 /\ n \in 1 .. n /\ n \in 1 .. Len(scopes) /\ scopes # <<>> /\ bodies # <<>>
         /\ Len(bodies) = n + 1 /\ Innermost = bodies[n + 1] /\ Last(scopes) = scopes[n]
         /\ bodies[n + 1] \in Body /\ scopes[n] \in Scope /\ bodies[n + 1].kind = scopes[n].kind
         /\ scopes[n].begin \in 0 .. Len(jobs) /\ Len(jobs) \in Nat
         /\ Shorter(Front(scopes), scopes, Scope) /\ Shorter(Front(bodies), bodies, Body)
         /\ Shorter(Front(inElse), inElse, BOOLEAN) /\ Len(inElse) = n
<1>1. /\ scopes \in Seq(Scope) /\ bodies \in Seq(Body) /\ inElse \in Seq(BOOLEAN) /\ Len(scopes) = Len(inElse)
      /\ Len(jobs) \in Nat /\ n \in Nat
    BY Facts
<1>2. n > 0 /\ scopes # <<>> /\ n \in 1 .. n /\ n \in 1 .. Len(scopes)
    BY <1>1
<1>3. bodies # <<>> /\ Len(bodies) = n + 1
    BY InnerFacts DEF InFunction
<1>4. /\ Shorter(Front(scopes), scopes, Scope) /\ Shorter(Front(bodies), bodies, Body)
      /\ Shorter(Front(inElse), inElse, BOOLEAN)
    BY <1>1, <1>2, <1>3, ShorterIs
<1>5. /\ Innermost = bodies[n + 1] /\ Last(scopes) = scopes[n] /\ bodies[n + 1] \in Body
    BY <1>3, <1>4 DEF Shorter, Innermost
<1>6. scopes[n] \in Scope /\ bodies[n + 1].kind = scopes[n].kind /\ scopes[n].begin \in 0 .. Len(jobs)
    BY <1>2, InnerFacts
<1> QED
    BY <1>1, <1>2, <1>3, <1>4, <1>5, <1>6

\* The scope n is closed.
LEMMA ClosedIs ==
  ASSUME IInv, Close, NEW n, n = Len(scopes),
         bodies' = Front(bodies), scopes' = Front(scopes), LeaveScope(scopes[n]),
         loopBegin' = IF scopes[n].kind \in LoopKinds THEN scopes[n].prevLoop ELSE loopBegin
  PROVE  ScopeLeft(n, n - 1)
<1>1. InFunction /\ inElse # <<>> /\ inElse' = Front(inElse) /\ returned' = FALSE
      /\ declared' = declared /\ size' = size /\ overDropped' = overDropped /\ selfAssigned' = selfAssigned
    BY DEF Close, history
<1>2. /\ n \in Nat /\ n > 0 /\ Len(bodies) = n + 1 /\ Len(inElse) = n
      /\ Shorter(scopes', scopes, Scope) /\ Shorter(bodies', bodies, Body)
      /\ Shorter(inElse', inElse, BOOLEAN)
    BY <1>1, InnermostIs
<1>3. /\ scopes' \in Seq(Scope) /\ bodies' \in Seq(Body) /\ Len(scopes') = n - 1 /\ Len(bodies') = (n - 1) + 1
      /\ \A i \in 1 .. n - 1 : scopes'[i] = scopes[i]
      /\ \A i \in 1 .. n : bodies'[i] = bodies[i]
      /\ inElse' \in Seq(BOOLEAN) /\ Len(inElse') = n - 1
  <2>1. (n + 1) - 1 = n /\ (n - 1) + 1 = n
      BY <1>2
  <2> QED
      BY <1>2, <2>1 DEF Shorter
<1>4. jobs' = SubSeq(jobs, 1, scopes[n].begin) /\ destroyScope' = TRUE
    BY DEF LeaveScope
<1>5. size \in Nat
    BY DEF IInv, Shape
<1>6. n - 1 # n
    BY <1>2
<1> QED
    BY <1>1, <1>2, <1>3, <1>4, <1>5, <1>6 DEF ScopeLeft

\* The context behind a closed scope.
LEMMA HereClosed ==
  ASSUME IInv, NEW n, ScopeLeft(n, n - 1)
  PROVE  /\ Here'.scope = JobsFrom(1, scopes[n].begin) /\ Here'.list = ToSet(moved') /\ Here'.said = ToSet(moved')
         /\ DOMAIN Here'.kept = 2 .. n
         /\ \A j \in 2 .. n : Here'.kept[j] = ToSet(bodies[j].backup)
<1>1. n \in Nat /\ InScope' = JobsFrom(1, scopes[n].begin)
    BY LeftJobs
<1>2. Len(bodies') = (n - 1) + 1 /\ \A i \in 1 .. n : bodies'[i] = bodies[i]
    BY DEF ScopeLeft
<1>3. Len(bodies') = n /\ \A j \in 2 .. n : bodies'[j] = bodies[j]
    BY <1>1, <1>2
<1>4. Here' = Context(InScope', ToSet(moved'), ToSet(moved'), Kept(bodies', n))
    BY <1>3 DEF Here
<1>5. DOMAIN Kept(bodies', n) = 2 .. n /\ \A j \in 2 .. n : Kept(bodies', n)[j] = ToSet(bodies'[j].backup)
    BY EntryIs
<1> QED
    BY <1>1, <1>3, <1>4, <1>5 DEF Context

\* What is left to show when a scope is closed.
LEMMA ClosedKeeps ==
  ASSUME IInv, NEW n, ScopeLeft(n, n - 1), Grown(Excuses, Excuses'),
         Good(paths', EntryOf(Home(scopes, n - 1)), Here', Excuses'),
         CheckTypeOK', ListDeclared', Doubles', KnownKept'
  PROVE  IInv'
<1>1. n \in Nat /\ n \in 1 .. Len(scopes) /\ jobs' \in Seq(Var)
    BY LeftJobs
<1>2. scopes' \in Seq(Scope) /\ Len(scopes') = n - 1 /\ destroyScope' = TRUE
    BY DEF ScopeLeft
<1>3. Shape' /\ Jumped' /\ LoopBegins' /\ loopBegin' \in Nat
    BY LeftShape
<1>4. DOMAIN scopes' = 1 .. n - 1
    BY <1>2
<1>5. ScopesGood'
  <2>1. \A i \in 1 .. n - 1 : ScopeGood(i)'
      BY LeftScopes
  <2> QED
      BY <1>4, <2>1 DEF ScopesGood
<1>6. CurrentGood'
  <2>1. n - 1 \in 0 .. n - 1
      BY <1>1
  <2> DEFINE l == Home(scopes, n - 1)
  <2>2. Home(scopes', Len(scopes')) = l /\ l \in 1 .. n
      BY <1>2, <2>1, LeftHome
  <2> HIDE DEF l
  <2>3. \A q \in 1 .. n : Entry(jobs', scopes', bodies', q) = EntryOf(q)
      BY LeftEntry DEF EntryOf
  <2>4. Entry(jobs', scopes', bodies', l) = EntryOf(l)
      BY <2>2, <2>3
  <2>5. Entry(jobs', scopes', bodies', Home(scopes', Len(scopes'))) = EntryOf(Home(scopes, n - 1))
      BY <2>2, <2>4 DEF l
  <2> QED
      BY <2>5 DEF CurrentGood, EntryOf
<1>7. EmitTypeOK'
  <2>1. destroyScope' \in BOOLEAN
      BY <1>2
  <2> QED
      BY <1>1, <1>2, <1>3, <1>6, <2>1, EmitTypes
<1> QED
    BY <1>3, <1>5, <1>6, <1>7 DEF IInv

\* The facts on the lists after a body was closed.
LEMMA ClosedLists ==
  ASSUME IInv, NEW n, ScopeLeft(n, n - 1), moved' \in Seq(Var),
         forgotten \subseteq forgotten', Excused \subseteq Excused', maybeLive' = maybeLive,
         \A x \in Var : x \in ToSet(moved') =>
            x \in ToSet(moved) \/ x \in ToSet(bodies[n + 1].backup) \/ x \in Excused',
         \A x \in Var : Twice(moved', x) => x \in Excused',
         \A i \in DOMAIN moved : i <= bodies[n + 1].begin => i \in DOMAIN moved' /\ moved'[i] = moved[i]
  PROVE  ListDeclared' /\ Doubles' /\ KnownKept'
<1>1. n \in Nat /\ n \in 1 .. Len(scopes) /\ Len(bodies) = n + 1
    BY LeftJobs
<1>2. /\ InFunction /\ n = Len(scopes) /\ declared' = declared /\ Len(bodies') = (n - 1) + 1
      /\ \A i \in 1 .. n : bodies'[i] = bodies[i]
    BY DEF ScopeLeft
<1>3. OpenBodies = 2 .. n + 1 /\ OpenBodies' = 2 .. n /\ Len(bodies') = n
    BY <1>1, <1>2 DEF OpenBodies
<1>4. /\ n + 1 \in OpenBodies
      /\ \A j \in OpenBodies' : j \in OpenBodies /\ bodies'[j] = bodies[j]
      /\ \A j \in OpenBodies' : n + 1 \in j .. Len(bodies)
      /\ \A j \in OpenBodies' : \A q \in j .. Len(bodies') : q \in j .. Len(bodies) /\ bodies'[q] = bodies[q]
  <2>1. n + 1 \in 2 .. n + 1 /\ \A j \in 2 .. n : j \in 2 .. n + 1 /\ j \in 1 .. n /\ n + 1 \in j .. n + 1
      BY <1>1
  <2>2. \A j \in 2 .. n : \A q \in j .. n : q \in j .. n + 1 /\ q \in 1 .. n
      BY <1>1
  <2> QED
      BY <1>1, <1>2, <1>3, <2>1, <2>2
<1>5. Excused = conditional \cup maybeLive /\ Excused' = conditional' \cup maybeLive'
    BY DEF Excused
<1>6. ListDeclared'
  <2>1. \A x \in Var \ declared :
          x \in ToSet(moved) \/ (\E j \in OpenBodies : x \in bodies[j].known \cup ToSet(bodies[j].backup))
            => x \in Excused
      BY DEF IInv, ListDeclared, Excused
  <2>2. ASSUME NEW x \in Var \ declared,
               x \in ToSet(moved') \/ (\E j \in OpenBodies' : x \in bodies'[j].known \cup ToSet(bodies'[j].backup))
        PROVE  x \in Excused'
    <3>1. CASE x \in ToSet(moved')
        BY <1>4, <2>1, <3>1
    <3>2. CASE \E j \in OpenBodies' : x \in bodies'[j].known \cup ToSet(bodies'[j].backup)
      <4>1. \E j \in OpenBodies : x \in bodies[j].known \cup ToSet(bodies[j].backup)
          BY <1>4, <3>2
      <4> QED
          BY <2>1, <4>1
    <3> QED
        BY <2>2, <3>1, <3>2
  <2> QED
      BY <1>2, <1>5, <2>2 DEF ListDeclared
<1>7. Doubles'
  <2>1. \A x \in Var : (\E j \in OpenBodies :
            Twice(bodies[j].backup, x) \/ x \in bodies[j].known \cap ToSet(bodies[j].backup)) => x \in Excused
      BY DEF IInv, Doubles, Excused
  <2>2. \A x \in Var : (\E j \in OpenBodies' :
            Twice(bodies'[j].backup, x) \/ x \in bodies'[j].known \cap ToSet(bodies'[j].backup)) => x \in Excused'
      BY <1>4, <2>1
  <2> QED
      BY <1>5, <2>2 DEF Doubles
<1>8. KnownKept'
  <2>1. ASSUME NEW j \in OpenBodies', bodies'[j].kind # "block", NEW x \in bodies'[j].known
        PROVE  \/ Retaken(x, j)'
               \/ \E i \in DOMAIN moved' : moved'[i] = x /\ \A q \in j .. Len(bodies') : i <= bodies'[q].begin
    <3>1. \/ Retaken(x, j)
          \/ \E i \in DOMAIN moved : moved[i] = x /\ \A q \in j .. Len(bodies) : i <= bodies[q].begin
        BY <1>4, <2>1 DEF IInv, KnownKept
    <3>2. Retaken(x, j) => Retaken(x, j)'
        BY <1>4, <2>1 DEF Retaken
    <3>3. ASSUME NEW i \in DOMAIN moved, moved[i] = x, \A q \in j .. Len(bodies) : i <= bodies[q].begin
          PROVE  i \in DOMAIN moved' /\ moved'[i] = x /\ \A q \in j .. Len(bodies') : i <= bodies'[q].begin
        BY <1>4, <3>3
    <3> QED
        BY <3>1, <3>2, <3>3
  <2> QED
      BY <2>1 DEF KnownKept
<1> QED
    BY <1>6, <1>7, <1>8

\* What the ends of the scopes have in common.
LEMMA CloseFacts ==
  ASSUME IInv, Close, NEW n, n = Len(scopes)
  PROVE  /\ n \in Nat /\ n > 0 /\ n \in 1 .. n /\ n \in 1 .. Len(scopes) /\ n \in DOMAIN scopes
         /\ Len(bodies) = n + 1 /\ Innermost = bodies[n + 1] /\ Last(scopes) = scopes[n]
         /\ bodies[n + 1] \in Body /\ bodies[n + 1].kind = scopes[n].kind
         /\ scopes[n].begin \in Nat /\ scopes[n].begin <= Len(jobs)
         /\ InFunction /\ overDropped' = overDropped /\ selfAssigned' = selfAssigned
<1>1. InFunction /\ inElse # <<>> /\ overDropped' = overDropped /\ selfAssigned' = selfAssigned
    BY DEF Close, history
<1>2. /\ n \in Nat /\ n > 0 /\ n \in 1 .. n /\ n \in 1 .. Len(scopes)
      /\ Len(bodies) = n + 1 /\ Innermost = bodies[n + 1] /\ Last(scopes) = scopes[n]
      /\ bodies[n + 1] \in Body /\ bodies[n + 1].kind = scopes[n].kind
      /\ scopes[n].begin \in 0 .. Len(jobs) /\ Len(jobs) \in Nat
    BY <1>1, InnermostIs
<1>3. scopes[n].begin \in Nat /\ scopes[n].begin <= Len(jobs)
    BY <1>2
<1>4. n \in DOMAIN scopes
    BY <1>1, <1>2, InnerFacts
<1> QED
    BY <1>1, <1>2, <1>3, <1>4

\* The end of a block keeps the invariant.
LEMMA CloseBlockKeeps ==
  ASSUME IInv, CloseBlock
  PROVE  IInv'
<1> DEFINE n == Len(scopes)
           s == scopes[n]
           d == [Here EXCEPT !.scope = JobsFrom(1, s.begin)]
           f == EntryOf(Home(scopes, n - 1))
<1>1. Close /\ CheckCloseBlock /\ EmitCloseBlock
    BY DEF CloseBlock
<1>2. /\ n \in Nat /\ n > 0 /\ n \in 1 .. n /\ Len(bodies) = n + 1 /\ Innermost = bodies[n + 1] /\ Last(scopes) = s
      /\ bodies[n + 1].kind = s.kind /\ s.begin \in Nat /\ s.begin <= Len(jobs)
      /\ InFunction /\ overDropped' = overDropped /\ selfAssigned' = selfAssigned
    BY <1>1, CloseFacts
<1>3. /\ s.kind = "block" /\ bodies' = Front(bodies) /\ moved' = moved /\ forgotten' = forgotten
      /\ conditional' = conditional /\ maybeLive' = maybeLive
    BY <1>1, <1>2 DEF CheckCloseBlock
<1>4. LeaveScope(s) /\ scopes' = Front(scopes) /\ paths' = ScopeEnd(s) /\ loopBegin' = loopBegin
    BY <1>1, <1>2 DEF EmitCloseBlock
<1>5. s.kind \notin LoopKinds
    BY <1>3 DEF LoopKinds
<1>6. ScopeLeft(n, n - 1)
    BY <1>1, <1>3, <1>4, <1>5, ClosedIs
<1>7. /\ Excuses' = Excuses /\ Grown(Excuses, Excuses') /\ Sane(Excuses')
  <2>1. Excuses' = Excuses
      BY <1>2, <1>3 DEF Excuses
  <2> QED
      BY <2>1, SaneExcuses DEF Grown
<1>8. /\ Good(ScopeEnd(s), EntryOf(Home(scopes, n)), d, Excuses')
      /\ d.scope = JobsFrom(1, s.begin) /\ d.list = ToSet(moved) /\ d.said = ToSet(moved)
      /\ d.kept = Kept(bodies, n + 1)
  <2> HIDE DEF s
  <2> QED
      BY <1>2, <1>7, EndGood
<1>9. Home(scopes, n) = Home(scopes, n - 1)
    BY <1>5, <1>6, LeftHome
<1>10. /\ Here'.scope = JobsFrom(1, s.begin) /\ Here'.list = ToSet(moved') /\ Here'.said = ToSet(moved')
       /\ DOMAIN Here'.kept = 2 .. n
       /\ \A j \in 2 .. n : Here'.kept[j] = ToSet(bodies[j].backup)
    BY <1>6, HereClosed
<1>11. /\ DOMAIN d.kept = 2 .. n + 1
       /\ \A j \in 2 .. n : Here'.kept[j] = d.kept[j]
  <2>1. /\ DOMAIN Kept(bodies, n + 1) = 2 .. n + 1
        /\ \A j \in 2 .. n + 1 : Kept(bodies, n + 1)[j] = ToSet(bodies[j].backup)
      BY EntryIs
  <2>2. \A j \in 2 .. n : j \in 2 .. n + 1
      BY <1>2
  <2> QED
      BY <1>8, <1>10, <2>1, <2>2
<1> DEFINE e == Here'
           g == Excuses'
<1>12. Good(ScopeEnd(s), f, e, g)
  <2>1. Good(ScopeEnd(s), f, d, g) /\ Grown(g, g)
      BY <1>8, <1>9 DEF Grown
  <2>2. e.scope = d.scope /\ e.list = d.list /\ e.said = d.said
      BY <1>3, <1>8, <1>10
  <2>3. DOMAIN e.kept = 2 .. n /\ DOMAIN d.kept = 2 .. n + 1 /\ \A j \in 2 .. n : e.kept[j] = d.kept[j]
      BY <1>10, <1>11
  <2> HIDE DEF f, d, e, g, s
  <2>4. Recast(f, d, e, g)
      BY <1>2, <2>2, <2>3, DropRecast
  <2> QED
      BY <2>1, <2>4, GoodRecast
<1>13. moved' \in Seq(Var) /\ bodies' \in Seq(Body) /\ CheckTypeOK'
  <2>1. bodies' \in Seq(Body)
      BY <1>6 DEF ScopeLeft
  <2>2. moved \in Seq(Var) /\ forgotten \subseteq Var /\ conditional \subseteq Var /\ maybeLive \subseteq Var
      BY Facts
  <2> QED
      BY <1>3, <2>1, <2>2 DEF CheckTypeOK
<1>14. ListDeclared' /\ Doubles' /\ KnownKept'
  <2>1. Excused' = Excused
      BY <1>3 DEF Excused
  <2>2. \A x \in Var : Twice(moved, x) => x \in Excused
      BY DEF IInv, Doubles, Excused
  <2> HIDE DEF n
  <2>3. \A i \in DOMAIN moved : i <= bodies[n + 1].begin => i \in DOMAIN moved' /\ moved'[i] = moved[i]
      BY <1>3
  <2>4. \A x \in Var : Twice(moved', x) => x \in Excused'
      BY <1>3, <2>1, <2>2
  <2> QED
      BY <1>3, <1>6, <1>13, <2>1, <2>3, <2>4, ClosedLists
<1> QED
  <2>1. Good(paths', EntryOf(Home(scopes, n - 1)), Here', Excuses')
      BY <1>4, <1>12
  <2> QED
      BY <1>6, <1>7, <1>13, <1>14, <2>1, ClosedKeeps

\* The end of an if keeps the invariant.
LEMMA CloseIfKeeps ==
  ASSUME IInv, CloseIf
  PROVE  IInv'
<1> DEFINE n == Len(scopes)
           s == scopes[n]
           b == bodies[n + 1]
           f == EntryOf(Home(scopes, n - 1))
           g == Excuses'
           e == Here'
<1>1. Close /\ CheckCloseIf(returned) /\ EmitCloseIf(Last(inElse))
    BY DEF CloseIf
<1>2. /\ n \in Nat /\ n > 0 /\ n \in 1 .. n /\ Len(bodies) = n + 1 /\ Innermost = b /\ Last(scopes) = s
      /\ b.kind = s.kind /\ b \in Body
      /\ InFunction /\ overDropped' = overDropped /\ selfAssigned' = selfAssigned
    BY <1>1, CloseFacts
<1>3. PICK stale \in Stale(b, returned) :
         LET m == Linked(b, returned, stale) IN
         /\ b.kind = "if"
         /\ moved' = WithoutNew(b, m) \o Backup(b, m)
         /\ bodies' = Front(bodies)
         /\ BranchHistory(b, m, stale)
    BY <1>1, <1>2 DEF CheckCloseIf, Restored
<1> DEFINE rest == WithoutNew(b, Linked(b, returned, stale))
           bk == Backup(b, Linked(b, returned, stale))
<1>4. s.kind = "if" /\ moved' = rest \o bk /\ bodies' = Front(bodies)
    BY <1>2, <1>3
<1>5. /\ LeaveScope(s) /\ scopes' = Front(scopes) /\ loopBegin' = loopBegin
      /\ paths' = s.done \cup ScopeEnd(s) \cup (IF Last(inElse) THEN {} ELSE s.entry)
    BY <1>1, <1>2 DEF EmitCloseIf
<1>6. s.kind \notin LoopKinds
    BY <1>4 DEF LoopKinds
<1>7. ScopeLeft(n, n - 1)
    BY <1>1, <1>4, <1>5, <1>6, ClosedIs
<1>8. Branch(n, n - 1, rest, bk)
    BY <1>3, <1>4, <1>7 DEF Branch
<1> HIDE DEF rest, bk
<1>9. Lists(n, rest, bk) /\ Grown(Excuses, g) /\ Sane(g)
    BY <1>8, BranchLists
<1>10. rest \in Seq(Var) /\ bk \in Seq(Var)
    BY <1>9 DEF Lists
<1>11. Joined(moved', rest, bk)
    BY <1>4, <1>10, JoinedIs
<1>12. /\ moved' \in Seq(Var) /\ ToSet(moved') = ToSet(rest) \cup ToSet(bk)
       /\ \A i \in DOMAIN rest : i \in DOMAIN moved' /\ moved'[i] = rest[i]
       /\ \A x \in Var : Twice(moved', x) => Twice(rest, x) \/ Twice(bk, x) \/ (x \in ToSet(rest) /\ x \in ToSet(bk))
    BY <1>11 DEF Joined
<1>13. /\ e.scope = JobsFrom(1, s.begin) /\ e.list = ToSet(moved') /\ e.said = ToSet(moved')
       /\ DOMAIN e.kept = 2 .. n
       /\ \A j \in 2 .. n : e.kept[j] = ToSet(bodies[j].backup)
    BY <1>7, HereClosed
<1> DEFINE kept == [j \in 2 .. n + 1 |-> IF j = n + 1 THEN ToSet(bk) ELSE ToSet(bodies[j].backup)]
           c == Context(JobsFrom(1, s.begin), ToSet(rest), ToSet(rest), kept)
           d == Context(JobsFrom(1, s.begin), ToSet(rest), ToSet(rest) \cup ToSet(bk), kept)
<1>14. /\ DOMAIN kept = 2 .. n + 1 /\ kept[n + 1] = ToSet(bk)
       /\ \A j \in 2 .. n : kept[j] = ToSet(bodies[j].backup)
  <2>1. n + 1 \in 2 .. n + 1 /\ \A j \in 2 .. n : j \in 2 .. n + 1 /\ j # n + 1
      BY <1>2
  <2> QED
      BY <2>1
<1> HIDE DEF kept
<1>15. /\ c.scope = JobsFrom(1, s.begin) /\ c.list = ToSet(rest) /\ c.said = ToSet(rest) /\ c.kept = kept
       /\ d.scope = JobsFrom(1, s.begin) /\ d.list = ToSet(rest) /\ d.said = ToSet(rest) \cup ToSet(bk) /\ d.kept = kept
    BY DEF Context
<1> HIDE DEF c, d
<1>16. Good(s.entry, f, c, g) /\ Good(s.done \cup ScopeEnd(s), f, d, g)
  <2>1. f = EntryOf(Home(scopes, n - 1)) /\ g = Excuses'
      OBVIOUS
  <2> HIDE DEF f, n, g
  <2>2. /\ c.scope = JobsFrom(1, scopes[n].begin) /\ c.list = ToSet(rest) /\ c.said = ToSet(rest)
        /\ DOMAIN c.kept = 2 .. n + 1 /\ \A j \in 2 .. n : c.kept[j] = ToSet(bodies[j].backup)
        /\ c.kept[n + 1] = ToSet(bk)
      BY <1>14, <1>15
  <2>20. d.scope = c.scope /\ d.list = c.list /\ d.kept = c.kept /\ d.said = ToSet(rest) \cup ToSet(bk)
      BY <1>15
  <2>3. Good(scopes[n].entry, f, c, Excuses') /\ Good(scopes[n].done \cup ScopeEnd(scopes[n]), f, d, Excuses')
    <3> DEFINE k == n - 1
    <3>1. Branch(n, k, rest, bk)
        BY <1>8
    <3>2. f = EntryOf(Home(scopes, n - 1))
        BY <2>1
    <3> HIDE DEF k
    <3> QED
        BY <2>2, <2>20, <3>1, <3>2, BranchGood
  <2> QED
      BY <2>1, <2>3
<1>17. n + 1 \notin DOMAIN f.kept
  <2>1. n - 1 \in 0 .. n - 1
      BY <1>2
  <2> DEFINE l == Home(scopes, n - 1)
  <2>2. l \in 1 .. n
      BY <1>7, <2>1, LeftHome
  <2> HIDE DEF l
  <2>3. DOMAIN f.kept = 2 .. l
      BY EntryIs DEF EntryOf, l
  <2>4. n + 1 \notin 2 .. l
      BY <1>2, <2>2
  <2> QED
      BY <2>3, <2>4
<1> HIDE DEF f, g, e, s
<1>18. Recast(f, c, e, g) /\ Recast(f, d, e, g)
  <2>1. e.scope = c.scope /\ e.scope = d.scope
      BY <1>13, <1>15
  <2>2. /\ \A x \in e.scope : x \in c.said => x \in e.said \/ x \in g.gone
        /\ \A x \in e.scope : x \in d.said => x \in e.said \/ x \in g.gone
      BY <1>12, <1>13, <1>15
  <2>3. /\ \A x \in e.scope : x \in e.list => \/ x \in g.clash \/ x \in c.list
                                              \/ n > 0 /\ n + 1 \notin DOMAIN f.kept /\ x \in c.kept[n + 1]
        /\ \A x \in e.scope : x \in e.list => \/ x \in g.clash \/ x \in d.list
                                              \/ n > 0 /\ n + 1 \notin DOMAIN f.kept /\ x \in d.kept[n + 1]
      BY <1>2, <1>12, <1>13, <1>14, <1>15, <1>17
  <2>4. /\ DOMAIN c.kept = 2 .. n + 1 /\ DOMAIN d.kept = 2 .. n + 1 /\ DOMAIN e.kept = 2 .. n
        /\ \A j \in 2 .. n : e.kept[j] = c.kept[j]
        /\ \A j \in 2 .. n : e.kept[j] = d.kept[j]
      BY <1>13, <1>14, <1>15
  <2>5. Recast(f, c, e, g)
      BY <1>2, <2>1, <2>2, <2>3, <2>4, DropRecast
  <2>6. Recast(f, d, e, g)
      BY <1>2, <2>1, <2>2, <2>3, <2>4, DropRecast
  <2> QED
      BY <2>5, <2>6
<1>19. Good(paths', f, e, g)
  <2>1. Grown(g, g)
      BY DEF Grown
  <2>2. Good(s.entry, f, e, g)
      BY <1>16, <1>18, <2>1, GoodRecast
  <2>3. Good(s.done \cup ScopeEnd(s), f, e, g)
      BY <1>16, <1>18, <2>1, GoodRecast
  <2>4. Good((s.done \cup ScopeEnd(s)) \cup s.entry, f, e, g)
      BY <2>2, <2>3, GoodUnion
  <2>5. paths' \subseteq (s.done \cup ScopeEnd(s)) \cup s.entry
      BY <1>5
  <2> QED
      BY <2>4, <2>5, GoodSub
<1>20. /\ forgotten \subseteq forgotten' /\ forgotten' \subseteq Var
       /\ conditional \subseteq conditional' /\ conditional' \subseteq Var /\ maybeLive' = maybeLive
       /\ maybeLive \subseteq Var
    BY <1>9, Facts DEF Lists
<1>21. CheckTypeOK'
  <2>1. bodies' \in Seq(Body)
      BY <1>7 DEF ScopeLeft
  <2> QED
      BY <1>12, <1>20, <2>1 DEF CheckTypeOK
<1>22. ListDeclared' /\ Doubles' /\ KnownKept'
  <2>1. Excused \subseteq Excused'
      BY <1>20 DEF Excused
  <2>2. /\ \A x \in Var : Twice(rest, x) \/ Twice(bk, x) \/ (x \in ToSet(rest) /\ x \in ToSet(bk)) => x \in Excused'
        /\ \A x \in Var : x \in ToSet(rest) \cup ToSet(bk) =>
             x \in ToSet(moved) \/ x \in ToSet(b.backup) \/ x \in Excused'
        /\ \A i \in DOMAIN moved : i <= b.begin => i \in DOMAIN rest /\ rest[i] = moved[i]
      BY <1>9 DEF Lists
  <2>3. \A x \in Var : x \in ToSet(moved') => x \in ToSet(moved) \/ x \in ToSet(bodies[n + 1].backup) \/ x \in Excused'
      BY <1>12, <2>2
  <2>4. \A x \in Var : Twice(moved', x) => x \in Excused'
      BY <1>12, <2>2
  <2>5. \A i \in DOMAIN moved : i <= bodies[n + 1].begin => i \in DOMAIN moved' /\ moved'[i] = moved[i]
      BY <1>12, <2>2
  <2> HIDE DEF n
  <2> QED
      BY <1>7, <1>12, <1>20, <2>1, <2>3, <2>4, <2>5, ClosedLists
<1> QED
  <2> HIDE DEF n
  <2> QED
      BY <1>7, <1>9, <1>19, <1>21, <1>22, ClosedKeeps DEF f, g, e

\* t is the body b with the lists of a new branch.
BodyNow(t, b, i, u, K) == t = [b EXCEPT !.begin = i, !.backup = u, !.known = K]

\* The parts of the body of the next branch.
LEMMA BodyWith ==
  ASSUME NEW b \in Body, NEW i \in Nat, NEW u \in Seq(Var), NEW K \in SUBSET Var,
         NEW t, BodyNow(t, b, i, u, K)
  PROVE  t \in Body /\ t.kind = b.kind /\ t.begin = i /\ t.backup = u /\ t.known = K
<1>1. PICK k \in BodyKinds, j \in Nat, v \in Seq(Var), L \in SUBSET Var, a \in SUBSET Var :
         b = [kind |-> k, begin |-> j, backup |-> v, known |-> L, atBreak |-> a]
    BY DEF Body
<1>2. t = [kind |-> k, begin |-> i, backup |-> u, known |-> K, atBreak |-> a]
    BY <1>1 DEF BodyNow
<1> QED
    BY <1>1, <1>2 DEF Body

\* t is the scope s with the runs of one more branch.
ScopeNow(t, s, P) == t = [s EXCEPT !.done = @ \cup P]

\* The parts of its scope.
LEMMA ScopeWith ==
  ASSUME NEW s \in Scope, NEW P \in SUBSET Path, NEW t, ScopeNow(t, s, P)
  PROVE  /\ t \in Scope /\ t.kind = s.kind /\ t.begin = s.begin /\ t.prevLoop = s.prevLoop
         /\ t.entry = s.entry /\ t.done = s.done \cup P
<1>1. PICK k \in BodyKinds \ {"function"}, i \in Nat, j \in Nat, A \in SUBSET Path, B \in SUBSET Path, D \in SUBSET Path :
         s = [kind |-> k, begin |-> i, prevLoop |-> j, entry |-> A, done |-> B, again |-> D]
    BY DEF Scope
<1>2. t = [kind |-> k, begin |-> i, prevLoop |-> j, entry |-> A, done |-> B \cup P, again |-> D]
    BY <1>1 DEF ScopeNow
<1> QED
    BY <1>1, <1>2 DEF Scope

\* The next branch of the if at scopes[n], bodies[n + 1], is opened.
NextOpened(n, rest, bk, sn, bn) ==
  /\ sn \in Scope /\ sn.kind = "if" /\ sn.begin = scopes[n].begin /\ sn.prevLoop = scopes[n].prevLoop
  /\ sn.entry = scopes[n].entry /\ sn.done = scopes[n].done \cup ScopeEnd(scopes[n])
  /\ bn \in Body /\ bn.kind = "if" /\ bn.begin = Len(rest) /\ bn.backup = bk /\ bn.known = ToSet(rest)
  /\ scopes'[n] = sn /\ bodies'[n + 1] = bn
  /\ Branch(n, n, rest, bk) /\ moved' = rest /\ paths' = scopes[n].entry

\* What an else or else if changes.
LEMMA NextBranchIs ==
  ASSUME IInv, NEW isElse \in BOOLEAN, NextBranch(isElse), NEW n, n = Len(scopes)
  PROVE  \E rest, bk, sn, bn : NextOpened(n, rest, bk, sn, bn)
<1> DEFINE s == scopes[n]
           b == bodies[n + 1]
           sn == [s EXCEPT !.done = @ \cup ScopeEnd(s)]
<1>1. /\ InFunction /\ inElse # <<>> /\ CheckNextBranch(returned) /\ EmitNextBranch
      /\ inElse' = Append(Front(inElse), isElse) /\ returned' = FALSE /\ size' = size + 1
      /\ declared' = declared /\ overDropped' = overDropped /\ selfAssigned' = selfAssigned
    BY DEF NextBranch, history
<1>2. /\ n \in Nat /\ n > 0 /\ n \in 1 .. Len(scopes) /\ scopes # <<>> /\ bodies # <<>>
      /\ Len(bodies) = n + 1 /\ Innermost = b /\ Last(scopes) = s
      /\ b \in Body /\ s \in Scope /\ b.kind = s.kind /\ s.begin \in 0 .. Len(jobs) /\ Len(jobs) \in Nat
      /\ Len(inElse) = n
    BY <1>1, InnermostIs
<1>3. PICK stale \in Stale(b, returned) :
         LET m == Linked(b, returned, stale)
             rest == WithoutNew(b, m) IN
         /\ b.kind = "if" /\ moved' = rest
         /\ bodies' = Append(Front(bodies), [b EXCEPT !.begin = Len(rest), !.backup = Backup(b, m),
                                                      !.known = ToSet(rest)])
         /\ BranchHistory(b, m, stale)
    BY <1>1, <1>2 DEF CheckNextBranch
<1> DEFINE m == Linked(b, returned, stale)
           rest == WithoutNew(b, m)
           bk == Backup(b, m)
           bn == [b EXCEPT !.begin = Len(rest), !.backup = bk, !.known = ToSet(rest)]
<1>4. b.kind = "if" /\ moved' = rest /\ bodies' = Append(Front(bodies), bn) /\ BranchHistory(b, m, stale)
    BY <1>3
<1>5. /\ LeaveScope(s) /\ scopes' = Append(Front(scopes), sn) /\ paths' = s.entry /\ loopBegin' = loopBegin
    BY <1>1, <1>2 DEF EmitNextBranch
<1>6. m \in Seq(Var)
  <2>1. moved \in Seq(Var) /\ returned \in BOOLEAN
      BY Facts
  <2> HIDE DEF b, m
  <2>2. LinkedAs(m, moved, b, returned, stale)
      BY <1>2, <2>1, LinkedIs DEF m
  <2> QED
      BY <2>2 DEF LinkedAs
<1>7. rest \in Seq(Var) /\ bk \in Seq(Var)
  <2> HIDE DEF b, m, rest, bk
  <2>1. SplitAs(rest, bk, m, b)
      BY <1>2, <1>6, SplitIs DEF rest, bk
  <2> QED
      BY <2>1 DEF SplitAs
<1>8. /\ bn \in Body /\ bn.kind = "if" /\ bn.begin = Len(rest) /\ bn.backup = bk /\ bn.known = ToSet(rest)
  <2> HIDE DEF b, m, rest, bk
  <2>1. Len(rest) \in Nat /\ ToSet(rest) \subseteq Var
      BY <1>7 DEF ToSet
  <2>2. BodyNow(bn, b, Len(rest), bk, ToSet(rest))
      BY DEF BodyNow
  <2> HIDE DEF bn
  <2> QED
      BY <1>2, <1>4, <1>7, <2>1, <2>2, BodyWith
<1>9. /\ sn \in Scope /\ sn.kind = "if" /\ sn.begin = s.begin /\ sn.prevLoop = s.prevLoop
      /\ sn.entry = s.entry /\ sn.done = s.done \cup ScopeEnd(s)
  <2>1. ScopeEnd(s) \subseteq Path
    <3>1. s.begin \in Nat /\ s.begin <= Len(jobs) /\ Grown(Excuses, Excuses) /\ Sane(Excuses)
        BY <1>2, SaneExcuses DEF Grown
    <3> DEFINE d == [Here EXCEPT !.scope = JobsFrom(1, s.begin)]
    <3> HIDE DEF s
    <3>2. Good(ScopeEnd(s), EntryOf(Home(scopes, Len(scopes))), d, Excuses)
        BY <1>1, <3>1, EndGood
    <3> QED
        BY <3>2 DEF Good
  <2>2. ScopeNow(sn, s, ScopeEnd(s))
      BY DEF ScopeNow
  <2> DEFINE P == ScopeEnd(s)
  <2>3. s \in Scope /\ s.kind = "if" /\ P \in SUBSET Path /\ ScopeNow(sn, s, P)
      BY <1>2, <1>4, <2>1, <2>2
  <2> HIDE DEF s, b, sn, P
  <2>4. /\ sn \in Scope /\ sn.kind = s.kind /\ sn.begin = s.begin /\ sn.prevLoop = s.prevLoop
        /\ sn.entry = s.entry /\ sn.done = s.done \cup P
      BY <2>3, ScopeWith
  <2> QED
      BY <2>3, <2>4 DEF P
<1>10. Replaced(scopes', scopes, sn, Scope) /\ Replaced(bodies', bodies, bn, Body) /\ Replaced(inElse', inElse, isElse, BOOLEAN)
  <2>1. scopes \in Seq(Scope) /\ bodies \in Seq(Body) /\ inElse \in Seq(BOOLEAN)
      BY Facts
  <2> HIDE DEF sn, bn, s
  <2> QED
      BY <1>1, <1>2, <1>4, <1>5, <1>8, <1>9, <2>1, ReplacedIs
<1>11. ScopeLeft(n, n)
  <2>1. /\ scopes' \in Seq(Scope) /\ bodies' \in Seq(Body) /\ Len(scopes') = n /\ Len(bodies') = n + 1
        /\ \A i \in 1 .. n - 1 : scopes'[i] = scopes[i]
        /\ scopes'[n] = sn /\ bodies'[n + 1] = bn
        /\ inElse' \in Seq(BOOLEAN) /\ Len(inElse') = n
    <3> HIDE DEF sn, bn
    <3> QED
        BY <1>2, <1>10 DEF Replaced
  <2>2. \A i \in 1 .. n : bodies'[i] = bodies[i]
    <3>1. (n + 1) - 1 = n
        BY <1>2
    <3> HIDE DEF bn
    <3> QED
        BY <1>2, <1>10, <3>1 DEF Replaced
  <2>3. jobs' = SubSeq(jobs, 1, s.begin) /\ destroyScope' = TRUE
      BY <1>5 DEF LeaveScope
  <2>4. size' \in Nat
    <3>1. size \in Nat
        BY DEF IInv, Shape
    <3> QED
        BY <1>1, <3>1
  <2>5. s.kind = "if" /\ s.kind \notin LoopKinds
      BY <1>2, <1>4 DEF LoopKinds
  <2> HIDE DEF sn, bn
  <2> QED
      BY <1>1, <1>2, <1>5, <1>8, <1>9, <2>1, <2>2, <2>3, <2>4, <2>5 DEF ScopeLeft
<1>12. Branch(n, n, rest, bk)
    BY <1>2, <1>4, <1>11 DEF Branch
<1>13. scopes'[n] = sn /\ bodies'[n + 1] = bn
  <2> HIDE DEF sn, bn
  <2> QED
      BY <1>2, <1>10 DEF Replaced
<1> HIDE DEF sn, bn, rest, bk
<1>14. NextOpened(n, rest, bk, sn, bn)
    BY <1>4, <1>5, <1>8, <1>9, <1>12, <1>13 DEF NextOpened
<1> QED
    BY <1>14

\* The facts on the lists in the next branch.
LEMMA NextLists ==
  ASSUME IInv, NEW n, NEW rest, NEW bk, NEW sn, NEW bn, NextOpened(n, rest, bk, sn, bn)
  PROVE  CheckTypeOK' /\ ListDeclared' /\ Doubles' /\ KnownKept'
<1> DEFINE b == bodies[n + 1]
<1>0. /\ ScopeLeft(n, n) /\ Branch(n, n, rest, bk) /\ moved' = rest
      /\ bodies'[n + 1] = bn /\ bn \in Body /\ bn.kind = "if" /\ bn.begin = Len(rest) /\ bn.backup = bk
      /\ bn.known = ToSet(rest)
    BY DEF NextOpened, Branch
<1>1. n \in Nat /\ n \in 1 .. Len(scopes) /\ Len(bodies) = n + 1
    BY <1>0, LeftJobs
<1>2. /\ InFunction /\ n = Len(scopes) /\ declared' = declared /\ Len(bodies') = n + 1 /\ bodies' \in Seq(Body)
      /\ \A i \in 1 .. n : bodies'[i] = bodies[i]
    BY <1>0 DEF ScopeLeft
<1>3. OpenBodies = 2 .. n + 1 /\ OpenBodies' = 2 .. n + 1
    BY <1>1, <1>2 DEF OpenBodies
<1>4. /\ n + 1 \in OpenBodies
      /\ \A j \in OpenBodies' : j \in OpenBodies /\ (j = n + 1 \/ bodies'[j] = bodies[j])
      /\ \A j \in OpenBodies' : n + 1 \in j .. Len(bodies)
      /\ \A j \in OpenBodies' : \A q \in j .. Len(bodies') : q \in j .. Len(bodies) /\ (q = n + 1 \/ bodies'[q] = bodies[q])
  <2>1. n + 1 \in 2 .. n + 1 /\ \A j \in 2 .. n + 1 : (j = n + 1 \/ j \in 1 .. n) /\ n + 1 \in j .. n + 1
      BY <1>1
  <2>2. \A j \in 2 .. n + 1 : \A q \in j .. n + 1 : q = n + 1 \/ q \in 1 .. n
      BY <1>1
  <2> QED
      BY <1>1, <1>2, <1>3, <2>1, <2>2
<1>5. Excused = conditional \cup maybeLive /\ Excused' = conditional' \cup maybeLive'
    BY DEF Excused
<1>6. Lists(n, rest, bk)
    BY <1>0, BranchLists
<1>7. /\ rest \in Seq(Var) /\ bk \in Seq(Var)
      /\ forgotten \subseteq forgotten' /\ forgotten' \subseteq Var
      /\ conditional \subseteq conditional' /\ conditional' \subseteq Var /\ maybeLive' = maybeLive
      /\ \A x \in Var : Twice(rest, x) \/ Twice(bk, x) \/ (x \in ToSet(rest) /\ x \in ToSet(bk)) => x \in Excused'
      /\ \A x \in Var : x \in ToSet(rest) \cup ToSet(bk) =>
           x \in ToSet(moved) \/ x \in ToSet(b.backup) \/ x \in Excused'
      /\ \A i \in DOMAIN moved : i <= b.begin => i \in DOMAIN rest /\ rest[i] = moved[i]
    BY <1>6 DEF Lists
<1>8. Excused \subseteq Excused'
    BY <1>5, <1>7
<1>9. CheckTypeOK'
  <2>1. maybeLive \subseteq Var
      BY Facts
  <2> QED
      BY <1>0, <1>2, <1>7, <2>1 DEF CheckTypeOK
<1> HIDE DEF b
<1>10. ListDeclared'
  <2>1. \A x \in Var \ declared :
          x \in ToSet(moved) \/ (\E j \in OpenBodies : x \in bodies[j].known \cup ToSet(bodies[j].backup))
            => x \in Excused
      BY DEF IInv, ListDeclared, Excused
  <2>0. \A x \in Var \ declared : x \in ToSet(rest) \cup ToSet(bk) => x \in Excused'
      BY <1>4, <1>7, <1>8, <2>1 DEF b
  <2>2. ASSUME NEW x \in Var \ declared,
               x \in ToSet(moved') \/ (\E j \in OpenBodies' : x \in bodies'[j].known \cup ToSet(bodies'[j].backup))
        PROVE  x \in Excused'
    <3>1. CASE x \in ToSet(moved')
        BY <1>0, <2>0, <3>1
    <3>2. CASE \E j \in OpenBodies' : x \in bodies'[j].known \cup ToSet(bodies'[j].backup)
      <4>1. PICK j \in OpenBodies' : x \in bodies'[j].known \cup ToSet(bodies'[j].backup)
          BY <3>2
      <4>2. CASE j = n + 1
          BY <1>0, <2>0, <4>1, <4>2
      <4>3. CASE bodies'[j] = bodies[j]
        <5>1. x \in bodies[j].known \cup ToSet(bodies[j].backup) /\ j \in OpenBodies
            BY <1>4, <4>1, <4>3
        <5> QED
            BY <1>8, <2>1, <5>1
      <4> QED
          BY <1>4, <4>2, <4>3
    <3> QED
        BY <2>2, <3>1, <3>2
  <2> QED
      BY <1>2, <1>5, <2>2 DEF ListDeclared
<1>11. Doubles'
  <2>1. \A x \in Var : (\E j \in OpenBodies :
            Twice(bodies[j].backup, x) \/ x \in bodies[j].known \cap ToSet(bodies[j].backup)) => x \in Excused
      BY DEF IInv, Doubles, Excused
  <2>2. ASSUME NEW x \in Var, NEW j \in OpenBodies',
               Twice(bodies'[j].backup, x) \/ x \in bodies'[j].known \cap ToSet(bodies'[j].backup)
        PROVE  x \in Excused'
    <3>1. CASE j = n + 1
        BY <1>0, <1>7, <2>2, <3>1
    <3>2. CASE bodies'[j] = bodies[j]
      <4>1. Twice(bodies[j].backup, x) \/ x \in bodies[j].known \cap ToSet(bodies[j].backup)
          BY <2>2, <3>2
      <4> QED
          BY <1>4, <1>8, <2>1, <4>1
    <3> QED
        BY <1>4, <3>1, <3>2
  <2>3. \A x \in Var : Twice(moved', x) => x \in Excused'
      BY <1>0, <1>7
  <2> QED
      BY <1>5, <2>2, <2>3 DEF Doubles
<1>12. KnownKept'
  <2>1. ASSUME NEW j \in OpenBodies', bodies'[j].kind # "block", NEW x \in bodies'[j].known
        PROVE  \/ Retaken(x, j)'
               \/ \E i \in DOMAIN moved' : moved'[i] = x /\ \A q \in j .. Len(bodies') : i <= bodies'[q].begin
    <3>1. \A i \in DOMAIN rest : i <= Len(rest)
        BY <1>7
    <3>2. CASE j = n + 1
      <4>1. PICK i \in DOMAIN rest : rest[i] = x
          BY <1>0, <2>1, <3>2 DEF ToSet
      <4>2. \A q \in n + 1 .. Len(bodies') : q = n + 1
          BY <1>1, <1>2
      <4> QED
          BY <1>0, <3>1, <3>2, <4>1, <4>2
    <3>3. CASE bodies'[j] = bodies[j]
      <4>1. \/ Retaken(x, j)
            \/ \E i \in DOMAIN moved : moved[i] = x /\ \A q \in j .. Len(bodies) : i <= bodies[q].begin
          BY <1>4, <2>1, <3>3 DEF IInv, KnownKept
      <4>2. Retaken(x, j) => Retaken(x, j)'
          BY <1>7, <3>3 DEF Retaken
      <4>3. ASSUME NEW i \in DOMAIN moved, moved[i] = x, \A q \in j .. Len(bodies) : i <= bodies[q].begin
            PROVE  i \in DOMAIN moved' /\ moved'[i] = x /\ \A q \in j .. Len(bodies') : i <= bodies'[q].begin
        <5>1. i \in DOMAIN rest /\ rest[i] = x
            BY <1>4, <1>7, <4>3 DEF b
        <5> QED
            BY <1>0, <1>4, <3>1, <4>3, <5>1
      <4> QED
          BY <4>1, <4>2, <4>3
    <3> QED
        BY <1>4, <3>2, <3>3
  <2> QED
      BY <2>1 DEF KnownKept
<1> QED
    BY <1>9, <1>10, <1>11, <1>12

\* else and else if keep the invariant.
LEMMA NextBranchKeeps ==
  ASSUME IInv, NEW isElse \in BOOLEAN, NextBranch(isElse)
  PROVE  IInv'
<1> DEFINE n == Len(scopes)
           s == scopes[n]
           f == EntryOf(Home(scopes, n - 1))
           g == Excuses'
           e == Entry(jobs', scopes', bodies', n + 1)
<1>1. PICK rest, bk, sn, bn : NextOpened(n, rest, bk, sn, bn)
    BY NextBranchIs
<1>2. /\ sn \in Scope /\ sn.kind = "if" /\ sn.begin = s.begin
      /\ sn.entry = s.entry /\ sn.done = s.done \cup ScopeEnd(s)
      /\ bn \in Body /\ bn.kind = "if" /\ bn.begin = Len(rest) /\ bn.backup = bk /\ bn.known = ToSet(rest)
      /\ scopes'[n] = sn /\ bodies'[n + 1] = bn
      /\ Branch(n, n, rest, bk) /\ moved' = rest /\ paths' = s.entry
    BY <1>1 DEF NextOpened
<1>3. ScopeLeft(n, n)
    BY <1>2 DEF Branch
<1>4. /\ n \in Nat /\ n \in 1 .. Len(scopes) /\ Len(bodies) = n + 1
      /\ jobs' \in Seq(Var) /\ Len(jobs') = s.begin /\ InScope' = JobsFrom(1, s.begin) /\ n > 0
    BY <1>3, LeftJobs DEF ScopeLeft
<1>5. /\ scopes' \in Seq(Scope) /\ Len(scopes') = n /\ Len(bodies') = n + 1 /\ destroyScope' = TRUE
      /\ \A i \in 1 .. n : bodies'[i] = bodies[i]
    BY <1>3 DEF ScopeLeft
<1>6. Grown(Excuses, g) /\ Sane(g)
    BY <1>2, BranchLists
<1>7. /\ e.scope = JobsFrom(1, s.begin) /\ e.list = ToSet(rest) /\ e.said = ToSet(rest)
      /\ e.kept = Kept(bodies', n + 1) /\ Here' = e
      /\ e = [scope |-> e.scope, list |-> e.list, said |-> e.said, kept |-> e.kept]
  <2>1. Outer(jobs', scopes', n + 1) = InScope'
    <3>1. n + 1 # 1 /\ (n + 1) - 1 = n
        BY <1>4
    <3>2. Outer(jobs', scopes', n + 1) = ToSet(SubSeq(jobs', 1, sn.begin))
        BY <1>2, <3>1 DEF Outer
    <3>3. SubSeq(jobs', 1, sn.begin) = jobs'
        BY <1>2, <1>4
    <3> QED
        BY <3>2, <3>3 DEF InScope
  <2>2. Known(bodies', n + 1) = ToSet(rest)
    <3>1. n + 1 # 1
        BY <1>4
    <3> QED
        BY <1>2, <3>1 DEF Known
  <2>3. e = Context(InScope', ToSet(rest), ToSet(rest), Kept(bodies', n + 1))
      BY <2>1, <2>2 DEF Entry
  <2>4. Here' = Context(InScope', ToSet(rest), ToSet(rest), Kept(bodies', n + 1))
      BY <1>2, <1>5 DEF Here
  <2> QED
      BY <1>4, <2>3, <2>4 DEF Context
<1>8. /\ DOMAIN e.kept = 2 .. n + 1 /\ e.kept[n + 1] = ToSet(bk)
      /\ \A j \in 2 .. n : e.kept[j] = ToSet(bodies[j].backup)
  <2>1. /\ DOMAIN e.kept = 2 .. n + 1 /\ \A j \in 2 .. n + 1 : e.kept[j] = ToSet(bodies'[j].backup)
      BY <1>7, EntryIs
  <2>2. n + 1 \in 2 .. n + 1 /\ \A j \in 2 .. n : j \in 2 .. n + 1 /\ j \in 1 .. n
      BY <1>4
  <2> QED
      BY <1>2, <1>5, <2>1, <2>2
<1> DEFINE d == [e EXCEPT !.said = @ \cup ToSet(bk)]
<1>9. d.scope = e.scope /\ d.list = e.list /\ d.kept = e.kept /\ d.said = ToSet(rest) \cup ToSet(bk)
    BY <1>7
<1>10. Good(s.entry, f, e, g) /\ Good(s.done \cup ScopeEnd(s), f, d, g)
  <2>1. f = EntryOf(Home(scopes, n - 1)) /\ g = Excuses'
      OBVIOUS
  <2>2. e.scope = JobsFrom(1, scopes[n].begin) /\ e.list = ToSet(rest) /\ e.said = ToSet(rest)
      BY <1>7
  <2> HIDE DEF f, n, g, e, d
  <2>3. Good(scopes[n].entry, f, e, Excuses') /\ Good(scopes[n].done \cup ScopeEnd(scopes[n]), f, d, Excuses')
      BY <1>2, <1>8, <1>9, <2>1, <2>2, BranchGood
  <2> QED
      BY <2>1, <2>3
<1>11. /\ Home(scopes', n) = Home(scopes, n - 1) /\ Home(scopes', n - 1) = Home(scopes, n - 1)
       /\ Home(scopes, n - 1) \in 1 .. n
  <2>1. n - 1 \in 0 .. n - 1
      BY <1>4
  <2> HIDE DEF n
  <2> QED
      BY <1>3, <2>1, LeftHome
<1>12. Entry(jobs', scopes', bodies', Home(scopes', n)) = f /\ Entry(jobs', scopes', bodies', Home(scopes', n - 1)) = f
  <2> DEFINE l == Home(scopes, n - 1)
  <2>1. \A q \in 1 .. n : Entry(jobs', scopes', bodies', q) = EntryOf(q)
      BY <1>3, LeftEntry DEF EntryOf
  <2>2. l \in 1 .. n /\ Home(scopes', n) = l /\ Home(scopes', n - 1) = l
      BY <1>11
  <2> HIDE DEF l
  <2>3. Entry(jobs', scopes', bodies', l) = EntryOf(l)
      BY <2>1, <2>2
  <2> QED
      BY <2>2, <2>3 DEF l
<1>13. ScopesGood'
  <2>1. ASSUME NEW i \in 1 .. n - 1 PROVE ScopeGood(i)'
      BY <1>3, <1>6, LeftScopes
  <2>2. ASSUME NEW i, i = n PROVE ScopeGood(i)'
    <3>1. /\ scopes'[i] = sn /\ bodies'[i + 1] = bn
        BY <1>2, <2>2
    <3>2. Entry(jobs', scopes', bodies', i + 1) = e /\ Entry(jobs', scopes', bodies', Home(scopes', i - 1)) = f
        BY <1>12, <2>2
    <3>3. Good(sn.entry, f, e, g) /\ Good(sn.done, f, [e EXCEPT !.said = @ \cup ToSet(bn.backup)], g)
        BY <1>2, <1>10
    <3>4. sn.kind \notin LoopKinds
        BY <1>2 DEF LoopKinds
    <3> HIDE DEF e, f
    <3> QED
        BY <3>1, <3>2, <3>3, <3>4 DEF ScopeGood, EntryOf
  <2>3. \A i \in 1 .. n : i \in 1 .. n - 1 \/ i = n
      BY <1>4
  <2>4. \A i \in 1 .. n : ScopeGood(i)'
      BY <2>1, <2>2, <2>3
  <2>5. DOMAIN scopes' = 1 .. n
      BY <1>5
  <2> QED
      BY <2>4, <2>5 DEF ScopesGood
<1>14. CurrentGood'
  <2>1. Good(paths', f, Here', g)
      BY <1>2, <1>7, <1>10
  <2>2. Entry(jobs', scopes', bodies', Home(scopes', Len(scopes'))) = f
      BY <1>5, <1>12
  <2> HIDE DEF f
  <2> QED
      BY <2>1, <2>2 DEF CurrentGood, EntryOf
<1>15. Shape' /\ Jumped' /\ LoopBegins' /\ loopBegin' \in Nat
    BY <1>3, LeftShape
<1>16. EmitTypeOK'
  <2>1. destroyScope' \in BOOLEAN
      BY <1>5
  <2> QED
      BY <1>4, <1>5, <1>14, <1>15, <2>1, EmitTypes
<1>17. CheckTypeOK' /\ ListDeclared' /\ Doubles' /\ KnownKept'
    BY <1>1, NextLists
<1> QED
    BY <1>13, <1>14, <1>15, <1>16, <1>17 DEF IInv

\* The end of a loop keeps the invariant, whatever its kind and however often
\* it ran.
LEMMA CloseLoopKeeps ==
  ASSUME IInv, CloseLoop
  PROVE  IInv'
<1> DEFINE n == Len(scopes)
           s == scopes[n]
           b == bodies[n + 1]
           f == EntryOf(Home(scopes, n - 1))
           c == EntryOf(n + 1)
           d == [c EXCEPT !.said = b.atBreak]
           here == [Here EXCEPT !.scope = JobsFrom(1, s.begin)]
           g == Excuses'
           e == Here'
<1>1. Close /\ CheckCloseLoop(OuterOf(n), returned, destroyScope) /\ EmitCloseLoop
    BY DEF CloseLoop
<1>2. /\ n \in Nat /\ n > 0 /\ n \in 1 .. n /\ n \in 1 .. Len(scopes) /\ n \in DOMAIN scopes
      /\ Len(bodies) = n + 1 /\ Innermost = b /\ Last(scopes) = s
      /\ b.kind = s.kind /\ b \in Body /\ s.begin \in Nat /\ s.begin <= Len(jobs)
      /\ InFunction /\ overDropped' = overDropped /\ selfAssigned' = selfAssigned
    BY <1>1, CloseFacts
<1>3. PICK stale \in Stale(b, returned) :
         /\ b.kind \in LoopKinds
         /\ moved' = Linked(b, returned, stale)
         /\ bodies' = Front(bodies)
         /\ forgotten' = forgotten \cup (b.atBreak \ ToSet(moved'))
                           \cup (IF destroyScope THEN MovedInRound(OuterOf(n), b) ELSE {})
         /\ conditional' = conditional \cup (ToSet(moved') \ b.known) \cup ToSet(stale)
         /\ maybeLive' = maybeLive
  <2> HIDE DEF n, b
  <2> QED
      BY <1>1, <1>2 DEF CheckCloseLoop
<1>4. s.kind \in LoopKinds
    BY <1>2, <1>3
<1>5. /\ LeaveScope(s) /\ scopes' = Front(scopes) /\ loopBegin' = s.prevLoop
      /\ paths' = LoopRuns(s.kind, s.entry, ScopeEnd(s) \cup s.again, s.done)
    BY <1>1, <1>2 DEF EmitCloseLoop
<1>6. ScopeLeft(n, n - 1)
    BY <1>1, <1>3, <1>4, <1>5, ClosedIs
<1>7. /\ moved \in Seq(Var) /\ forgotten \subseteq Var /\ conditional \subseteq Var /\ maybeLive \subseteq Var
      /\ returned \in BOOLEAN /\ jobs \in Seq(Var) /\ InScope \subseteq Var /\ destroyScope \in BOOLEAN
    BY Facts
<1>8. LinkedAs(moved', moved, b, returned, stale)
    BY <1>2, <1>3, <1>7, LinkedIs
<1>9. /\ moved' \in Seq(Var) /\ stale \in Seq(Var)
      /\ ToSet(moved') \subseteq ToSet(moved) \cup ToSet(stale)
      /\ \A i \in DOMAIN moved : i <= b.begin => i \in DOMAIN moved' /\ moved'[i] = moved[i]
      /\ \A x \in Var : Twice(moved', x) => Twice(moved, x) \/ x \in ToSet(stale)
    BY <1>8 DEF LinkedAs
<1>10. /\ Outer(jobs, scopes, n + 1) = JobsFrom(1, s.begin) /\ InScope' = JobsFrom(1, s.begin)
       /\ JobsFrom(1, s.begin) \subseteq InScope /\ s.begin \in 0 .. Len(jobs)
    BY <1>6, LeftJobs
<1>11. OuterOf(n) = JobsFrom(1, s.begin)
  <2> DEFINE m == s.begin
  <2>1. m \in 0 .. Len(jobs) /\ OuterOf(n) = ToSet(SubSeq(jobs, 1, m))
      BY <1>10 DEF OuterOf
  <2> HIDE DEF m
  <2>2. OuterOf(n) = JobsFrom(1, m)
      BY <1>7, <2>1, JobsStart
  <2> QED
      BY <2>2 DEF m
<1>12. /\ forgotten \subseteq forgotten' /\ forgotten' \subseteq Var
       /\ conditional \subseteq conditional' /\ conditional' \subseteq Var
       /\ maybeLive' = maybeLive
  <2>1. b.atBreak \subseteq Var
      BY <1>2 DEF Body
  <2>2. \A u \in Seq(Var) : ToSet(u) \subseteq Var
      BY DEF ToSet
  <2>3. MovedInRound(OuterOf(n), b) \subseteq Var
      BY <1>7, <1>10, <1>11 DEF MovedInRound
  <2> HIDE DEF n, b
  <2> QED
      BY <1>3, <1>7, <1>9, <2>1, <2>2, <2>3
<1>13. Grown(Excuses, g) /\ Sane(g)
    BY <1>2, <1>12, ExcusesGrow
<1>14. /\ g.clash = conditional' \cup maybeLive' /\ g.gone = forgotten' \cup overDropped'
    BY DEF Excuses
<1>15. /\ c.scope = JobsFrom(1, s.begin) /\ c.list = b.known /\ c.said = b.known
       /\ DOMAIN c.kept = 2 .. n + 1 /\ \A j \in 2 .. n + 1 : c.kept[j] = ToSet(bodies[j].backup)
       /\ c = [scope |-> c.scope, list |-> c.list, said |-> c.said, kept |-> c.kept]
  <2>1. c = [scope |-> c.scope, list |-> c.list, said |-> c.said, kept |-> c.kept]
      BY DEF EntryOf, Entry, Context
  <2>2. n + 1 # 1
      BY <1>2
  <2>3. Known(bodies, n + 1) = b.known
      BY <2>2 DEF Known
  <2> QED
      BY <1>10, <2>1, <2>3, EntryIs DEF EntryOf
<1>16. d.scope = c.scope /\ d.list = c.list /\ d.said = b.atBreak /\ d.kept = c.kept
    BY <1>15
<1>17. Good(s.entry, f, c, g) /\ Good(s.done, c, d, g) /\ Good(s.again, c, c, g)
  <2>1. Good(s.entry, f, c, Excuses) /\ Good(s.done, c, d, Excuses) /\ Good(s.again, c, c, Excuses)
    <3>1. ScopeGood(n)
        BY <1>2 DEF IInv, ScopesGood
    <3>2. s.kind # "if"
        BY <1>4 DEF LoopKinds
    <3> HIDE DEF c
    <3> QED
        BY <1>4, <3>1, <3>2 DEF ScopeGood, c
  <2> HIDE DEF f, c, d, g, s
  <2> QED
      BY <1>13, <2>1, GoodGrows
<1>18. /\ Home(scopes, Len(scopes)) = n + 1 /\ Home(scopes, n - 1) \in 1 .. n
  <2>1. n - 1 \in 0 .. n - 1
      BY <1>2
  <2>2. Home(scopes, n) = n + 1
      BY <1>4, <1>6, LeftHome
  <2> HIDE DEF n
  <2>3. Home(scopes, n - 1) \in 1 .. n
      BY <1>6, <2>1, LeftHome
  <2> QED
      BY <2>2, <2>3 DEF n
<1>19. /\ Good(ScopeEnd(s), c, here, g)
       /\ ~destroyScope => \A p \in ScopeEnd(s) : ~Running(p.now)
  <2> DEFINE h == EntryOf(Home(scopes, Len(scopes)))
  <2>1. h = c
      BY <1>18
  <2> HIDE DEF s, g, h
  <2>2. /\ Good(ScopeEnd(s), h, here, g)
        /\ ~destroyScope => \A p \in ScopeEnd(s) : ~Running(p.now)
      BY <1>2, <1>13, EndGood DEF h
  <2> QED
      BY <2>1, <2>2
<1>20. \A x \in b.known : x \in ToSet(moved') \/ x \in forgotten'
  <2>1. n + 1 \in OpenBodies /\ n + 1 \in n + 1 .. Len(bodies) /\ b.kind # "block"
    <3>1. OpenBodies = 2 .. Len(scopes) + 1 /\ b.kind # "block"
        BY <1>2, <1>3, InnerFacts DEF LoopKinds
    <3> QED
        BY <1>2, <3>1
  <2>2. \A x \in b.known : Retaken(x, n + 1) \/ \E i \in DOMAIN moved : moved[i] = x /\ \A j \in n + 1 .. Len(bodies) : i <= bodies[j].begin
      BY <2>1 DEF IInv, KnownKept
  <2>3. \A x \in b.known : x \in forgotten \/ \E i \in DOMAIN moved : moved[i] = x /\ i <= b.begin
      BY <2>1, <2>2 DEF Retaken
  <2> QED
      BY <1>9, <1>12, <2>3 DEF ToSet
<1>21. /\ e.scope = JobsFrom(1, s.begin) /\ e.list = ToSet(moved') /\ e.said = ToSet(moved')
       /\ DOMAIN e.kept = 2 .. n
       /\ \A j \in 2 .. n : e.kept[j] = ToSet(bodies[j].backup)
    BY <1>6, HereClosed
<1>22. \A j \in 2 .. n : e.kept[j] = c.kept[j]
  <2>1. \A j \in 2 .. n : j \in 2 .. n + 1
      BY <1>2
  <2> QED
      BY <1>15, <1>21, <2>1
<1>23. /\ ToSet(moved') \subseteq b.known \cup g.clash
       /\ b.known \subseteq ToSet(moved') \cup g.gone
       /\ b.atBreak \subseteq ToSet(moved') \cup g.gone
  <2> HIDE DEF n, b, g
  <2> QED
      BY <1>3, <1>14, <1>20
<1>24. Good(ScopeEnd(s), c, c, g)
  <2>1. CASE ~destroyScope
    <3> HIDE DEF c, here, g, s
    <3> QED
        BY <1>19, <2>1, GoodStopped
  <2>2. CASE destroyScope
    <3>1. MovedInRound(OuterOf(n), b) \subseteq g.gone
      <4> HIDE DEF n, b, g
      <4> QED
          BY <1>3, <1>14, <2>2
    <3>2. \A x \in JobsFrom(1, s.begin) : x \in ToSet(moved) => x \in b.known \/ x \in g.gone
        BY <1>11, <3>1 DEF MovedInRound
    <3> DEFINE l == n + 1
               u == [c EXCEPT !.said = b.known]
    <3>3. l \in 2 .. Len(scopes) + 1 /\ l - 1 = n
        BY <1>2
    <3>4. u = c
        BY <1>15
    <3>5. maybeLive \subseteq g.clash
        BY <1>12, <1>14
    <3>6. Recast(c, here, c, g)
      <4>1. /\ c = EntryOf(l) /\ here = [Here EXCEPT !.scope = JobsFrom(1, scopes[l - 1].begin)]
            /\ bodies[l].kind \in LoopKinds
            /\ \A x \in JobsFrom(1, scopes[l - 1].begin) : x \in ToSet(moved) => x \in b.known \/ x \in g.gone
          BY <1>3, <3>2, <3>3
      <4>2. u = [c EXCEPT !.said = b.known]
          OBVIOUS
      <4> HIDE DEF c, here, g, l, b, u
      <4>3. Recast(c, here, u, g)
          BY <1>2, <3>3, <3>5, <4>1, <4>2, JumpRecast
      <4> QED
          BY <3>4, <4>3
    <3> HIDE DEF c, here, g, s
    <3>7. Grown(g, g)
        BY DEF Grown
    <3> QED
        BY <1>19, <3>6, <3>7, GoodRecast
  <2> QED
      BY <2>1, <2>2
<1> HIDE DEF c, d, e, f, g, here, s
<1>25. Good(ScopeEnd(s) \cup s.again, c, c, g)
    BY <1>17, <1>24, GoodUnion
<1>26. Recast(f, c, e, g) /\ Recast(f, d, e, g)
  <2>1. e.scope = c.scope /\ e.scope = d.scope
      BY <1>15, <1>16, <1>21
  <2>2. /\ \A x \in e.scope : x \in c.said => x \in e.said \/ x \in g.gone
        /\ \A x \in e.scope : x \in d.said => x \in e.said \/ x \in g.gone
      BY <1>15, <1>16, <1>21, <1>23
  <2>3. /\ \A x \in e.scope : x \in e.list => x \in g.clash \/ x \in c.list
        /\ \A x \in e.scope : x \in e.list => x \in g.clash \/ x \in d.list
      BY <1>15, <1>16, <1>21, <1>23
  <2>4. /\ DOMAIN c.kept = 2 .. n + 1 /\ DOMAIN d.kept = 2 .. n + 1 /\ DOMAIN e.kept = 2 .. n
        /\ \A j \in 2 .. n : e.kept[j] = d.kept[j]
      BY <1>15, <1>16, <1>21, <1>22
  <2>5. Recast(f, c, e, g)
      BY <1>2, <1>22, <2>1, <2>2, <2>3, <2>4, DropRecast
  <2>6. Recast(f, d, e, g)
      BY <1>2, <2>1, <2>2, <2>3, <2>4, DropRecast
  <2> QED
      BY <2>5, <2>6
<1>27. Good(paths', f, e, g)
  <2>1. d.scope \subseteq c.scope
      BY <1>16
  <2>2. Good(LoopRuns(s.kind, s.entry, ScopeEnd(s) \cup s.again, s.done), f, e, g)
      BY <1>13, <1>17, <1>25, <1>26, <2>1, LoopGood
  <2> QED
      BY <1>5, <2>2
<1>28. CheckTypeOK'
  <2>1. bodies' \in Seq(Body)
      BY <1>6 DEF ScopeLeft
  <2> QED
      BY <1>7, <1>9, <1>12, <2>1 DEF CheckTypeOK
<1>29. ListDeclared' /\ Doubles' /\ KnownKept'
  <2>1. Excused \subseteq Excused' /\ ToSet(stale) \subseteq Excused'
    <3> HIDE DEF n, b
    <3> QED
        BY <1>3, <1>12 DEF Excused
  <2>2. \A x \in Var : Twice(moved, x) => x \in Excused
      BY DEF IInv, Doubles, Excused
  <2>3. \A x \in Var : x \in ToSet(moved') => x \in ToSet(moved) \/ x \in ToSet(bodies[n + 1].backup) \/ x \in Excused'
      BY <1>9, <2>1
  <2>4. \A x \in Var : Twice(moved', x) => x \in Excused'
      BY <1>9, <2>1, <2>2
  <2>5. \A i \in DOMAIN moved : i <= bodies[n + 1].begin => i \in DOMAIN moved' /\ moved'[i] = moved[i]
      BY <1>9
  <2> HIDE DEF n, b
  <2> QED
      BY <1>6, <1>9, <1>12, <2>1, <2>3, <2>4, <2>5, ClosedLists
<1> QED
  <2> HIDE DEF n
  <2> QED
      BY <1>6, <1>13, <1>27, <1>28, <1>29, ClosedKeeps DEF f, g, e

\* The end of the function keeps the invariant.
LEMMA EndFunctionKeeps ==
  ASSUME IInv, EndFunction
  PROVE  IInv'
<1> DEFINE s == [begin |-> 0]
           d == [Here EXCEPT !.scope = JobsFrom(1, s.begin)]
           f == EntryOf(1)
<1>1. /\ InFunction /\ inElse = <<>> /\ paths' = ScopeEnd(s) /\ jobs' = <<>> /\ destroyScope' = TRUE /\ bodies' = <<>>
      /\ moved' = moved /\ forgotten' = forgotten /\ conditional' = conditional /\ maybeLive' = maybeLive
      /\ loopBegin' = loopBegin /\ scopes' = scopes /\ declared' = declared /\ returned' = returned
      /\ inElse' = inElse /\ size' = size /\ overDropped' = overDropped /\ selfAssigned' = selfAssigned
    BY DEF EndFunction, history
<1>2. /\ moved \in Seq(Var) /\ jobs \in Seq(Var) /\ Len(jobs) \in Nat /\ loopBegin \in Nat
      /\ scopes \in Seq(Scope) /\ Len(scopes) = Len(inElse)
      /\ declared \subseteq Var
    BY Facts
<1>3. scopes = <<>> /\ Len(scopes) = 0
    BY <1>1, <1>2
<1>4. Excuses' = Excuses /\ Grown(Excuses, Excuses') /\ Sane(Excuses')
  <2>1. Excuses' = Excuses
      BY <1>1 DEF Excuses
  <2> QED
      BY <2>1, SaneExcuses DEF Grown
<1>5. /\ s.begin = 0 /\ s.begin \in Nat /\ s.begin <= Len(jobs)
    BY <1>2
<1>6. /\ Good(ScopeEnd(s), EntryOf(Home(scopes, Len(scopes))), d, Excuses')
      /\ returned => \A p \in ScopeEnd(s) : ~Running(p.now)
      /\ d.scope = JobsFrom(1, s.begin)
  <2> HIDE DEF s
  <2> QED
      BY <1>1, <1>4, <1>5, EndGood
<1>7. Home(scopes, Len(scopes)) = 1
  <2>1. Len(scopes) \in 0 .. Len(scopes) /\ Len(scopes) + 1 = 1
      BY <1>3
  <2>2. Home(scopes, Len(scopes)) \in 1 .. Len(scopes) + 1
      BY <1>1, <2>1, HomeFacts
  <2> QED
      BY <2>1, <2>2
<1>8. d.scope = {}
  <2>1. 1 .. s.begin = {}
      BY <1>5
  <2> QED
      BY <1>6, <2>1 DEF JobsFrom
<1>9. Here'.scope = {} /\ InScope' = {}
  <2>1. InScope' = {}
      BY <1>1 DEF InScope, ToSet
  <2> QED
      BY <2>1 DEF Here, Context
<1>10. Entry(jobs', scopes', bodies', 1) = f
  <2>1. \A j \in 2 .. 1 : bodies[j].backup = bodies'[j].backup
      OBVIOUS
  <2>2. Entry(jobs, scopes, bodies, 1) = Entry(jobs', scopes', bodies', 1)
    <3> DEFINE l == 1
               jc == jobs'
               sd == scopes'
               bd == bodies'
    <3>1. l \in Nat /\ ~(l > 1) /\ l >= 1 /\ l # 0 /\ \A j \in 2 .. l : bodies[j].backup = bd[j].backup
        BY <2>1
    <3> HIDE DEF l, jc, sd, bd
    <3>2. Entry(jobs, scopes, bodies, l) = Entry(jc, sd, bd, l)
        BY <3>1, EntrySame
    <3> QED
        BY <3>2 DEF l, jc, sd, bd
  <2> QED
      BY <2>2 DEF EntryOf
<1>11. CurrentGood'
  <2>1. Good(paths', f, d, Excuses')
      BY <1>1, <1>6, <1>7
  <2>2. Entry(jobs', scopes', bodies', Home(scopes', Len(scopes'))) = f
      BY <1>1, <1>7, <1>10
  <2> HIDE DEF f, d
  <2>3. Good(paths', f, Here', Excuses')
      BY <1>8, <1>9, <2>1 DEF Good
  <2> QED
      BY <2>2, <2>3 DEF CurrentGood, EntryOf
<1>12. ScopesGood' /\ KnownKept'
  <2>1. DOMAIN scopes' = {} /\ OpenBodies' = {}
      BY <1>1, <1>3 DEF OpenBodies
  <2> QED
      BY <2>1 DEF ScopesGood, KnownKept
<1>13. ListDeclared' /\ Doubles'
  <2>1. OpenBodies' = {}
      BY <1>1 DEF OpenBodies
  <2> QED
      BY <1>1, <2>1 DEF IInv, ListDeclared, Doubles
<1>14. LoopBegins'
    BY <1>1, LoopBeginsSame
<1>15. Jumped'
    BY <1>1, <1>6 DEF Jumped, InFunction
<1>16. CheckTypeOK'
  <2>1. <<>> \in Seq(Body)
      OBVIOUS
  <2> QED
      BY <1>1, <2>1 DEF IInv, CheckTypeOK
<1>17. EmitTypeOK'
  <2>1. jobs' \in Seq(Var) /\ destroyScope' \in BOOLEAN
      BY <1>1
  <2> QED
      BY <1>1, <1>2, <1>11, <2>1, EmitTypes
<1>18. Shape'
  <2>1. IsInjective(jobs')
      BY <1>1 DEF IsInjective
  <2>2. /\ scopes \in Seq(Scope) /\ inElse \in Seq(BOOLEAN) /\ size \in Nat /\ returned \in BOOLEAN
        /\ declared \subseteq Var /\ overDropped \subseteq Var /\ selfAssigned \subseteq Var
      BY DEF IInv, Shape
  <2>3. DOMAIN scopes' = {}
      BY <1>1, <1>3
  <2> QED
      BY <1>1, <1>2, <1>3, <1>9, <2>1, <2>2, <2>3 DEF Shape, InFunction
<1> QED
    BY <1>11, <1>12, <1>13, <1>14, <1>15, <1>16, <1>17, <1>18 DEF IInv

(***************************************************************************)
(* The invariant, and what follows from it.                                *)
(***************************************************************************)
\* The state behind the initialisation of the first i parameters.
Begun(e, i) ==
  /\ e \in Env /\ Running(e)
  /\ \A x \in Var : IF \E j \in 1 .. i : jobs[j] = x THEN e.val[x] = "live" /\ e.flag[x] = TRUE
                    ELSE e.val[x] = "none" /\ e.flag[x] = FALSE

\* The parameters hold a value and their flags are up when the body starts.
LEMMA BegunAll ==
  ASSUME jobs \in Seq(Var), NEW e, e = Run(Start, [i \in DOMAIN jobs |-> C("init", jobs[i])])
  PROVE  Begun(e, Len(jobs)) /\ Begun(Start, 0)
<1> DEFINE code == [i \in DOMAIN jobs |-> C("init", jobs[i])]
           n == Len(jobs)
<1>1. n \in Nat /\ DOMAIN jobs = 1 .. n /\ \A i \in 1 .. n : jobs[i] \in Var
    OBVIOUS
<1>2. /\ code \in Seq(Code) /\ Len(code) = n
      /\ \A i \in 1 .. n : code[i] = C("init", jobs[i])
  <2>1. \A i \in 1 .. n : C("init", jobs[i]) \in Code
    <3>1. "init" \in Ops
        BY DEF Ops
    <3> QED
        BY <1>1, <3>1, CIs
  <2>2. code \in [1 .. n -> Code]
      BY <1>1, <2>1
  <2>3. code \in Seq(Code) /\ DOMAIN code = 1 .. n
      BY <1>1, <2>2, SeqDef
  <2>4. Len(code) = n
      BY <1>1, <2>3
  <2> QED
      BY <1>1, <2>3, <2>4
<1> HIDE DEF code
<1>3. Begun(Start, 0)
  <2>1. Start \in Env /\ Running(Start)
      BY DEF Start, Env, Running, NoFault, Faults
  <2>2. \A x \in Var : Start.val[x] = "none" /\ Start.flag[x] = FALSE
      BY DEF Start
  <2>3. ~\E j \in 1 .. 0 : TRUE
      OBVIOUS
  <2> QED
      BY <2>1, <2>2, <2>3 DEF Begun
<1>4. PICK r \in [0 .. Len(code) -> Env] : Steps(r, Start, code) /\ Run(Start, code) = r[Len(code)]
    BY <1>2, <1>3, RunHas DEF Begun
<1> DEFINE S == {i \in Nat : i <= n => Begun(r[i], i)}
<1>5. 0 \in S
    BY <1>3, <1>4 DEF Steps
<1>6. ASSUME NEW i \in S PROVE i + 1 \in S
  <2> SUFFICES ASSUME i + 1 <= n PROVE Begun(r[i + 1], i + 1)
      OBVIOUS
  <2> DEFINE k == i + 1
             d == r[i]
             z == r[k]
             x == jobs[k]
  <2>1. k \in 1 .. n /\ k - 1 = i /\ i \in Nat /\ Begun(d, i) /\ x \in Var
      BY <1>1
  <2>2. z = Exec(d, C("init", x))
      BY <1>2, <1>4, <2>1 DEF Steps
  <2>3. \A j \in 1 .. k : j \in 1 .. i \/ j = k
      BY <2>1
  <2>4. \A j \in 1 .. i : j \in 1 .. k
      BY <2>1
  <2>5. k \in 1 .. k
      BY <2>1
  <2> HIDE DEF d, z, x, k
  <2>0. d \in Env /\ Running(d)
      BY <2>1 DEF Begun
  <2>6. /\ z \in Env /\ \A y \in Var \ {x} : SameAt(z, d, y)
        /\ Running(z) /\ z.val[x] = "live" /\ z.flag[x] = TRUE
      BY <2>0, <2>1, <2>2, ExecInit
  <2>7. ASSUME NEW y \in Var
        PROVE  IF \E j \in 1 .. k : jobs[j] = y THEN z.val[y] = "live" /\ z.flag[y] = TRUE
               ELSE z.val[y] = "none" /\ z.flag[y] = FALSE
    <3>1. CASE y = x
        BY <2>5, <2>6, <3>1 DEF x
    <3>2. CASE y # x
      <4>1. SameAt(z, d, y)
          BY <2>6, <3>2
      <4>2. (\E j \in 1 .. k : jobs[j] = y) <=> (\E j \in 1 .. i : jobs[j] = y)
          BY <2>3, <2>4, <3>2 DEF x
      <4> QED
          BY <2>1, <4>1, <4>2 DEF Begun, SameAt
    <3> QED
        BY <3>1, <3>2
  <2>8. Begun(z, k)
      BY <2>6, <2>7 DEF Begun
  <2> QED
      BY <2>8 DEF z, k
<1>7. S = Nat
  <2> HIDE DEF S
  <2>1. S \subseteq Nat
      BY DEF S
  <2> QED
      BY <1>5, <1>6, <2>1, Induction
<1>8. Begun(r[n], n)
    BY <1>1, <1>7
<1> QED
    BY <1>2, <1>3, <1>4, <1>8 DEF code

\* The invariant holds at the start of the function.
LEMMA InitHolds == Init => IInv
<1> SUFFICES ASSUME Init PROVE IInv
    OBVIOUS
<1> DEFINE fn == [kind |-> "function", begin |-> 0, backup |-> <<>>, known |-> {}, atBreak |-> {}]
           e == Run(Start, [i \in DOMAIN jobs |-> C("init", jobs[i])])
           p == [from |-> Start, now |-> e]
<1>1. /\ moved = <<>> /\ bodies = <<fn>> /\ forgotten = {} /\ conditional = {} /\ maybeLive = {}
      /\ jobs \in Parameters /\ loopBegin = 0 /\ destroyScope = TRUE /\ scopes = <<>>
      /\ paths = {p}
      /\ declared = ToSet(jobs) /\ returned = FALSE /\ inElse = <<>> /\ size = 0
      /\ overDropped = {} /\ selfAssigned = {}
    BY DEF Init, Run
<1> HIDE DEF e
<1>2. jobs \in Seq(Var) /\ Len(jobs) \in Nat /\ IsInjective(jobs) /\ ToSet(jobs) \subseteq Var
  <2>0. Cardinality(Var) \in Nat
      BY VarAssumption, FS_CardinalityType
  <2>1. PICK n \in 0 .. Cardinality(Var) : jobs \in [1 .. n -> Var]
      BY <1>1 DEF Parameters
  <2>2. jobs \in Seq(Var)
      BY <2>0, <2>1, SeqDef
  <2>3. ToSet(jobs) \subseteq Var
      BY <2>2 DEF ToSet
  <2> QED
      BY <1>1, <2>2, <2>3 DEF Parameters
<1>3. fn \in Body /\ fn.kind = "function"
  <2>1. <<>> \in Seq(Var)
      OBVIOUS
  <2> QED
      BY <2>1 DEF Body, BodyKinds
<1> HIDE DEF fn
<1>4. bodies \in Seq(Body) /\ Len(bodies) = 1 /\ bodies # <<>>
    BY <1>1, <1>3
<1>5. /\ scopes \in Seq(Scope) /\ Len(scopes) = 0 /\ DOMAIN scopes = {} /\ inElse \in Seq(BOOLEAN) /\ Len(inElse) = 0
      /\ moved \in Seq(Var) /\ DOMAIN moved = {} /\ ToSet(moved) = {} /\ ToSet(scopes) = {}
    BY <1>1 DEF ToSet
<1>6. Begun(e, Len(jobs)) /\ Begun(Start, 0)
    BY <1>2, BegunAll DEF e
<1>7. /\ e \in Env /\ Running(e) /\ Start \in Env /\ Running(Start)
      /\ \A x \in ToSet(jobs) : e.val[x] = "live" /\ e.flag[x] = TRUE
      /\ \A x \in Var : Start.val[x] = "none" /\ Start.flag[x] = FALSE
  <2>1. \A x \in ToSet(jobs) : \E j \in 1 .. Len(jobs) : jobs[j] = x
      BY <1>2 DEF ToSet
  <2>2. ~\E j \in 1 .. 0 : TRUE
      OBVIOUS
  <2> QED
      BY <1>2, <1>6, <2>1, <2>2 DEF Begun
<1>8. p \in Path /\ p.from = Start /\ p.now = e
    BY <1>7 DEF Path
<1> HIDE DEF p
<1>9. CheckTypeOK
    BY <1>1, <1>4, <1>5 DEF CheckTypeOK
<1>10. EmitTypeOK
    BY <1>1, <1>2, <1>5, <1>8 DEF EmitTypeOK
<1>11. Shape
  <2>1. declared \in SUBSET Var /\ overDropped \in SUBSET Var /\ selfAssigned \in SUBSET Var
      BY <1>1, <1>2
  <2>2. size \in Nat /\ returned \in BOOLEAN /\ Len(scopes) = Len(inElse)
      BY <1>1, <1>5
  <2>3. InFunction /\ Len(bodies) = Len(scopes) + 1
      BY <1>4, <1>5 DEF InFunction
  <2>4. \A i \in DOMAIN scopes : FALSE
      BY <1>5
  <2>5. scopes \in Seq(Scope) /\ inElse \in Seq(BOOLEAN)
      BY <1>5
  <2>6. IsInjective(jobs) /\ InScope \subseteq declared
      BY <1>1, <1>2 DEF InScope
  <2> QED
      BY <2>1, <2>2, <2>3, <2>4, <2>5, <2>6 DEF Shape
<1>12. Jumped
    BY <1>1 DEF Jumped
<1>13. Home(scopes, 0) = 1
  <2>1. 0 \in 0 .. Len(scopes)
      BY <1>5
  <2>2. Home(scopes, 0) \in 1 .. 0 + 1
      BY <1>5, <2>1, HomeIs
  <2> QED
      BY <2>2
<1>14. LoopBegins
    BY <1>1, <1>5, <1>13 DEF LoopBegins, FirstJob
<1>15. OpenBodies = {}
    BY <1>4 DEF OpenBodies
<1>16. ListDeclared /\ Doubles /\ KnownKept /\ ScopesGood
    BY <1>5, <1>15 DEF ListDeclared, Doubles, KnownKept, ScopesGood, Twice
<1>17. CurrentGood
  <2>1. Here.scope = ToSet(jobs) /\ Here.list = {} /\ DOMAIN Here.kept = {}
    <3>1. DOMAIN Kept(bodies, 1) = {}
        BY DEF Kept
    <3> QED
        BY <1>4, <1>5, <3>1 DEF Here, Context, InScope
  <2>2. \A x \in ToSet(jobs) : Safe(p, EntryOf(1), Here, Excuses, x)
      BY <1>7, <1>8, <2>1 DEF Safe, Gone, Clash, FlagUp, FlagDown, Live
  <2>3. \A x \in Var : Blamed(p, EntryOf(1), Excuses, x)
      BY <1>7, <1>8 DEF Blamed, Running, NoFault
  <2>4. Clean(p.from, EntryOf(1))
      BY <1>7, <1>8 DEF Clean
  <2>5. Good(paths, EntryOf(1), Here, Excuses)
      BY <1>1, <1>8, <2>1, <2>2, <2>3, <2>4 DEF Good
  <2> QED
      BY <1>5, <1>13, <2>5 DEF CurrentGood
<1> QED
    BY <1>9, <1>10, <1>11, <1>12, <1>14, <1>16, <1>17 DEF IInv

\* Nothing changes the invariant without a statement.
LEMMA StutterKeeps ==
  ASSUME IInv, UNCHANGED vars
  PROVE  IInv'
<1>1. /\ moved' = moved /\ bodies' = bodies /\ forgotten' = forgotten /\ conditional' = conditional
      /\ maybeLive' = maybeLive /\ jobs' = jobs /\ loopBegin' = loopBegin /\ destroyScope' = destroyScope
      /\ scopes' = scopes /\ paths' = paths /\ declared' = declared /\ returned' = returned
      /\ inElse' = inElse /\ size' = size /\ overDropped' = overDropped /\ selfAssigned' = selfAssigned
    BY DEF vars, checkVars, emitVars
<1>2. InFunction' = InFunction /\ InScope' = InScope /\ Excuses' = Excuses /\ Here' = Here /\ OpenBodies' = OpenBodies
      /\ \A l : EntryOf(l)' = EntryOf(l)
    BY <1>1 DEF InFunction, InScope, Excuses, Here, OpenBodies, EntryOf
<1>3. CheckTypeOK' /\ EmitTypeOK'
    BY <1>1 DEF IInv, CheckTypeOK, EmitTypeOK
<1>4. Shape'
    BY <1>1, <1>2 DEF IInv, Shape
<1>5. Jumped' /\ LoopBegins'
    BY <1>1, <1>2 DEF IInv, Jumped, LoopBegins
<1>6. ListDeclared' /\ Doubles'
    BY <1>1, <1>2 DEF IInv, ListDeclared, Doubles
<1>7. KnownKept'
    BY <1>1, <1>2 DEF IInv, KnownKept, Retaken
<1>8. CurrentGood'
    BY <1>1, <1>2 DEF IInv, CurrentGood, EntryOf
<1>9. ScopesGood'
    BY <1>1, <1>2 DEF IInv, ScopesGood, ScopeGood, EntryOf
<1> QED
    BY <1>3, <1>4, <1>5, <1>6, <1>7, <1>8, <1>9 DEF IInv

\* Every statement, scope and jump keeps the invariant.
LEMMA NextKeeps ==
  ASSUME IInv, [Next]_vars
  PROVE  IInv'
<1>1. ASSUME NEW x \in Var, NEW y \in Var \cup {NoVar}, Declare(x, y) PROVE IInv'
    BY <1>1, DeclareKeeps
<1>2. ASSUME NEW x \in Var, NEW y \in Var \cup {NoVar}, Assign(x, y) PROVE IInv'
    BY <1>2, AssignKeeps
<1>3. ASSUME NEW x \in Var, MoveInto(x) PROVE IInv'
    BY <1>3, MoveIntoKeeps
<1>4. ASSUME NEW kind \in BodyKinds \ {"function"}, Enter(kind) PROVE IInv'
    BY <1>4, EnterKeeps
<1>5. ASSUME NEW isElse \in BOOLEAN, NextBranch(isElse) PROVE IInv'
    BY <1>5, NextBranchKeeps
<1>6. CASE CloseIf
    BY <1>6, CloseIfKeeps
<1>7. CASE CloseBlock
    BY <1>7, CloseBlockKeeps
<1>8. CASE CloseLoop
    BY <1>8, CloseLoopKeeps
<1>9. ASSUME NEW isBreak \in BOOLEAN, Jump(isBreak) PROVE IInv'
    BY <1>9, JumpKeeps
<1>10. ASSUME NEW x \in Var \cup {NoVar}, Return(x) PROVE IInv'
    BY <1>10, ReturnKeeps
<1>11. CASE EndFunction
    BY <1>11, EndFunctionKeeps
<1>12. CASE UNCHANGED vars
    BY <1>12, StutterKeeps
<1> QED
    BY <1>1, <1>2, <1>3, <1>4, <1>5, <1>6, <1>7, <1>8, <1>9, <1>10, <1>11, <1>12 DEF Next

\* The invariant holds throughout, for any variables, any number of statements and
\* parameters, and any nesting: what SymResLinkBody's list says of a variable and what
\* its drop flag says in the C of ToCAstVisitor agree with what it holds, on every
\* path, up to what the history excuses.
THEOREM Invariance == Spec => []IInv
<1>1. IInv /\ [Next]_vars => IInv'
    BY NextKeeps
<1> QED
    BY <1>1, InitHolds, PTL DEF Spec

\* The list, the open bodies, destruct_jobs and the runs of the emitted code keep their
\* types.
THEOREM MovesTypeCorrect == Spec => []TypeOK
<1>1. IInv => TypeOK
    BY DEF IInv, TypeOK
<1> QED
    BY <1>1, Invariance, PTL

\* A drop flag says whether its variable holds a value, on every path through the code
\* that was emitted so far: what CDestructionVisitor's if(flag) relies on.
THEOREM FlagsTruthfulHolds == Spec => []FlagsTruthful
<1>1. IInv => FlagsTruthful
  <2> SUFFICES ASSUME IInv, NEW p \in paths, Running(p.now), NEW x \in InScope,
                      p.now.flag[x] # (p.now.val[x] = "live")
               PROVE  p.from.flag[x] # (p.from.val[x] = "live") \/ x \in overDropped \cup selfAssigned
      BY DEF FlagsTruthful
  <2>1. /\ p \in Path /\ Safe(p, EntryOf(Home(scopes, Len(scopes))), Here, Excuses, x)
        /\ x \in Var
      BY Facts DEF IInv, CurrentGood, Good
  <2>2. p.now.flag[x] \in BOOLEAN /\ p.from.flag[x] \in BOOLEAN
      BY <2>1 DEF Path, Env
  <2>3. FlagUp(p.now, x) \/ FlagDown(p.now, x)
      BY <2>2 DEF FlagUp, FlagDown, Live
  <2>4. x \in overDropped \cup selfAssigned \/ FlagUp(p.from, x) \/ FlagDown(p.from, x)
      BY <2>1, <2>3 DEF Safe, Excuses
  <2> QED
      BY <2>2, <2>4 DEF FlagUp, FlagDown, Live
<1> QED
    BY <1>1, Invariance, PTL

\* At function level every run started from a state that holds nothing.
LEMMA FromStart ==
  ASSUME IInv, AtFunctionLevel, NEW p \in paths
  PROVE  /\ p \in Path
         /\ \A x \in Var : p.from.val[x] = "none" /\ p.from.flag[x] = FALSE
         /\ \A x \in Var : Blamed(p, EntryOf(1), Excuses, x)
         /\ Running(p.now) => \A x \in InScope : Safe(p, EntryOf(1), Here, Excuses, x)
<1>1. Home(scopes, Len(scopes)) = 1
    BY Facts, LoopOf DEF AtFunctionLevel
<1>2. Good(paths, EntryOf(1), Here, Excuses) /\ Here.scope = InScope
    BY <1>1, Facts DEF IInv, CurrentGood
<1>3. EntryOf(1).scope = {}
    BY EntryIs DEF EntryOf, Outer
<1> QED
    BY <1>2, <1>3 DEF Good, Clean

\* What went wrong, and where: a fault names a variable.
LEMMA FaultIs ==
  ASSUME IInv, AtFunctionLevel, NEW what \in {"used", "destroyed", "leaked"}, NEW x \in FaultsOf(what)
  PROVE  x \in Var /\ \E p \in paths : p.now.fault = <<what, x>>
<1>1. PICK p \in paths : p.now.fault[1] = what /\ x = p.now.fault[2]
    BY DEF FaultsOf, Now
<1>2. p.now.fault \in Faults
    BY FromStart DEF Path, Env
<1>3. p.now.fault # NoFault
    BY <1>1 DEF NoFault
<1>4. p.now.fault \in {"used", "destroyed", "leaked"} \X Var
    BY <1>2, <1>3 DEF Faults
<1>5. x \in Var /\ p.now.fault = <<what, x>>
    BY <1>1, <1>4
<1> QED
    BY <1>5

\* No value is overwritten, or goes out of scope, without being destroyed, except by the
\* assignments that assign_statement was told are reinitialisations, and x = x.
THEOREM NoLeakHolds == Spec => []NoLeak
<1>1. IInv => NoLeak
  <2> SUFFICES ASSUME IInv, AtFunctionLevel, NEW x \in FaultsOf("leaked")
               PROVE  x \in maybeLive \cup selfAssigned
      BY DEF NoLeak
  <2>1. PICK p \in paths : x \in Var /\ p.now.fault = <<"leaked", x>>
      BY FaultIs
  <2>2. Blamed(p, EntryOf(1), Excuses, x) /\ p.from.val[x] = "none"
      BY <2>1, FromStart
  <2> QED
      BY <2>1, <2>2 DEF Blamed, Excuses, FlagDown, Live
<1> QED
    BY <1>1, Invariance, PTL

\* An accepted program moves, returns or destroys no value that is gone, except a variable
\* that came off moved_identifiers too early, or was dropped by a jump out of a loop used
\* as a value.
THEOREM NoMovedUseHolds == Spec => []NoMovedUse
<1>1. IInv => NoMovedUse
  <2> SUFFICES ASSUME IInv, AtFunctionLevel, NEW x, x \in FaultsOf("used") \cup FaultsOf("destroyed")
               PROVE  x \in forgotten \cup overDropped
      BY DEF NoMovedUse
  <2>1. PICK what \in {"used", "destroyed"} : x \in FaultsOf(what)
      OBVIOUS
  <2>2. PICK p \in paths : x \in Var /\ p.now.fault = <<what, x>>
      BY <2>1, FaultIs
  <2>3. /\ Blamed(p, EntryOf(1), Excuses, x) /\ p.from.val[x] = "none" /\ p.from.flag[x] = FALSE
      BY <2>2, FromStart
  <2> QED
      BY <2>1, <2>2, <2>3 DEF Blamed, Excuses, Gone, FlagUp
<1> QED
    BY <1>1, Invariance, PTL

\* Outside of loops, a variable that some path has moved or destroyed is on
\* moved_identifiers, except where the list is known to have lost it.
THEOREM CheckerRemembersHolds == Spec => []CheckerRemembers
<1>1. IInv => CheckerRemembers
  <2> SUFFICES ASSUME IInv, AtFunctionLevel, NEW p \in paths, NEW x \in InScope, p.now.val[x] = "gone"
               PROVE  ~Usable(x) \/ x \in forgotten \cup overDropped
      BY DEF CheckerRemembers, Now
  <2>1. p \in Path /\ x \in Var
      BY FromStart, Facts
  <2>2. Running(p.now)
      BY <2>1 DEF Path, Env, Running
  <2>3. Safe(p, EntryOf(1), Here, Excuses, x) /\ p.from.val[x] = "none"
      BY <2>1, <2>2, FromStart
  <2>4. Here.said = ToSet(moved)
      BY Facts
  <2> QED
      BY <2>3, <2>4 DEF Safe, Gone, Excuses, Usable
<1> QED
    BY <1>1, Invariance, PTL
==============================================================================
