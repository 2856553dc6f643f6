----------------------------- MODULE ClientProofs -----------------------------
(* What passes between a supervisor and its app server arrives or is said to  *)
(* be missing, for any number of supervisors, controls, notifications and     *)
(* questions and any capacity of the queue.                                   *)
EXTENDS AppServerClient, FoldLemmas

Kinds == {"note", "lag", "ask", "reply", "disconnected"}
Events == [kind : Kinds, n : Nat, lossless : BOOLEAN]
Asks == [sup : Clients, epoch : Nat, id : Nat]
Items == Controls \cup Asks \cup {"none"}
Whats == {"none", "resume", "respond", "control"}
Messages == [what : Whats, id : Nat, item : Items]
Stages == {"none", "queued", "written", "answered", "failed"}
Connections ==
  [worker : {"on", "ending", "gone"}, mode : {"stdio", "daemon"}, wire : Seq(Events), queue : Seq(Events),
   held : Seq(Events), skipped : Nat, next : Nat, awaited : Nat, sent : Seq(Messages), up : BOOLEAN,
   notes : Nat, asks : Nat, open : SUBSET Nat, told : Nat, last : [n : Nat, lossless : BOOLEAN]]
Calls == [stage : Stages, what : Whats, item : Items]
Entries == [control : Controls, status : {"pending", "sent"}]
Rows == [ask : Asks, status : {"pending", "ready", "resolved"}]
Places == {"off", "resume", "responses", "respond", "control", "pump"}
ClientTypes ==
  /\ conn \in [Clients -> Connections] /\ epoch \in [Clients -> Nat]
  /\ place \in [Clients -> Places] /\ call \in [Clients -> Calls]
  /\ todo \in [Clients -> Seq(Entries) \cup Seq(Rows)]
  /\ outbox \in Seq(Entries) /\ rows \in Seq(Rows) /\ arrived \subseteq Items

LEMMA StandsType == ASSUME NEW e \in Events PROVE Stands(e) \in Nat
BY DEF Stands, Events, Kinds

\* Accounted adds up from the left.
LEMMA AccountedFold ==
  ASSUME NEW s \in Seq(Events)
  PROVE  \E a \in [0..Len(s) -> Nat] :
           /\ a[0] = 0 /\ \A k \in 1..Len(s) : a[k] = a[k - 1] + Stands(s[k])
           /\ Accounted(s) = a[Len(s)]
<1> DEFINE n == Len(s)
           step == [p \in (1..n) \X Nat |-> p[2] + Stands(s[p[1]])]
           Iter(f) == f = [t \in SUBSET (1..n) |-> IF t = {} THEN 0 ELSE f[t \ {Max(t)}] + Stands(s[Max(t)])]
<1>1. n \in Nat /\ DOMAIN s = 1..n /\ \A k \in 1..n : s[k] \in Events /\ Stands(s[k]) \in Nat
  BY StandsType
<1> HIDE DEF n
<1>2. step \in [(1..n) \X Nat -> Nat]
  BY <1>1
<1>3. PICK f : IsFold(f, n, Nat, 0, step)
  <2>1. n \in Nat /\ 0 \in Nat
    BY <1>1
  <2> HIDE DEF step
  <2> QED
    BY <2>1, <1>2, FoldExists
<1> f \in [SUBSET (1..n) -> Nat]
  BY <1>3 DEF IsFold
<1>4. ASSUME NEW t \in SUBSET (1..n), t # {}
      PROVE  f[t] = f[t \ {Max(t)}] + Stands(s[Max(t)])
  <2>1. Max(t) \in 1..n
    BY <1>1, <1>4, MaxOf
  <2>2. f[t \ {Max(t)}] \in Nat
    OBVIOUS
  <2>3. f[t] = step[<<Max(t), f[t \ {Max(t)}]>>]
    BY <1>3, <1>4 DEF IsFold
  <2> HIDE DEF Max
  <2> QED
    BY <2>1, <2>2, <2>3
<1>5. f[{}] = 0
  BY <1>3 DEF IsFold
<1>6. Iter(f)
  <2> HIDE DEF step
  <2>1. \A t \in SUBSET (1..n) : f[t] = IF t = {} THEN 0 ELSE f[t \ {Max(t)}] + Stands(s[Max(t)])
    BY <1>4, <1>5
  <2> QED
    BY <2>1
<1> DEFINE iter == CHOOSE g : Iter(g)
<1>7. Iter(iter)
  <2> HIDE DEF Iter
  <2> QED
    BY <1>6
<1>8. Accounted(s) = iter[1..n]
  BY <1>1 DEF Accounted, FoldLeft, MapThenFoldSet
<1> HIDE DEF iter
<1> DEFINE a == [k \in 0..n |-> iter[1..k]]
<1>9. iter[1..0] = 0
  <2>1. 1..0 = {} /\ {} \in SUBSET (1..n)
    OBVIOUS
  <2> QED
    BY <1>7, <2>1
<1>10. ASSUME NEW k \in 1..n PROVE iter[1..k] = iter[1..k - 1] + Stands(s[k]) /\ k - 1 \in 0..n
  <2>1. /\ 1..k \in SUBSET (1..n) /\ 1..k # {} /\ Max(1..k) = k
        /\ (1..k) \ {k} = 1..k - 1 /\ k - 1 \in 0..n
    BY <1>1, UpTo
  <2> QED
    BY <1>7, <2>1
<1>11. \A k \in 0..n : iter[1..k] \in Nat
  <2> DEFINE P(k) == k <= n => iter[1..k] \in Nat
             T == {k \in Nat : P(k)}
  <2>1. P(0)
    BY <1>9
  <2>2. ASSUME NEW k \in Nat, P(k) PROVE P(k + 1)
    <3> SUFFICES ASSUME k + 1 <= n PROVE iter[1..k + 1] \in Nat
      OBVIOUS
    <3>1. k + 1 \in 1..n /\ (k + 1) - 1 = k /\ k <= n
      BY <1>1
    <3>2. iter[1..k + 1] = iter[1..(k + 1) - 1] + Stands(s[k + 1])
      BY <1>10, <3>1
    <3>3. iter[1..k] \in Nat /\ Stands(s[k + 1]) \in Nat
      BY <1>1, <2>2, <3>1
    <3> QED
      BY <3>1, <3>2, <3>3
  <2> HIDE DEF P
  <2>3. 0 \in T /\ \A k \in Nat : k \in T => k + 1 \in T
    BY <2>1, <2>2
  <2>4. Nat \subseteq T
    <3> HIDE DEF T
    <3> QED
      BY <2>3, SetInduction
  <2> QED
    BY <1>1, <2>4 DEF P
<1>12. a \in [0..n -> Nat] /\ a[0] = 0 /\ a[n] = Accounted(s)
  BY <1>1, <1>8, <1>9, <1>11
<1>13. \A k \in 1..n : a[k] = a[k - 1] + Stands(s[k])
  BY <1>1, <1>10
<1> HIDE DEF a
<1> QED
  BY <1>12, <1>13 DEF n

\* Sums of the same numbers are the same, whatever they start from.
LEMMA SameSums ==
  ASSUME NEW n \in Nat, NEW m \in Nat, NEW d \in Nat, d + n <= m,
         NEW a \in [0..n -> Nat], NEW b \in [0..m -> Nat],
         NEW x \in [1..n -> Nat],
         \A k \in 1..n : a[k] = a[k - 1] + x[k],
         \A k \in 1..n : b[d + k] = b[d + (k - 1)] + x[k],
         a[0] = 0
  PROVE  \A k \in 0..n : b[d + k] = b[d] + a[k]
<1> DEFINE P(k) == k <= n => b[d + k] = b[d] + a[k]
           T == {k \in Nat : P(k)}
<1>1. P(0)
  <2>1. d \in 0..m /\ d + 0 = d
    OBVIOUS
  <2> QED
    BY <2>1
<1>2. ASSUME NEW k \in Nat, P(k) PROVE P(k + 1)
  <2> SUFFICES ASSUME k + 1 <= n PROVE b[d + (k + 1)] = b[d] + a[k + 1]
    OBVIOUS
  <2>1. k + 1 \in 1..n /\ (k + 1) - 1 = k /\ k <= n /\ k \in 0..n
    OBVIOUS
  <2>2. a[k + 1] = a[k] + x[k + 1] /\ b[d + (k + 1)] = b[d + k] + x[k + 1]
    BY <2>1
  <2>3. b[d + k] = b[d] + a[k]
    BY <1>2, <2>1
  <2>4. b[d] \in Nat /\ a[k] \in Nat /\ x[k + 1] \in Nat
    <3>1. d \in 0..m
      OBVIOUS
    <3>2. b[d] \in Nat
      BY <3>1
    <3>3. a[k] \in Nat /\ x[k + 1] \in Nat
      BY <2>1
    <3> QED
      BY <3>2, <3>3
  <2> QED
    BY <2>2, <2>3, <2>4
<1> HIDE DEF P
<1>3. 0 \in T /\ \A k \in Nat : k \in T => k + 1 \in T
  BY <1>1, <1>2
<1>4. Nat \subseteq T
  <2> HIDE DEF T
  <2> QED
    BY <1>3, SetInduction
<1> QED
  BY <1>4 DEF P

\* What two queues account for adds up.
LEMMA AccountedConcat ==
  ASSUME NEW s \in Seq(Events), NEW t \in Seq(Events)
  PROVE  /\ s \o t \in Seq(Events) /\ Accounted(s) \in Nat /\ Accounted(t) \in Nat
         /\ Accounted(s \o t) = Accounted(s) + Accounted(t)
<1> DEFINE n == Len(s)
           m == Len(t)
           u == s \o t
<1>0. /\ u \in Seq(Events) /\ Len(u) = n + m /\ n \in Nat /\ m \in Nat
      /\ \A k \in 1..n : u[k] = s[k]
      /\ \A k \in 1..m : u[n + k] = t[k]
      /\ \A k \in 1..n : s[k] \in Events
      /\ \A k \in 1..m : t[k] \in Events
  OBVIOUS
<1> HIDE DEF u
<1>1. PICK a \in [0..Len(s) -> Nat] :
        /\ a[0] = 0 /\ \A k \in 1..Len(s) : a[k] = a[k - 1] + Stands(s[k])
        /\ Accounted(s) = a[Len(s)]
  BY AccountedFold
<1>2. PICK b \in [0..Len(t) -> Nat] :
        /\ b[0] = 0 /\ \A k \in 1..Len(t) : b[k] = b[k - 1] + Stands(t[k])
        /\ Accounted(t) = b[Len(t)]
  BY AccountedFold
<1>3. PICK c \in [0..Len(u) -> Nat] :
        /\ c[0] = 0 /\ \A k \in 1..Len(u) : c[k] = c[k - 1] + Stands(u[k])
        /\ Accounted(u) = c[Len(u)]
  BY <1>0, AccountedFold
<1> DEFINE x == [k \in 1..n |-> Stands(s[k])]
           y == [k \in 1..m |-> Stands(t[k])]
<1>4. /\ x \in [1..n -> Nat] /\ y \in [1..m -> Nat]
      /\ \A k \in 1..n : x[k] = Stands(s[k])
      /\ \A k \in 1..m : y[k] = Stands(t[k])
  BY <1>0, StandsType
<1> HIDE DEF n, m, x, y
<1>5. a \in [0..n -> Nat] /\ b \in [0..m -> Nat] /\ c \in [0..n + m -> Nat]
  BY <1>0 DEF n, m
<1>6. /\ \A k \in 1..n : a[k] = a[k - 1] + x[k]
      /\ \A k \in 1..m : b[k] = b[k - 1] + y[k]
  BY <1>1, <1>2, <1>4 DEF n, m
<1>7. \A k \in 1..n : c[0 + k] = c[0 + (k - 1)] + x[k]
  <2> SUFFICES ASSUME NEW k \in 1..n PROVE c[0 + k] = c[0 + (k - 1)] + x[k]
    OBVIOUS
  <2>1. k \in 1..Len(u) /\ u[k] = s[k] /\ 0 + k = k /\ 0 + (k - 1) = k - 1
    BY <1>0
  <2> QED
    BY <1>3, <1>4, <2>1
<1>8. \A k \in 1..m : c[n + k] = c[n + (k - 1)] + y[k]
  <2> SUFFICES ASSUME NEW k \in 1..m PROVE c[n + k] = c[n + (k - 1)] + y[k]
    OBVIOUS
  <2>1. n + k \in 1..Len(u) /\ u[n + k] = t[k] /\ (n + k) - 1 = n + (k - 1)
    BY <1>0
  <2> QED
    BY <1>3, <1>4, <2>1
<1>9. 0 + n <= n + m /\ n + m <= n + m /\ 0 \in Nat /\ n + m \in Nat
  BY <1>0
<1>10. \A k \in 0..n : c[0 + k] = c[0] + a[k]
  BY <1>0, <1>1, <1>4, <1>5, <1>6, <1>7, <1>9, SameSums
<1>11. \A k \in 0..m : c[n + k] = c[n] + b[k]
  BY <1>0, <1>2, <1>4, <1>5, <1>6, <1>8, <1>9, SameSums
<1>12. n \in 0..n /\ m \in 0..m /\ 0 + n = n
  BY <1>0
<1>13. a[n] \in Nat /\ b[m] \in Nat
  BY <1>5, <1>12
<1>14. c[n + m] = a[n] + b[m]
  BY <1>3, <1>10, <1>11, <1>12, <1>13
<1> QED
  BY <1>0, <1>1, <1>2, <1>3, <1>13, <1>14 DEF n, m, u

\* What is known of one event.
LEMMA AccountedSmall ==
  ASSUME NEW e \in Events
  PROVE  Accounted(<<>>) = 0 /\ Accounted(<<e>>) = Stands(e)
<1>1. PICK a \in [0..Len(<<>>) -> Nat] : a[0] = 0 /\ Accounted(<<>>) = a[Len(<<>>)]
  <2>1. <<>> \in Seq(Events)
    OBVIOUS
  <2> QED
    BY <2>1, AccountedFold
<1>2. Accounted(<<>>) = 0
  BY <1>1
<1>3. PICK b \in [0..Len(<<e>>) -> Nat] :
        /\ b[0] = 0 /\ \A k \in 1..Len(<<e>>) : b[k] = b[k - 1] + Stands(<<e>>[k])
        /\ Accounted(<<e>>) = b[Len(<<e>>)]
  <2>1. <<e>> \in Seq(Events)
    OBVIOUS
  <2> QED
    BY <2>1, AccountedFold
<1>4. Len(<<e>>) = 1 /\ 1 \in 1..1 /\ 1 - 1 = 0 /\ <<e>>[1] = e
  OBVIOUS
<1>5. Stands(e) \in Nat
  BY StandsType
<1>6. b[1] = b[0] + Stands(e)
  BY <1>3, <1>4
<1> QED
  BY <1>2, <1>3, <1>4, <1>5, <1>6

LEMMA AccountedAppend ==
  ASSUME NEW s \in Seq(Events), NEW e \in Events
  PROVE  /\ Append(s, e) \in Seq(Events) /\ Stands(e) \in Nat /\ Accounted(s) \in Nat
         /\ Accounted(Append(s, e)) = Accounted(s) + Stands(e)
<1>1. <<e>> \in Seq(Events) /\ Append(s, e) = s \o <<e>> /\ Append(s, e) \in Seq(Events)
  OBVIOUS
<1> QED
  BY <1>1, AccountedConcat, AccountedSmall, StandsType

LEMMA AccountedTail ==
  ASSUME NEW s \in Seq(Events), s # <<>>
  PROVE  /\ Tail(s) \in Seq(Events) /\ Head(s) \in Events /\ Stands(Head(s)) \in Nat
         /\ Accounted(Tail(s)) \in Nat /\ Accounted(s) = Stands(Head(s)) + Accounted(Tail(s))
<1>1. /\ <<Head(s)>> \in Seq(Events) /\ Tail(s) \in Seq(Events) /\ Head(s) \in Events
      /\ s = <<Head(s)>> \o Tail(s)
  OBVIOUS
<1> QED
  BY <1>1, AccountedConcat, AccountedSmall, StandsType

\* ---- what is before and after a place of a sequence
After(s, i) == SubSeq(s, i + 1, Len(s))
Upto(s, i) == SubSeq(s, 1, i)
LEMMA AfterType ==
  ASSUME NEW s \in Seq(Events), NEW i \in 1..Len(s)
  PROVE  After(s, i) \in Seq(Events) /\ Upto(s, i) \in Seq(Events) /\ Upto(s, Len(s)) = s
BY DEF After, Upto
LEMMA AfterAppend ==
  ASSUME NEW s \in Seq(Events), NEW e \in Events
  PROVE  /\ Append(s, e) \in Seq(Events) /\ Len(Append(s, e)) = Len(s) + 1
         /\ \A i \in 1..Len(s) : /\ Append(s, e)[i] = s[i]
                                 /\ After(Append(s, e), i) = Append(After(s, i), e)
                                 /\ Upto(Append(s, e), i) = Upto(s, i)
         /\ After(Append(s, e), Len(s) + 1) = <<>>
         /\ Append(s, e)[Len(s) + 1] = e
         /\ Upto(Append(s, e), Len(s) + 1) = Append(s, e)
<1>1. Append(s, e) \in Seq(Events) /\ Len(Append(s, e)) = Len(s) + 1 /\ Append(s, e)[Len(s) + 1] = e
  OBVIOUS
<1>2. ASSUME NEW i \in 1..Len(s)
      PROVE  Append(s, e)[i] = s[i] /\ Upto(Append(s, e), i) = Upto(s, i)
  BY DEF Upto
<1>3. ASSUME NEW i \in 1..Len(s)
      PROVE  After(Append(s, e), i) = Append(After(s, i), e)
  <2> DEFINE u == SubSeq(Append(s, e), i + 1, Len(s) + 1)
             v == Append(SubSeq(s, i + 1, Len(s)), e)
  <2>1. u \in Seq(Events) /\ v \in Seq(Events) /\ Len(u) = Len(s) - i + 1 /\ Len(v) = Len(s) - i + 1
    OBVIOUS
  <2>2. ASSUME NEW k \in 1..Len(s) - i + 1 PROVE u[k] = v[k]
    <3>1. CASE k = Len(s) - i + 1
      BY <3>1
    <3>2. CASE k # Len(s) - i + 1
      BY <3>2
    <3> QED
      BY <3>1, <3>2
  <2>3. u = v
    <3> HIDE DEF u, v
    <3> QED
      BY <2>1, <2>2
  <2> QED
    BY <1>1, <2>3 DEF After
<1>4. After(Append(s, e), Len(s) + 1) = <<>>
  BY <1>1 DEF After
<1>5. Upto(Append(s, e), Len(s) + 1) = Append(s, e)
  BY <1>1 DEF Upto
<1> QED
  BY <1>1, <1>2, <1>3, <1>4, <1>5
LEMMA AfterTail ==
  ASSUME NEW s \in Seq(Events), s # <<>>
  PROVE  /\ Tail(s) \in Seq(Events) /\ Head(s) \in Events /\ Len(Tail(s)) = Len(s) - 1 /\ Head(s) = s[1]
         /\ 1 \in 1..Len(s) /\ After(s, 1) = Tail(s)
         /\ \A i \in 1..Len(Tail(s)) :
              /\ i + 1 \in 1..Len(s) /\ Tail(s)[i] = s[i + 1]
              /\ After(Tail(s), i) = After(s, i + 1)
              /\ Upto(s, i + 1) = <<Head(s)>> \o Upto(Tail(s), i)
BY DEF After, Upto

\* ---- the counts of a connection
WireOk(w, notes) ==
  \A i \in 1..Len(w) :
    /\ w[i].kind \in {"note", "ask", "reply"} /\ (w[i].kind # "note" => w[i].lossless)
    /\ w[i].kind = "note" => w[i].n + Accounted(After(w, i)) = notes
    /\ w[i].kind = "ask" => w[i].n >= AskBase
ReadyOk(r, told) ==
  \A i \in 1..Len(r) :
    r[i].kind = "note" /\ r[i].lossless => told + Accounted(Upto(r, i)) >= r[i].n

LEMMA WireTail ==
  ASSUME NEW w \in Seq(Events), NEW notes \in Nat, WireOk(w, notes), w # <<>>
  PROVE  /\ WireOk(Tail(w), notes)
         /\ Head(w).kind \in {"note", "ask", "reply"} /\ (Head(w).kind # "note" => Head(w).lossless)
         /\ Head(w).kind = "note" => Head(w).n + Accounted(Tail(w)) = notes
         /\ Head(w).kind = "ask" => Head(w).n >= AskBase
<1>1. /\ Head(w) = w[1] /\ 1 \in 1..Len(w) /\ After(w, 1) = Tail(w)
      /\ \A i \in 1..Len(Tail(w)) :
           i + 1 \in 1..Len(w) /\ Tail(w)[i] = w[i + 1] /\ After(Tail(w), i) = After(w, i + 1)
  BY AfterTail
<1> QED
  BY <1>1 DEF WireOk

LEMMA WireAppend ==
  ASSUME NEW w \in Seq(Events), NEW notes \in Nat, NEW more \in Nat, NEW e \in Events,
         WireOk(w, notes), Stands(e) = more,
         e.kind \in {"note", "ask", "reply"}, e.kind # "note" => e.lossless,
         e.kind = "note" => e.n = notes + more, e.kind = "ask" => e.n >= AskBase
  PROVE  WireOk(Append(w, e), notes + more)
<1> DEFINE v == Append(w, e)
<1>1. /\ v \in Seq(Events) /\ Len(v) = Len(w) + 1 /\ v[Len(w) + 1] = e
      /\ After(v, Len(w) + 1) = <<>>
      /\ \A i \in 1..Len(w) : v[i] = w[i] /\ After(v, i) = Append(After(w, i), e)
  BY AfterAppend
<1> HIDE DEF v
<1>2. ASSUME NEW i \in 1..Len(w)
      PROVE  /\ Accounted(After(v, i)) = Accounted(After(w, i)) + more /\ Accounted(After(w, i)) \in Nat
             /\ w[i] \in Events
  <2>1. After(w, i) \in Seq(Events) /\ w[i] \in Events
    BY AfterType
  <2>2. /\ Accounted(Append(After(w, i), e)) = Accounted(After(w, i)) + Stands(e)
        /\ Accounted(After(w, i)) \in Nat
    BY <2>1, AccountedAppend
  <2> QED
    BY <1>1, <2>1, <2>2
<1>3. Accounted(After(v, Len(w) + 1)) = 0
  BY <1>1, AccountedSmall
<1> SUFFICES ASSUME NEW i \in 1..Len(v)
    PROVE  /\ v[i].kind \in {"note", "ask", "reply"} /\ (v[i].kind # "note" => v[i].lossless)
           /\ v[i].kind = "note" => v[i].n + Accounted(After(v, i)) = notes + more
           /\ v[i].kind = "ask" => v[i].n >= AskBase
  BY DEF WireOk, v
<1>4. CASE i \in 1..Len(w)
  <2>1. v[i] = w[i] /\ w[i].n \in Nat
    BY <1>1, <1>2, <1>4 DEF Events
  <2>2. /\ w[i].kind \in {"note", "ask", "reply"} /\ (w[i].kind # "note" => w[i].lossless)
        /\ w[i].kind = "note" => w[i].n + Accounted(After(w, i)) = notes
        /\ w[i].kind = "ask" => w[i].n >= AskBase
    BY <1>4 DEF WireOk
  <2>3. /\ Accounted(After(v, i)) = Accounted(After(w, i)) + more
        /\ Accounted(After(w, i)) \in Nat
    BY <1>2, <1>4
  <2>4. w[i].kind = "note" => w[i].n + Accounted(After(v, i)) = notes + more
    BY <2>1, <2>2, <2>3, SMTT(30)
  <2> QED
    BY <2>1, <2>2, <2>4
<1>5. CASE i = Len(w) + 1
  BY <1>1, <1>3, <1>5 DEF Events
<1> QED
  BY <1>1, <1>4, <1>5

LEMMA ReadyTail ==
  ASSUME NEW r \in Seq(Events), NEW told \in Nat, ReadyOk(r, told), r # <<>>
  PROVE  /\ ReadyOk(Tail(r), told + Stands(Head(r)))
         /\ Head(r).kind = "note" /\ Head(r).lossless => told + 1 >= Head(r).n
<1>1. /\ Head(r) = r[1] /\ 1 \in 1..Len(r) /\ Head(r) \in Events /\ Tail(r) \in Seq(Events)
      /\ \A i \in 1..Len(Tail(r)) :
           i + 1 \in 1..Len(r) /\ Tail(r)[i] = r[i + 1] /\ Upto(r, i + 1) = <<Head(r)>> \o Upto(Tail(r), i)
  BY AfterTail
<1>2. Stands(Head(r)) \in Nat /\ <<Head(r)>> \in Seq(Events) /\ Accounted(<<Head(r)>>) = Stands(Head(r))
  BY <1>1, StandsType, AccountedSmall
<1>3. ASSUME NEW i \in 1..Len(Tail(r))
      PROVE  /\ Accounted(Upto(r, i + 1)) = Stands(Head(r)) + Accounted(Upto(Tail(r), i))
             /\ Accounted(Upto(Tail(r), i)) \in Nat /\ Tail(r)[i] \in Events
  <2>1. Upto(Tail(r), i) \in Seq(Events) /\ Tail(r)[i] \in Events
    <3> DEFINE q == Tail(r)
    <3>1. q \in Seq(Events) /\ i \in 1..Len(q)
      BY <1>1
    <3> HIDE DEF q
    <3>2. Upto(q, i) \in Seq(Events) /\ q[i] \in Events
      BY <3>1, AfterType
    <3> QED
      BY <3>2 DEF q
  <2> QED
    BY <1>1, <1>2, <2>1, AccountedConcat
<1>4. ReadyOk(Tail(r), told + Stands(Head(r)))
  <2> SUFFICES ASSUME NEW i \in 1..Len(Tail(r)), Tail(r)[i].kind = "note", Tail(r)[i].lossless
               PROVE  (told + Stands(Head(r))) + Accounted(Upto(Tail(r), i)) >= Tail(r)[i].n
    BY DEF ReadyOk
  <2>1. told + Accounted(Upto(r, i + 1)) >= r[i + 1].n
    BY <1>1 DEF ReadyOk
  <2>2. Tail(r)[i].n \in Nat
    BY <1>3 DEF Events
  <2> QED
    BY <1>1, <1>2, <1>3, <2>1, <2>2
<1>5. Upto(r, 1) = <<Head(r)>>
  <2> DEFINE u == SubSeq(r, 1, 1)
  <2>1. u \in Seq(Events) /\ Len(u) = 1 /\ u[1] = Head(r)
    BY <1>1
  <2> HIDE DEF u
  <2>2. u = <<Head(r)>>
    BY <1>1, <2>1
  <2> QED
    BY <2>2 DEF Upto, u
<1>6. Head(r).kind = "note" => Stands(Head(r)) = 1
  BY DEF Stands
<1> QED
  BY <1>1, <1>2, <1>4, <1>5, <1>6 DEF ReadyOk

LEMMA ReadyAppend ==
  ASSUME NEW r \in Seq(Events), NEW told \in Nat, ReadyOk(r, told), NEW e \in Events,
         e.kind = "note" /\ e.lossless => (told + Accounted(r)) + 1 >= e.n
  PROVE  ReadyOk(Append(r, e), told)
<1> DEFINE v == Append(r, e)
<1>1. /\ v \in Seq(Events) /\ Len(v) = Len(r) + 1 /\ v[Len(r) + 1] = e
      /\ Upto(v, Len(r) + 1) = v
      /\ \A i \in 1..Len(r) : v[i] = r[i] /\ Upto(v, i) = Upto(r, i)
  BY AfterAppend
<1>2. Accounted(v) = Accounted(r) + Stands(e) /\ Accounted(r) \in Nat /\ e.n \in Nat
  BY AccountedAppend DEF Events
<1> HIDE DEF v
<1>3. e.kind = "note" => Stands(e) = 1
  BY DEF Stands
<1>4. ASSUME NEW i \in 1..Len(v), v[i].kind = "note", v[i].lossless
      PROVE  told + Accounted(Upto(v, i)) >= v[i].n
  <2>1. CASE i \in 1..Len(r)
    BY <1>1, <1>4, <2>1 DEF ReadyOk
  <2>2. CASE i = Len(r) + 1
    BY <1>1, <1>2, <1>3, <1>4, <2>2
  <2> QED
    BY <1>1, <2>1, <2>2
<1> QED
  BY <1>4 DEF ReadyOk, v

\* Queues with the same events at the same places are the same.
LEMMA SameEvents ==
  ASSUME NEW u \in Seq(Events), NEW v \in Seq(Events), Len(u) = Len(v),
         \A k \in 1..Len(u) : u[k] = v[k]
  PROVE  u = v
<1>1. Len(u) \in Nat /\ u \in [1..Len(u) -> Events] /\ v \in [1..Len(u) -> Events]
  OBVIOUS
<1> DEFINE n == Len(u)
<1>2. u \in [1..n -> Events] /\ v \in [1..n -> Events] /\ \A k \in 1..n : u[k] = v[k]
  BY <1>1
<1> HIDE DEF n
<1>3. u = [k \in 1..n |-> u[k]] /\ v = [k \in 1..n |-> v[k]]
  BY <1>2
<1>4. [k \in 1..n |-> u[k]] = [k \in 1..n |-> v[k]]
  BY <1>2
<1> QED
  BY <1>3, <1>4, Zenon

LEMMA ConcatMoves ==
  ASSUME NEW s \in Seq(Events), NEW t \in Seq(Events)
  PROVE  /\ s # <<>> => /\ s \o t # <<>> /\ Head(s \o t) = Head(s)
                         /\ Tail(s \o t) = Tail(s) \o t
         /\ t # <<>> => Append(s, Head(t)) \o Tail(t) = s \o t
<1>1. ASSUME s # <<>>
      PROVE  s \o t # <<>> /\ Head(s \o t) = Head(s) /\ Tail(s \o t) = Tail(s) \o t
  <2> DEFINE u == Tail(s \o t)
             v == Tail(s) \o t
  <2>1. s \o t # <<>> /\ Head(s \o t) = Head(s)
    BY <1>1
  <2>2. u \in Seq(Events) /\ v \in Seq(Events) /\ Len(u) = Len(v) /\ Len(u) = Len(s) + Len(t) - 1
    BY <1>1
  <2>3. ASSUME NEW k \in 1..Len(u) PROVE u[k] = v[k]
    <3>1. k + 1 \in 1..Len(s \o t) /\ u[k] = (s \o t)[k + 1]
      BY <1>1, <2>2
    <3>2. CASE k < Len(s)
      <4>1. v[k] = Tail(s)[k] /\ Tail(s)[k] = s[k + 1] /\ (s \o t)[k + 1] = s[k + 1]
        BY <1>1, <2>2, <3>2
      <4> QED
        BY <3>1, <4>1
    <3>3. CASE ~ (k < Len(s))
      BY <1>1, <2>2, <3>1, <3>3
    <3> QED
      BY <3>2, <3>3
  <2>4. u = v
    <3> HIDE DEF u, v
    <3> QED
      BY <2>2, <2>3, SameEvents
  <2> QED
    BY <2>1, <2>4
<1>2. ASSUME t # <<>>
      PROVE  Append(s, Head(t)) \o Tail(t) = s \o t
  <2> DEFINE u == Append(s, Head(t)) \o Tail(t)
             v == s \o t
  <2>1. u \in Seq(Events) /\ v \in Seq(Events) /\ Len(u) = Len(v) /\ Len(u) = Len(s) + Len(t)
    BY <1>2
  <2>2. ASSUME NEW k \in 1..Len(u) PROVE u[k] = v[k]
    BY <1>2, <2>1
  <2>3. u = v
    <3> HIDE DEF u, v
    <3> QED
      BY <2>1, <2>2, SameEvents
  <2> QED
    BY <2>3
<1> QED
  BY <1>1, <1>2

Queues(c) ==
  /\ c.worker \in {"on", "ending", "gone"} /\ c.wire \in Seq(Events) /\ c.queue \in Seq(Events)
  /\ c.held \in Seq(Events) /\ c.skipped \in Nat /\ c.notes \in Nat /\ c.told \in Nat
  /\ c.last \in [n : Nat, lossless : BOOLEAN]
Counts(c) ==
  /\ WireOk(c.wire, c.notes) /\ ReadyOk(c.queue \o c.held, c.told)
  /\ c.last.lossless => c.told >= c.last.n
  /\ c.worker = "on" =>
       c.told + Accounted(c.queue \o c.held) + Accounted(c.wire) + c.skipped = c.notes
SameCounts(c, d) ==
  /\ d.queue = c.queue /\ d.held = c.held /\ d.told = c.told /\ d.last = c.last
  /\ d.wire = c.wire /\ d.notes = c.notes /\ d.skipped = c.skipped
  /\ d.worker = "on" => c.worker = "on"

\* A step that moves nothing between the queues keeps the count.
LEMMA SameCountsStep ==
  ASSUME NEW c, NEW d, Counts(c), SameCounts(c, d)
  PROVE  Counts(d)
BY DEF Counts, SameCounts

LEMMA NewCounts ==
  ASSUME NEW c, c.wire = <<>>, c.queue = <<>>, c.held = <<>>, c.told = 0, c.notes = 0,
         c.skipped = 0, c.last = Nothing
  PROVE  Counts(c)
<1>1. <<>> \o <<>> = <<>> /\ Len(<<>>) = 0
  OBVIOUS
<1>2. Accounted(<<>>) = 0
  <2>1. \E e : e \in Events
    <3>1. [kind |-> "note", n |-> 0, lossless |-> TRUE] \in Events
      BY DEF Events, Kinds
    <3> QED
      BY <3>1
  <2> QED
    BY <2>1, AccountedSmall
<1> QED
  BY <1>1, <1>2 DEF Counts, WireOk, ReadyOk, Nothing

LEMMA EnterCounts ==
  ASSUME NEW c, NEW d, Queues(c), Counts(c), c.held # <<>>,
         d.queue = Append(c.queue, Head(c.held)), d.held = Tail(c.held),
         d.wire = c.wire, d.told = c.told, d.notes = c.notes, d.skipped = c.skipped,
         d.last = c.last, d.worker = "on" => c.worker = "on"
  PROVE  Counts(d)
<1>1. c.queue \in Seq(Events) /\ c.held \in Seq(Events)
  BY DEF Queues
<1>2. Append(c.queue, Head(c.held)) \o Tail(c.held) = c.queue \o c.held
  BY <1>1, ConcatMoves
<1> QED
  BY <1>2 DEF Counts

LEMMA EndCounts ==
  ASSUME NEW c, NEW d, Queues(c), Counts(c), c.held = <<>>,
         d.queue = c.queue, d.held \in {<<>>, <<Disconnected>>}, d.wire = c.wire, d.told = c.told,
         d.notes = c.notes, d.skipped = c.skipped, d.last = c.last, d.worker # "on"
  PROVE  Counts(d)
<1>1. c.queue \in Seq(Events) /\ c.told \in Nat /\ c.queue \o <<>> = c.queue /\ Disconnected \in Events
  BY DEF Queues, Disconnected, Events, Kinds
<1>2. ReadyOk(c.queue, c.told)
  BY <1>1 DEF Counts
<1>3. ReadyOk(Append(c.queue, Disconnected), c.told)
  <2>1. Disconnected.kind # "note"
    BY DEF Disconnected
  <2> QED
    BY <1>1, <1>2, <2>1, ReadyAppend
<1>4. c.queue \o <<Disconnected>> = Append(c.queue, Disconnected)
  BY <1>1
<1>5. d.queue \o d.held \in {c.queue, Append(c.queue, Disconnected)}
  BY <1>1, <1>4
<1> QED
  BY <1>2, <1>3, <1>5 DEF Counts

LEMMA PumpCounts ==
  ASSUME NEW c, NEW d, Queues(c), Counts(c), c.queue # <<>>,
         d.queue = Tail(c.queue), d.held = c.held, d.wire = c.wire,
         d.told = c.told + Stands(Head(c.queue)),
         d.notes = c.notes, d.skipped = c.skipped, d.worker = c.worker,
         d.last = IF Head(c.queue).kind = "note"
                  THEN [n |-> Head(c.queue).n, lossless |-> Head(c.queue).lossless] ELSE c.last
  PROVE  Counts(d)
<1> DEFINE r == c.queue \o c.held
<1>1. c.queue \in Seq(Events) /\ c.held \in Seq(Events) /\ c.told \in Nat /\ c.wire \in Seq(Events)
      /\ c.notes \in Nat /\ c.skipped \in Nat /\ c.last.n \in Nat
  BY DEF Queues
<1>2. /\ r \in Seq(Events) /\ r # <<>> /\ Head(r) = Head(c.queue) /\ Tail(r) = Tail(c.queue) \o c.held
      /\ Head(r) \in Events
  <2>1. r \in Seq(Events) /\ Head(c.queue) \in Events
    BY <1>1
  <2> QED
    BY <1>1, <2>1, ConcatMoves
<1>3. /\ Stands(Head(r)) \in Nat /\ Accounted(Tail(r)) \in Nat /\ Accounted(c.wire) \in Nat
      /\ Accounted(r) = Stands(Head(r)) + Accounted(Tail(r))
  <2> HIDE DEF r
  <2>1. <<>> \in Seq(Events)
    OBVIOUS
  <2> QED
    BY <1>1, <1>2, <2>1, AccountedTail, AccountedConcat
<1>4. ReadyOk(r, c.told)
  BY DEF Counts
<1>5. /\ ReadyOk(Tail(r), c.told + Stands(Head(r)))
      /\ Head(r).kind = "note" /\ Head(r).lossless => c.told + 1 >= Head(r).n
  <2> HIDE DEF r
  <2> QED
    BY <1>1, <1>2, <1>4, ReadyTail
<1>6. Head(r).kind = "note" => Stands(Head(r)) = 1
  BY DEF Stands
<1> HIDE DEF r
<1>7. d.last.lossless => d.told >= d.last.n
  <2>1. CASE Head(c.queue).kind = "note"
    BY <1>1, <1>2, <1>5, <1>6, <2>1
  <2>2. CASE Head(c.queue).kind # "note"
    <3>1. c.last.lossless => c.told >= c.last.n
      BY DEF Counts
    <3> QED
      BY <1>1, <1>2, <1>3, <2>2, <3>1
  <2> QED
    BY <2>1, <2>2
<1>8. d.queue \o d.held = Tail(r) /\ d.told = c.told + Stands(Head(r)) /\ WireOk(d.wire, d.notes)
  BY <1>2 DEF Counts
<1>9. c.worker = "on" => c.told + Accounted(r) + Accounted(c.wire) + c.skipped = c.notes
  BY DEF Counts, r
<1>10. d.worker = "on" => d.told + Accounted(Tail(r)) + Accounted(d.wire) + d.skipped = d.notes
  BY <1>1, <1>3, <1>8, <1>9
<1> QED
  BY <1>5, <1>7, <1>8, <1>10 DEF Counts

LEMMA ArriveCounts ==
  ASSUME NEW c, NEW d, Queues(c), Counts(c), NEW e \in Events,
         d.queue = c.queue, d.held = c.held, d.wire = Append(c.wire, e), d.told = c.told,
         d.notes = c.notes + Stands(e), d.skipped = c.skipped, d.worker = c.worker, d.last = c.last,
         e.kind \in {"note", "ask", "reply"}, e.kind # "note" => e.lossless,
         e.kind = "note" => e.n = d.notes, e.kind = "ask" => e.n >= AskBase
  PROVE  Counts(d)
<1>1. c.queue \in Seq(Events) /\ c.held \in Seq(Events) /\ c.told \in Nat /\ c.wire \in Seq(Events)
      /\ c.notes \in Nat /\ c.skipped \in Nat /\ Stands(e) \in Nat
  BY StandsType DEF Queues
<1>2. Accounted(Append(c.wire, e)) = Accounted(c.wire) + Stands(e) /\ Accounted(c.wire) \in Nat
  BY <1>1, AccountedAppend
<1>3. Accounted(c.queue \o c.held) \in Nat
  <2>1. c.queue \o c.held \in Seq(Events) /\ <<>> \in Seq(Events)
    BY <1>1
  <2> QED
    BY <2>1, AccountedConcat
<1>4. WireOk(Append(c.wire, e), c.notes + Stands(e))
  <2>1. WireOk(c.wire, c.notes)
    BY DEF Counts
  <2>2. e.kind = "note" => e.n = c.notes + Stands(e)
    OBVIOUS
  <2> DEFINE more == Stands(e)
  <2>3. more \in Nat /\ Stands(e) = more /\ (e.kind = "note" => e.n = c.notes + more)
    BY <1>1, <2>2
  <2> HIDE DEF more
  <2>4. WireOk(Append(c.wire, e), c.notes + more)
    BY <1>1, <2>1, <2>3, WireAppend
  <2> QED
    BY <2>4 DEF more
<1> QED
  BY <1>1, <1>2, <1>3, <1>4 DEF Counts

\* A line leaves the wire: it is nobody's, it waits in held, it enters the queue or it is skipped.
LEMMA RouteCounts ==
  ASSUME NEW c, NEW d, Queues(c), Counts(c), c.worker = "on", c.held = <<>>, c.wire # <<>>,
         d.wire = Tail(c.wire), d.told = c.told, d.notes = c.notes, d.worker = c.worker, d.last = c.last,
         \/ /\ Head(c.wire).kind \in {"reply", "ask"}
            /\ d.queue = c.queue /\ d.held = c.held /\ d.skipped = c.skipped
         \/ /\ Head(c.wire).lossless
            /\ d.queue = c.queue /\ d.held = Announced(c.skipped, Head(c.wire)) /\ d.skipped = 0
         \/ /\ ~Head(c.wire).lossless
            /\ d.queue = Append(c.queue, Head(c.wire)) /\ d.held = c.held /\ d.skipped = c.skipped
         \/ /\ ~Head(c.wire).lossless
            /\ d.queue = c.queue /\ d.held = c.held /\ d.skipped = c.skipped + 1
  PROVE  Counts(d)
<1> DEFINE q == c.queue
           w == c.wire
           m == Head(c.wire)
           k == c.skipped
<1>1. /\ q \in Seq(Events) /\ w \in Seq(Events) /\ w # <<>> /\ k \in Nat /\ c.told \in Nat
      /\ c.notes \in Nat /\ q \o <<>> = q /\ c.last.n \in Nat
  BY DEF Queues
<1>2. /\ WireOk(w, c.notes) /\ ReadyOk(q, c.told) /\ (c.last.lossless => c.told >= c.last.n)
      /\ c.told + Accounted(q) + Accounted(w) + k = c.notes
  BY <1>1 DEF Counts
<1>3. /\ m = Head(w) /\ d.wire = Tail(w)
      /\ d.told = c.told /\ d.notes = c.notes /\ d.last = c.last /\ c.held = <<>>
  OBVIOUS
<1>4. \/ m.kind \in {"reply", "ask"} /\ d.queue = q /\ d.held = <<>> /\ d.skipped = k
      \/ m.lossless /\ d.queue = q /\ d.held = Announced(k, m) /\ d.skipped = 0
      \/ ~m.lossless /\ d.queue = Append(q, m) /\ d.held = <<>> /\ d.skipped = k
      \/ ~m.lossless /\ d.queue = q /\ d.held = <<>> /\ d.skipped = k + 1
  OBVIOUS
<1> HIDE DEF q, w, m, k
<1>5. /\ Tail(w) \in Seq(Events) /\ m \in Events /\ Stands(m) \in Nat /\ Accounted(Tail(w)) \in Nat
      /\ Accounted(w) = Stands(m) + Accounted(Tail(w)) /\ Accounted(q) \in Nat
  BY <1>1, <1>3, AccountedTail, AccountedConcat
<1>6. /\ WireOk(Tail(w), c.notes) /\ m.kind \in {"note", "ask", "reply"} /\ (m.kind # "note" => m.lossless)
      /\ m.kind = "note" => m.n + Accounted(Tail(w)) = c.notes
  BY <1>1, <1>2, <1>3, WireTail
<1>7. (m.kind = "note" => Stands(m) = 1) /\ (m.kind \in {"ask", "reply"} => Stands(m) = 0) /\ m.n \in Nat
  BY <1>5 DEF Stands, Events
<1>8. SUFFICES /\ ReadyOk(d.queue \o d.held, d.told)
               /\ d.told + Accounted(d.queue \o d.held) + Accounted(d.wire) + d.skipped = d.notes
  BY <1>2, <1>3, <1>6 DEF Counts
<1>s. ASSUME NEW r \in Seq(Events), NEW more \in Nat, d.queue \o d.held = r, Accounted(r) = Accounted(q) + more,
             more + d.skipped = k + Stands(m), d.skipped \in Nat, ReadyOk(r, c.told)
      PROVE  /\ ReadyOk(d.queue \o d.held, d.told)
             /\ d.told + Accounted(d.queue \o d.held) + Accounted(d.wire) + d.skipped = d.notes
  <2>1. /\ d.told = c.told /\ Accounted(d.queue \o d.held) = Accounted(q) + more
        /\ Accounted(d.wire) = Accounted(Tail(w)) /\ d.notes = c.notes
    BY <1>3, <1>s
  <2>2. c.told + (Accounted(q) + more) + Accounted(Tail(w)) + d.skipped = c.notes
    <3> DEFINE aq == Accounted(q)
               at == Accounted(Tail(w))
               st == Stands(m)
               ds == d.skipped
               ct == c.told
               cn == c.notes
    <3>1. /\ aq \in Nat /\ at \in Nat /\ st \in Nat /\ ds \in Nat /\ k \in Nat
          /\ ct \in Nat /\ cn \in Nat /\ more \in Nat
      BY <1>1, <1>5, <1>s
    <3>2. ct + aq + (st + at) + k = cn /\ more + ds = k + st
      BY <1>2, <1>5, <1>s
    <3> HIDE DEF aq, at, st, ds, ct, cn
    <3>3. ct + (aq + more) + at + ds = cn
      BY <3>1, <3>2
    <3> QED
      BY <3>3 DEF aq, at, ds, ct, cn
  <2> QED
    BY <1>s, <2>1, <2>2
<1>9. ASSUME m.kind \in {"reply", "ask"}, d.queue = q, d.held = <<>>, d.skipped = k
      PROVE  /\ ReadyOk(d.queue \o d.held, d.told)
             /\ d.told + Accounted(d.queue \o d.held) + Accounted(d.wire) + d.skipped = d.notes
  <2>1. d.queue \o d.held = q /\ Accounted(q) = Accounted(q) + 0 /\ 0 \in Nat /\ 0 + d.skipped = k + Stands(m)
        /\ d.skipped \in Nat
    BY <1>1, <1>5, <1>7, <1>9
  <2> QED
    BY <1>1, <1>2, <1>s, <2>1
<1>10. ASSUME ~m.lossless, d.queue = q, d.held = <<>>, d.skipped = k + 1
       PROVE  /\ ReadyOk(d.queue \o d.held, d.told)
              /\ d.told + Accounted(d.queue \o d.held) + Accounted(d.wire) + d.skipped = d.notes
  <2>1. d.queue \o d.held = q /\ Accounted(q) = Accounted(q) + 0 /\ 0 \in Nat /\ 0 + d.skipped = k + Stands(m)
        /\ d.skipped \in Nat
    BY <1>1, <1>5, <1>6, <1>7, <1>10
  <2> QED
    BY <1>1, <1>2, <1>s, <2>1
<1>11. ASSUME ~m.lossless, d.queue = Append(q, m), d.held = <<>>, d.skipped = k
       PROVE  /\ ReadyOk(d.queue \o d.held, d.told)
              /\ d.told + Accounted(d.queue \o d.held) + Accounted(d.wire) + d.skipped = d.notes
  <2>1. ReadyOk(Append(q, m), c.told)
    BY <1>1, <1>2, <1>5, <1>11, ReadyAppend
  <2>2. Append(q, m) \in Seq(Events) /\ Accounted(Append(q, m)) = Accounted(q) + Stands(m)
    BY <1>1, <1>5, AccountedAppend
  <2>3. d.queue \o d.held = Append(q, m)
    BY <1>1, <1>11, <2>2
  <2>4. Stands(m) + d.skipped = k + Stands(m) /\ d.skipped \in Nat
    BY <1>1, <1>5, <1>11
  <2> QED
    BY <1>5, <1>s, <2>1, <2>2, <2>3, <2>4
<1>12. ASSUME m.lossless, d.queue = q, d.held = Announced(k, m), d.skipped = 0
       PROVE  /\ ReadyOk(d.queue \o d.held, d.told)
              /\ d.told + Accounted(d.queue \o d.held) + Accounted(d.wire) + d.skipped = d.notes
  <2>1. CASE k > 0
    <3> DEFINE g == Lagged(k)
               p == Append(q, g)
    <3>1. g \in Events /\ g.kind # "note" /\ Stands(g) = k
      BY <1>1 DEF Lagged, Events, Kinds, Stands
    <3>2. d.queue \o d.held = Append(p, m)
      BY <1>1, <1>5, <1>12, <2>1, <3>1 DEF Announced
    <3> HIDE DEF g
    <3>3. p \in Seq(Events) /\ Accounted(p) = Accounted(q) + k
      BY <1>1, <3>1, AccountedAppend
    <3>4. ReadyOk(p, c.told)
      BY <1>1, <1>2, <3>1, ReadyAppend
    <3> HIDE DEF p
    <3>5. Accounted(Append(p, m)) = Accounted(p) + Stands(m)
      BY <1>5, <3>3, AccountedAppend
    <3>6. m.kind = "note" => (c.told + Accounted(p)) + 1 >= m.n
      BY <1>1, <1>2, <1>5, <1>6, <1>7, <3>3
    <3>7. ReadyOk(Append(p, m), c.told)
      BY <1>1, <1>5, <3>3, <3>4, <3>6, ReadyAppend
    <3>8. /\ Append(p, m) \in Seq(Events) /\ k + Stands(m) \in Nat
          /\ Accounted(Append(p, m)) = Accounted(q) + (k + Stands(m))
          /\ (k + Stands(m)) + d.skipped = k + Stands(m) /\ d.skipped \in Nat
      BY <1>1, <1>5, <1>12, <3>3, <3>5
    <3> QED
      BY <1>s, <3>2, <3>7, <3>8
  <2>2. CASE ~ (k > 0)
    <3>1. d.queue \o d.held = Append(q, m)
      BY <1>1, <1>5, <1>12, <2>2 DEF Announced
    <3>2. Accounted(Append(q, m)) = Accounted(q) + Stands(m)
      BY <1>1, <1>5, AccountedAppend
    <3>3. m.kind = "note" => (c.told + Accounted(q)) + 1 >= m.n
      BY <1>1, <1>2, <1>5, <1>6, <1>7, <2>2
    <3>4. ReadyOk(Append(q, m), c.told)
      BY <1>1, <1>2, <1>5, <3>3, ReadyAppend
    <3>5. /\ Append(q, m) \in Seq(Events) /\ Stands(m) + d.skipped = k + Stands(m) /\ d.skipped \in Nat
      BY <1>1, <1>5, <1>12, <2>2
    <3> QED
      BY <1>5, <1>s, <3>1, <3>2, <3>4, <3>5
  <2> QED
    BY <2>1, <2>2
<1> QED
  BY <1>4, <1>9, <1>10, <1>11, <1>12

\* WithStatus takes the entries one after the other.
IsFound(a, E, status, s) ==
  /\ a \in [0..Len(s) -> Seq(E)] /\ a[0] = <<>>
  /\ \A k \in 1..Len(s) : a[k] = IF s[k].status = status THEN Append(a[k - 1], s[k]) ELSE a[k - 1]
  /\ WithStatus(status, s) = a[Len(s)]
\* WithStatus is the last of its intermediate results.
LEMMA WithStatusFold ==
  ASSUME NEW E, NEW status, NEW s \in Seq(E)
  PROVE  \E a : IsFound(a, E, status, s)
<1> DEFINE n == Len(s)
           step == [p \in (1..n) \X Seq(E) |-> IF s[p[1]].status = status THEN Append(p[2], s[p[1]]) ELSE p[2]]
           Iter(f) == f = [t \in SUBSET (1..n) |-> IF t = {} THEN <<>>
                 ELSE IF s[Max(t)].status = status THEN Append(f[t \ {Max(t)}], s[Max(t)]) ELSE f[t \ {Max(t)}]]
<1>1. n \in Nat /\ DOMAIN s = 1..n /\ \A k \in 1..n : s[k] \in E
  OBVIOUS
<1> HIDE DEF n
<1>2. step \in [(1..n) \X Seq(E) -> Seq(E)]
  BY <1>1
<1>3. PICK f : IsFold(f, n, Seq(E), <<>>, step)
  <2>1. n \in Nat /\ <<>> \in Seq(E)
    BY <1>1
  <2> HIDE DEF step
  <2> QED
    BY <2>1, <1>2, FoldExists
<1> f \in [SUBSET (1..n) -> Seq(E)]
  BY <1>3 DEF IsFold
<1>4. ASSUME NEW t \in SUBSET (1..n), t # {}
      PROVE  f[t] = IF s[Max(t)].status = status THEN Append(f[t \ {Max(t)}], s[Max(t)]) ELSE f[t \ {Max(t)}]
  <2>1. Max(t) \in 1..n
    BY <1>1, <1>4, MaxOf
  <2>2. f[t \ {Max(t)}] \in Seq(E)
    OBVIOUS
  <2>3. f[t] = step[<<Max(t), f[t \ {Max(t)}]>>]
    BY <1>3, <1>4 DEF IsFold
  <2> HIDE DEF Max
  <2> QED
    BY <2>1, <2>2, <2>3
<1>5. f[{}] = <<>>
  BY <1>3 DEF IsFold
<1>6. Iter(f)
  <2> HIDE DEF step
  <2>1. \A t \in SUBSET (1..n) : f[t] = IF t = {} THEN <<>>
                 ELSE IF s[Max(t)].status = status THEN Append(f[t \ {Max(t)}], s[Max(t)]) ELSE f[t \ {Max(t)}]
    BY <1>4, <1>5
  <2> QED
    BY <2>1
<1> DEFINE iter == CHOOSE g : Iter(g)
<1>7. Iter(iter)
  <2> HIDE DEF Iter
  <2> QED
    BY <1>6
<1>8. WithStatus(status, s) = iter[1..n]
  BY <1>1 DEF WithStatus, FoldLeft, MapThenFoldSet
<1> HIDE DEF iter
<1> DEFINE a == [k \in 0..n |-> iter[1..k]]
<1>9. iter[1..0] = <<>>
  <2>1. 1..0 = {} /\ {} \in SUBSET (1..n)
    OBVIOUS
  <2> QED
    BY <1>7, <2>1
<1>10. ASSUME NEW k \in 1..n PROVE (iter[1..k] = IF s[k].status = status THEN Append(iter[1..k - 1], s[k]) ELSE iter[1..k - 1]) /\ k - 1 \in 0..n
  <2>1. /\ 1..k \in SUBSET (1..n) /\ 1..k # {} /\ Max(1..k) = k
        /\ (1..k) \ {k} = 1..k - 1 /\ k - 1 \in 0..n
    BY <1>1, UpTo
  <2> QED
    BY <1>7, <2>1
<1>11. \A k \in 0..n : iter[1..k] \in Seq(E)
  <2> DEFINE P(k) == k <= n => iter[1..k] \in Seq(E)
             T == {k \in Nat : P(k)}
  <2>1. P(0)
    BY <1>9
  <2>2. ASSUME NEW k \in Nat, P(k) PROVE P(k + 1)
    <3> SUFFICES ASSUME k + 1 <= n PROVE iter[1..k + 1] \in Seq(E)
      OBVIOUS
    <3>1. k + 1 \in 1..n /\ (k + 1) - 1 = k /\ k <= n
      BY <1>1
    <3>2. iter[1..k + 1] = IF s[k + 1].status = status THEN Append(iter[1..(k + 1) - 1], s[k + 1])
                       ELSE iter[1..(k + 1) - 1]
      BY <1>10, <3>1
    <3>3. iter[1..k] \in Seq(E) /\ s[k + 1] \in E
      BY <1>1, <2>2, <3>1
    <3> QED
      BY <3>1, <3>2, <3>3
  <2> HIDE DEF P
  <2>3. 0 \in T /\ \A k \in Nat : k \in T => k + 1 \in T
    BY <2>1, <2>2
  <2>4. Nat \subseteq T
    <3> HIDE DEF T
    <3> QED
      BY <2>3, SetInduction
  <2> QED
    BY <1>1, <2>4 DEF P
<1>12. a \in [0..n -> Seq(E)] /\ a[0] = <<>> /\ a[n] = WithStatus(status, s)
  BY <1>1, <1>8, <1>9, <1>11
<1>13. \A k \in 1..n : a[k] = IF s[k].status = status THEN Append(a[k - 1], s[k]) ELSE a[k - 1]
  BY <1>1, <1>10
<1> HIDE DEF a
<1>14. IsFound(a, E, status, s)
  BY <1>12, <1>13 DEF n, IsFound
<1> QED
  BY <1>14

\* What WithStatus finds is among the entries, has the status and keeps entries apart.
LEMMA WithStatusFinds ==
  ASSUME NEW E, NEW status, NEW s \in Seq(E)
  PROVE  /\ WithStatus(status, s) \in Seq(E)
         /\ \A i \in 1..Len(WithStatus(status, s)) :
              \E j \in 1..Len(s) : WithStatus(status, s)[i] = s[j] /\ s[j].status = status
         /\ (\A i, j \in 1..Len(s) : s[i] = s[j] => i = j) =>
              \A i, j \in 1..Len(WithStatus(status, s)) :
                WithStatus(status, s)[i] = WithStatus(status, s)[j] => i = j
<1>0. PICK a : IsFound(a, E, status, s)
  BY WithStatusFold
<1>1. /\ a \in [0..Len(s) -> Seq(E)] /\ a[0] = <<>>
      /\ \A k \in 1..Len(s) : a[k] = IF s[k].status = status THEN Append(a[k - 1], s[k]) ELSE a[k - 1]
      /\ WithStatus(status, s) = a[Len(s)]
  BY <1>0 DEF IsFound
<1> DEFINE n == Len(s)
           Apart == \A i, j \in 1..n : s[i] = s[j] => i = j
           From(v, k) == \A i \in 1..Len(v) : \E j \in 1..k : v[i] = s[j] /\ s[j].status = status
           Differ(v) == \A i, j \in 1..Len(v) : v[i] = v[j] => i = j
           P(k) == k <= n => From(a[k], k) /\ (Apart => Differ(a[k]))
           T == {k \in Nat : P(k)}
<1>2. n \in Nat /\ \A k \in 1..n : s[k] \in E
  OBVIOUS
<1>3. P(0)
  BY <1>1
<1>4. ASSUME NEW k \in Nat, P(k) PROVE P(k + 1)
  <2> SUFFICES ASSUME k + 1 <= n PROVE From(a[k + 1], k + 1) /\ (Apart => Differ(a[k + 1]))
    OBVIOUS
  <2>1. k + 1 \in 1..n /\ k \in 0..n /\ (k + 1) - 1 = k /\ k <= n
    BY <1>2
  <2>2. a[k] \in Seq(E) /\ s[k + 1] \in E
    BY <1>1, <1>2, <2>1
  <2>3. a[k + 1] = IF s[k + 1].status = status THEN Append(a[k], s[k + 1]) ELSE a[k]
    BY <1>1, <2>1
  <2>4. From(a[k], k) /\ (Apart => Differ(a[k]))
    BY <1>4, <2>1
  <2> DEFINE u == a[k]
             v == Append(u, s[k + 1])
  <2>5. u \in Seq(E) /\ v \in Seq(E) /\ Len(v) = Len(u) + 1 /\ v[Len(u) + 1] = s[k + 1]
        /\ \A i \in 1..Len(u) : v[i] = u[i]
    BY <2>2
  <2>6. CASE s[k + 1].status # status
    <3>1. a[k + 1] = u
      BY <2>3, <2>6
    <3>2. From(u, k) /\ \A j \in 1..k : j \in 1..k + 1
      BY <2>4
    <3>3. From(u, k + 1)
      <4> HIDE DEF u
      <4> QED
        BY <3>2
    <3> HIDE DEF From, Differ, Apart
    <3> QED
      BY <2>4, <3>1, <3>3
  <2>7. CASE s[k + 1].status = status
    <3>1. a[k + 1] = v
      BY <2>3, <2>7
    <3>2. From(u, k) /\ (Apart => Differ(u))
      BY <2>4
    <3> HIDE DEF v, u
    <3>3. From(v, k + 1)
      <4> SUFFICES ASSUME NEW i \in 1..Len(v) PROVE \E j \in 1..k + 1 : v[i] = s[j] /\ s[j].status = status
        OBVIOUS
      <4>1. CASE i = Len(u) + 1
        BY <2>5, <2>7, <4>1
      <4>2. CASE i # Len(u) + 1
        <5>1. i \in 1..Len(u) /\ v[i] = u[i]
          BY <2>5, <4>2
        <5> QED
          BY <3>2, <5>1
      <4> QED
        BY <4>1, <4>2
    <3>4. ASSUME Apart PROVE Differ(v)
      <4>1. ASSUME NEW i \in 1..Len(u) PROVE u[i] # s[k + 1]
        <5>1. PICK j \in 1..k : u[i] = s[j]
          BY <3>2
        <5>2. j # k + 1 /\ j \in 1..n
          BY <2>1
        <5> QED
          BY <2>1, <3>4, <5>1, <5>2
      <4> SUFFICES ASSUME NEW i \in 1..Len(v), NEW j \in 1..Len(v), v[i] = v[j] PROVE i = j
        OBVIOUS
      <4>2. (i \in 1..Len(u) \/ i = Len(u) + 1) /\ (j \in 1..Len(u) \/ j = Len(u) + 1)
        BY <2>5
      <4>3. Differ(u)
        BY <3>2, <3>4
      <4> HIDE DEF Apart
      <4> QED
        BY <2>5, <4>1, <4>2, <4>3
    <3> HIDE DEF From, Differ, Apart
    <3> QED
      BY <3>1, <3>3, <3>4
  <2> QED
    BY <2>6, <2>7
<1> HIDE DEF P
<1>5. 0 \in T /\ \A k \in Nat : k \in T => k + 1 \in T
  BY <1>3, <1>4
<1>6. Nat \subseteq T
  <2> HIDE DEF T
  <2> QED
    BY <1>5, SetInduction
<1>7. P(n) /\ n \in 0..n
  BY <1>2, <1>6
<1>8. From(a[n], n) /\ (Apart => Differ(a[n])) /\ a[n] \in Seq(E)
  BY <1>1, <1>2, <1>7 DEF P
<1> QED
  BY <1>1, <1>8

LoopInv(s) ==
  /\ place[s] = "respond" => todo[s] \in Seq(Rows)
  /\ place[s] = "control" => todo[s] \in Seq(Entries)
  /\ place[s] \notin {"respond", "control"} => todo[s] = <<>>
  /\ call[s].what = "resume" => place[s] = "resume"
  /\ call[s].what = "respond" => place[s] = "respond" /\ call[s].item \in Asks
  /\ call[s].what = "control" => place[s] = "control" /\ call[s].item \in Controls
Typed == ClientTypes /\ \A s \in Clients : LoopInv(s)

\* Only the connection of s changes, to d.
Becomes(s, d) ==
  /\ d \in Connections /\ conn' = [conn EXCEPT ![s] = d]
  /\ conn' \in [Clients -> Connections] /\ conn'[s] = d
  /\ \A t \in Clients : t # s => conn'[t] = conn[t]
LEMMA BecomesTyped ==
  ASSUME conn \in [Clients -> Connections], NEW s \in Clients, NEW d \in Connections,
         conn' = [conn EXCEPT ![s] = d]
  PROVE  Becomes(s, d)
BY DEF Becomes

\* A connection just made, and the absent one, have their type.
LEMMA FreshTyped ==
  ASSUME NEW mode \in {"stdio", "daemon"}
  PROVE  Connected(mode) \in Connections /\ Closed \in Connections
<1>1. <<>> \in Seq(Events) /\ <<>> \in Seq(Messages) /\ {} \in SUBSET Nat /\ Nothing \in [n : Nat, lossless : BOOLEAN]
  BY DEF Nothing
<1>2. \A m \in {"stdio", "daemon"} : Connected(m) \in Connections
  BY <1>1 DEF Connected, Connections
<1>3. Connected("stdio") \in Connections
  BY <1>2
<1>4. Closed \in Connections
  BY <1>3 DEF Closed, Connections
<1> QED
  BY <1>2, <1>4

LEMMA ConnectTyped ==
  ASSUME Typed, NEW s \in Clients, NEW mode \in {"stdio", "daemon"}, Connect(s, mode)
  PROVE  Typed' /\ Becomes(s, Connected(mode))
<1>1. Connected(mode) \in Connections /\ NoCall \in Calls
  BY FreshTyped DEF NoCall, Calls, Stages, Whats, Items
<1>2. Becomes(s, Connected(mode))
  <2> DEFINE d == Connected(mode)
  <2>1. conn \in [Clients -> Connections] /\ d \in Connections /\ conn' = [conn EXCEPT ![s] = d]
    BY <1>1 DEF Typed, ClientTypes, Connect
  <2> HIDE DEF d
  <2>2. Becomes(s, d)
    BY <2>1, BecomesTyped
  <2> QED
    BY <2>2 DEF d
<1>3. ClientTypes'
  <2>1. epoch' \in [Clients -> Nat]
    BY DEF Typed, ClientTypes, Connect
  <2>2. place' \in [Clients -> Places] /\ call' \in [Clients -> Calls]
    BY <1>1 DEF Typed, ClientTypes, Connect, Places
  <2>3. todo' \in [Clients -> Seq(Entries) \cup Seq(Rows)]
    BY DEF Typed, ClientTypes, Connect
  <2> QED
    BY <1>2, <2>1, <2>2, <2>3 DEF Typed, ClientTypes, Connect, Becomes
<1>4. ASSUME NEW t \in Clients PROVE LoopInv(t)'
  <2>1. CASE t = s
    BY <2>1 DEF Typed, ClientTypes, Connect, LoopInv, NoCall
  <2>2. CASE t # s
    BY <2>2 DEF Typed, ClientTypes, Connect, LoopInv
  <2> QED
    BY <2>1, <2>2
<1> QED
  BY <1>2, <1>3, <1>4 DEF Typed

LEMMA LeaveTyped ==
  ASSUME Typed, NEW s \in Clients, Leave(s)
  PROVE  Typed' /\ Becomes(s, Closed)
<1>1. Closed \in Connections /\ NoCall \in Calls
  BY FreshTyped DEF NoCall, Calls, Stages, Whats, Items
<1>2. Becomes(s, Closed)
  <2> DEFINE d == Closed
  <2>1. conn \in [Clients -> Connections] /\ d \in Connections /\ conn' = [conn EXCEPT ![s] = d]
    BY <1>1 DEF Typed, ClientTypes, Leave
  <2> HIDE DEF d
  <2>2. Becomes(s, d)
    BY <2>1, BecomesTyped
  <2> QED
    BY <2>2 DEF d
<1>3. ClientTypes'
  <2>1. place' \in [Clients -> Places] /\ call' \in [Clients -> Calls]
    BY <1>1 DEF Typed, ClientTypes, Leave, Places
  <2>2. todo' \in [Clients -> Seq(Entries) \cup Seq(Rows)]
    BY DEF Typed, ClientTypes, Leave
  <2> QED
    BY <1>2, <2>1, <2>2 DEF Typed, ClientTypes, Leave, Becomes
<1>4. ASSUME NEW t \in Clients PROVE LoopInv(t)'
  <2>1. CASE t = s
    BY <2>1 DEF Typed, ClientTypes, Leave, LoopInv, NoCall
  <2>2. CASE t # s
    BY <2>2 DEF Typed, ClientTypes, Leave, LoopInv
  <2> QED
    BY <2>1, <2>2
<1> QED
  BY <1>2, <1>3, <1>4 DEF Typed

\* A step of the worker, the server or the loop that leaves the loop's place, list and call to others.
LEMMA ConnTyped ==
  ASSUME Typed, NEW s \in Clients, NEW d \in Connections, conn' = [conn EXCEPT ![s] = d],
         UNCHANGED <<epoch, place, todo, outbox, rows>>, arrived' \subseteq Items,
         call' = call \/ \E stage \in Stages : call' = [call EXCEPT ![s].stage = stage]
  PROVE  Typed' /\ Becomes(s, d)
<1>1. Becomes(s, d)
  BY BecomesTyped DEF Typed, ClientTypes
<1>2. /\ call' \in [Clients -> Calls]
      /\ \A t \in Clients : call'[t].what = call[t].what /\ call'[t].item = call[t].item
  <2>1. CASE call' = call
    BY <2>1 DEF Typed, ClientTypes
  <2>2. ASSUME NEW stage \in Stages, call' = [call EXCEPT ![s].stage = stage]
        PROVE  /\ call' \in [Clients -> Calls]
               /\ \A t \in Clients : call'[t].what = call[t].what /\ call'[t].item = call[t].item
    <3> DEFINE r == [call[s] EXCEPT !.stage = stage]
    <3>1. call \in [Clients -> Calls] /\ call' = [call EXCEPT ![s] = r]
      BY <2>2 DEF Typed, ClientTypes
    <3>2. r \in Calls /\ r.what = call[s].what /\ r.item = call[s].item
      BY <3>1 DEF Calls
    <3> HIDE DEF r
    <3> QED
      BY <3>1, <3>2
  <2> QED
    BY <2>1, <2>2
<1>3. ClientTypes'
  BY <1>1, <1>2 DEF Typed, ClientTypes, Becomes
<1>4. \A t \in Clients : LoopInv(t)'
  BY <1>2 DEF Typed, LoopInv
<1> QED
  BY <1>1, <1>3, <1>4 DEF Typed

\* The fields that a step can leave alone.
SameRest(c, d) ==
  /\ d.mode = c.mode /\ d.asks = c.asks /\ d.last = c.last /\ d.told = c.told

LEMMA EnterStep ==
  ASSUME Typed, NEW s \in Clients, EnterQueue(s), NEW c, c = conn[s]
  PROVE  \E d \in Connections :
           /\ Typed' /\ Becomes(s, d) /\ SameRest(c, d)
           /\ d.queue = Append(c.queue, Head(c.held)) /\ d.held = Tail(c.held) /\ c.held # <<>>
           /\ d.worker = (IF c.worker = "ending" /\ Len(c.held) = 1 THEN "gone" ELSE c.worker)
           /\ d.wire = c.wire /\ d.skipped = c.skipped /\ d.next = c.next /\ d.awaited = c.awaited
           /\ d.sent = c.sent /\ d.up = c.up /\ d.notes = c.notes /\ d.open = c.open
<1> DEFINE d == [c EXCEPT !.queue = Append(@, Head(c.held)), !.held = Tail(@),
                          !.worker = IF @ = "ending" /\ Len(c.held) = 1 THEN "gone" ELSE @]
<1>1. c \in Connections /\ c.held # <<>> /\ conn' = [conn EXCEPT ![s] = d]
  BY DEF Typed, ClientTypes, EnterQueue
<1>2. d \in Connections
  <2>1. /\ c.queue \in Seq(Events) /\ c.held \in Seq(Events) /\ c.held # <<>>
        /\ Append(c.queue, Head(c.held)) \in Seq(Events) /\ Tail(c.held) \in Seq(Events)
    BY <1>1 DEF Connections
  <2> QED
    BY <1>1, <2>1 DEF Connections
<1>3. /\ SameRest(c, d) /\ d.queue = Append(c.queue, Head(c.held)) /\ d.held = Tail(c.held)
      /\ d.worker = (IF c.worker = "ending" /\ Len(c.held) = 1 THEN "gone" ELSE c.worker)
      /\ d.wire = c.wire /\ d.skipped = c.skipped /\ d.next = c.next /\ d.awaited = c.awaited
      /\ d.sent = c.sent /\ d.up = c.up /\ d.notes = c.notes /\ d.open = c.open
  BY <1>1 DEF Connections, SameRest
<1> HIDE DEF d
<1>4. Typed' /\ Becomes(s, d)
  <2>1. UNCHANGED <<epoch, place, todo, outbox, rows>> /\ arrived' \subseteq Items /\ call' = call
    BY DEF EnterQueue, Typed, ClientTypes
  <2> QED
    BY <1>1, <1>2, <2>1, ConnTyped
<1> QED
  BY <1>1, <1>2, <1>3, <1>4

\* The worker's loop ends, with or without an announcement.
Ends(c, d) ==
  /\ SameRest(c, d) /\ d.queue = c.queue /\ d.held \in {<<>>, <<Disconnected>>}
  /\ d.worker \in {"ending", "gone"} /\ (d.worker = "gone" => d.held = <<>>)
  /\ d.wire = c.wire /\ d.skipped = c.skipped /\ d.next = c.next /\ d.awaited = 0
  /\ d.sent = c.sent /\ d.up = c.up /\ d.notes = c.notes /\ d.open = c.open
LEMMA EndedTyped ==
  ASSUME NEW c \in Connections
  PROVE  Ended(c) \in Connections /\ Ends(c, Ended(c))
<1>1. Disconnected \in Events /\ <<Disconnected>> \in Seq(Events) /\ <<>> \in Seq(Events)
  BY DEF Disconnected, Events, Kinds
<1>2. Ended(c) \in Connections
  BY <1>1 DEF Ended, Connections
<1>3. Ends(c, Ended(c))
  BY <1>1 DEF Ended, Connections, Ends, SameRest
<1> QED
  BY <1>2, <1>3

LEMMA EndStep ==
  ASSUME Typed, NEW s \in Clients, EndOfStream(s), NEW c, c = conn[s]
  PROVE  \E d \in Connections :
           /\ Typed' /\ Becomes(s, d) /\ Ends(c, d) /\ ~c.up
           /\ call' = FailCall(s) /\ c.held = <<>> /\ c.worker = "on"
<1> DEFINE d == Ended(c)
<1>1. c \in Connections /\ conn' = [conn EXCEPT ![s] = d] /\ c.held = <<>> /\ c.worker = "on" /\ ~c.up
  BY DEF Typed, ClientTypes, EndOfStream, Running
<1>2. d \in Connections /\ Ends(c, d)
  BY <1>1, EndedTyped
<1> HIDE DEF d
<1>3. \E stage \in Stages : call' = [call EXCEPT ![s].stage = stage]
  <2> DEFINE stage == IF call[s].stage = "written" THEN "failed" ELSE call[s].stage
  <2>1. stage \in Stages /\ call' = [call EXCEPT ![s].stage = stage]
    BY DEF EndOfStream, FailCall, Typed, ClientTypes, Calls, Stages
  <2> QED
    BY <2>1
<1>4. Typed' /\ Becomes(s, d)
  <2>1. UNCHANGED <<epoch, place, todo, outbox, rows>> /\ arrived' \subseteq Items
    BY DEF EndOfStream, Typed, ClientTypes
  <2> QED
    BY <1>1, <1>2, <1>3, <2>1, ConnTyped
<1> QED
  BY <1>1, <1>2, <1>4 DEF EndOfStream

LEMMA NotifyStep ==
  ASSUME Typed, NEW s \in Clients, Notify(s), NEW c, c = conn[s]
  PROVE  \E d \in Connections, lossless \in BOOLEAN :
           /\ Typed' /\ Becomes(s, d) /\ SameRest(c, d) /\ call' = call
           /\ d.wire = Append(c.wire, Note(c.notes + 1, lossless)) /\ d.notes = c.notes + 1
           /\ d.queue = c.queue /\ d.held = c.held /\ d.worker = c.worker
           /\ d.skipped = c.skipped /\ d.next = c.next /\ d.awaited = c.awaited
           /\ d.sent = c.sent /\ d.up = c.up /\ d.open = c.open
<1>0. PICK lossless \in BOOLEAN :
        conn' = [conn EXCEPT ![s].notes = @ + 1, ![s].wire = Append(@, Note(conn[s].notes + 1, lossless))]
  BY DEF Notify
<1> DEFINE d == [c EXCEPT !.notes = @ + 1, !.wire = Append(@, Note(c.notes + 1, lossless))]
<1>1. c \in Connections /\ conn' = [conn EXCEPT ![s] = d]
  BY <1>0 DEF Typed, ClientTypes
<1>2. d \in Connections
  <2>1. c.notes \in Nat /\ Note(c.notes + 1, lossless) \in Events /\ c.wire \in Seq(Events)
    BY <1>1 DEF Connections, Note, Events, Kinds
  <2>2. Append(c.wire, Note(c.notes + 1, lossless)) \in Seq(Events)
    BY <2>1
  <2> DEFINE v == Append(c.wire, Note(c.notes + 1, lossless))
             n == c.notes + 1
  <2>3. v \in Seq(Events) /\ n \in Nat /\ d = [c EXCEPT !.notes = n, !.wire = v]
    BY <2>1, <2>2
  <2> HIDE DEF v, n, d
  <2> QED
    BY <1>1, <2>3 DEF Connections
<1>3. /\ SameRest(c, d)
      /\ d.wire = Append(c.wire, Note(c.notes + 1, lossless)) /\ d.notes = c.notes + 1
      /\ d.queue = c.queue /\ d.held = c.held /\ d.worker = c.worker
      /\ d.skipped = c.skipped /\ d.next = c.next /\ d.awaited = c.awaited
      /\ d.sent = c.sent /\ d.up = c.up /\ d.open = c.open
  BY <1>1 DEF Connections, SameRest
<1> HIDE DEF d
<1>4. Typed' /\ Becomes(s, d) /\ call' = call
  <2>1. UNCHANGED <<epoch, place, todo, outbox, rows>> /\ arrived' \subseteq Items /\ call' = call
    BY DEF Notify, Typed, ClientTypes
  <2> QED
    BY <1>1, <1>2, <2>1, ConnTyped
<1> QED
  BY <1>2, <1>3, <1>4

AsksOne(c, d, id) ==
  /\ id >= AskBase /\ d.mode = c.mode /\ d.last = c.last /\ d.told = c.told
  /\ d.wire = Append(c.wire, Question(id)) /\ d.open = c.open \cup {id} /\ d.notes = c.notes
  /\ d.queue = c.queue /\ d.held = c.held /\ d.worker = c.worker
  /\ d.skipped = c.skipped /\ d.next = c.next /\ d.awaited = c.awaited
  /\ d.sent = c.sent /\ d.up = c.up
LEMMA AskStep ==
  ASSUME Typed, NEW s \in Clients, ServerAsks(s), NEW c, c = conn[s]
  PROVE  \E d \in Connections, id \in Nat :
           Typed' /\ Becomes(s, d) /\ call' = call /\ AsksOne(c, d, id)
<1> DEFINE id == AskBase + c.asks
           d == [c EXCEPT !.asks = @ + 1, !.open = @ \cup {id}, !.wire = Append(@, Question(id))]
<1>1. c \in Connections /\ conn' = [conn EXCEPT ![s] = d]
  BY DEF Typed, ClientTypes, ServerAsks
<1>2. c.asks \in Nat /\ id \in Nat /\ id >= AskBase /\ c.wire \in Seq(Events)
  BY <1>1, ClientAssumption, SMTT(30) DEF Connections
<1> HIDE DEF id
<1>3. d \in Connections
  <2>1. Question(id) \in Events
    BY <1>2 DEF Question, Events, Kinds
  <2>2. Append(c.wire, Question(id)) \in Seq(Events)
    BY <1>2, <2>1
  <2> DEFINE v == Append(c.wire, Question(id))
             n == c.asks + 1
             o == c.open \cup {id}
  <2>3. /\ v \in Seq(Events) /\ n \in Nat /\ o \in SUBSET Nat
        /\ d = [c EXCEPT !.asks = n, !.open = o, !.wire = v]
    BY <1>1, <1>2, <2>2, SMTT(30) DEF Connections
  <2> HIDE DEF v, n, o, d
  <2> QED
    BY <1>1, <2>3 DEF Connections
<1>4. /\ d.mode = c.mode /\ d.last = c.last /\ d.told = c.told
      /\ d.wire = Append(c.wire, Question(id)) /\ d.open = c.open \cup {id} /\ d.notes = c.notes
      /\ d.queue = c.queue /\ d.held = c.held /\ d.worker = c.worker
      /\ d.skipped = c.skipped /\ d.next = c.next /\ d.awaited = c.awaited
      /\ d.sent = c.sent /\ d.up = c.up
  BY <1>1 DEF Connections
<1> HIDE DEF d
<1>6. AsksOne(c, d, id)
  BY <1>2, <1>4 DEF AsksOne
<1>5. Typed' /\ Becomes(s, d) /\ call' = call
  <2>1. UNCHANGED <<epoch, place, todo, outbox, rows>> /\ arrived' \subseteq Items /\ call' = call
    BY DEF ServerAsks, Typed, ClientTypes
  <2> QED
    BY <1>1, <1>3, <2>1, ConnTyped
<1> QED
  BY <1>2, <1>3, <1>5, <1>6

LEMMA ExitStep ==
  ASSUME Typed, NEW s \in Clients, ServerExits(s), NEW c, c = conn[s]
  PROVE  \E d \in Connections :
           /\ Typed' /\ Becomes(s, d) /\ SameRest(c, d) /\ call' = call /\ d.up = FALSE
           /\ d.wire = c.wire /\ d.open = c.open /\ d.notes = c.notes
           /\ d.queue = c.queue /\ d.held = c.held /\ d.worker = c.worker
           /\ d.skipped = c.skipped /\ d.next = c.next /\ d.awaited = c.awaited /\ d.sent = c.sent
<1> DEFINE d == [c EXCEPT !.up = FALSE]
<1>1. c \in Connections /\ conn' = [conn EXCEPT ![s] = d]
  BY DEF Typed, ClientTypes, ServerExits
<1>2. d \in Connections /\ SameRest(c, d) /\ d.up = FALSE
      /\ d.wire = c.wire /\ d.open = c.open /\ d.notes = c.notes
      /\ d.queue = c.queue /\ d.held = c.held /\ d.worker = c.worker
      /\ d.skipped = c.skipped /\ d.next = c.next /\ d.awaited = c.awaited /\ d.sent = c.sent
  BY <1>1 DEF Connections, SameRest
<1> HIDE DEF d
<1>3. Typed' /\ Becomes(s, d) /\ call' = call
  <2>1. UNCHANGED <<epoch, place, todo, outbox, rows>> /\ arrived' \subseteq Items /\ call' = call
    BY DEF ServerExits, Typed, ClientTypes
  <2> QED
    BY <1>1, <1>2, <2>1, ConnTyped
<1> QED
  BY <1>2, <1>3

\* The server takes m.
Handled(c, d, m) ==
  /\ SameRest(c, d) /\ c.sent # <<>> /\ m = Head(c.sent) /\ d.sent = Tail(c.sent)
  /\ d.wire = (IF m.what = "respond" THEN c.wire ELSE Append(c.wire, Reply(m.id)))
  /\ d.open = (IF m.what = "respond" THEN c.open \ {m.id} ELSE c.open)
  /\ arrived' = (IF m.what = "control" THEN arrived \cup {m.item} ELSE arrived)
  /\ d.queue = c.queue /\ d.held = c.held /\ d.worker = c.worker /\ d.notes = c.notes
  /\ d.skipped = c.skipped /\ d.next = c.next /\ d.awaited = c.awaited /\ d.up = c.up
\* What Handle does to its connection.
LEMMA HandleStep ==
  ASSUME Typed, NEW s \in Clients, Handle(s), NEW c, c = conn[s]
  PROVE  \E d \in Connections, m \in Messages :
           Typed' /\ Becomes(s, d) /\ call' = call /\ Handled(c, d, m)
<1> DEFINE m == Head(c.sent)
           w == IF m.what = "respond" THEN c.wire ELSE Append(c.wire, Reply(m.id))
           o == IF m.what = "respond" THEN c.open \ {m.id} ELSE c.open
           r == Tail(c.sent)
           d == [c EXCEPT !.sent = r, !.wire = w, !.open = o]
<1>1. /\ c \in Connections /\ conn' = [conn EXCEPT ![s] = d] /\ c.sent # <<>>
      /\ arrived' = (IF m.what = "control" THEN arrived \cup {m.item} ELSE arrived)
  BY DEF Typed, ClientTypes, Handle
<1>2. c.sent \in Seq(Messages) /\ c.wire \in Seq(Events) /\ c.open \in SUBSET Nat
  BY <1>1 DEF Connections
<1>3. m \in Messages /\ r \in Seq(Messages)
  BY <1>1, <1>2
<1> HIDE DEF m, r
<1>4. w \in Seq(Events) /\ o \in SUBSET Nat
  <2>1. Reply(m.id) \in Events
    BY <1>3 DEF Messages, Reply, Events, Kinds
  <2> QED
    BY <1>2, <2>1
<1>5. arrived' \subseteq Items
  BY <1>1, <1>3 DEF Typed, ClientTypes, Messages
<1> HIDE DEF w, o
<1>6. d \in Connections
  BY <1>1, <1>3, <1>4 DEF Connections
<1>7. /\ SameRest(c, d) /\ d.sent = r /\ d.wire = w /\ d.open = o
      /\ d.queue = c.queue /\ d.held = c.held /\ d.worker = c.worker /\ d.notes = c.notes
      /\ d.skipped = c.skipped /\ d.next = c.next /\ d.awaited = c.awaited /\ d.up = c.up
  BY <1>1 DEF Connections, SameRest
<1> HIDE DEF d
<1>8. Typed' /\ Becomes(s, d) /\ call' = call
  <2>1. UNCHANGED <<epoch, place, todo, outbox, rows>> /\ call' = call
    BY DEF Handle
  <2> QED
    BY <1>1, <1>5, <1>6, <2>1, ConnTyped
<1>9. Handled(c, d, m)
  BY <1>1, <1>7 DEF Handled, m, w, o, r
<1> QED
  BY <1>3, <1>6, <1>8, <1>9

\* What the worker does with a line.
Routed(s, c, d) ==
  LET m == Head(c.wire)
      answers == m.kind \in {"reply", "ask"} /\ m.n = c.awaited IN
  /\ c.worker = "on" /\ c.held = <<>> /\ c.wire # <<>>
  /\ SameRest(c, d) /\ d.wire = Tail(c.wire) /\ d.worker = c.worker /\ d.next = c.next
  /\ d.sent = c.sent /\ d.up = c.up /\ d.notes = c.notes /\ d.open = c.open
  /\ d.awaited = (IF answers THEN 0 ELSE c.awaited)
  /\ call' = (IF answers THEN [call EXCEPT ![s].stage = "answered"] ELSE call)
  /\ \/ /\ answers \/ m.kind = "reply"
        /\ d.queue = c.queue /\ d.held = c.held /\ d.skipped = c.skipped
     \/ /\ ~answers /\ m.lossless
        /\ d.queue = c.queue /\ d.held = Announced(c.skipped, m) /\ d.skipped = 0
     \/ /\ ~answers /\ ~m.lossless
        /\ d.queue = Append(c.queue, m) /\ d.held = c.held /\ d.skipped = c.skipped
     \/ /\ ~answers /\ ~m.lossless
        /\ d.queue = c.queue /\ d.held = c.held /\ d.skipped = c.skipped + 1
\* What RouteMessage does to its connection.
LEMMA RouteStep ==
  ASSUME Typed, NEW s \in Clients, RouteMessage(s), NEW c, c = conn[s]
  PROVE  \E d \in Connections : Typed' /\ Becomes(s, d) /\ Routed(s, c, d)
<1> DEFINE m == Head(c.wire)
           w == Tail(c.wire)
           read == [c EXCEPT !.wire = w]
           answers == m.kind \in {"reply", "ask"} /\ m.n = c.awaited
           d == IF answers THEN [read EXCEPT !.awaited = 0]
                ELSE IF m.kind = "reply" THEN read
                ELSE IF m.lossless
                THEN [read EXCEPT !.held = Announced(c.skipped, m), !.skipped = 0]
                ELSE IF Len(c.queue) < QueueCapacity THEN [read EXCEPT !.queue = Append(@, m)]
                ELSE [read EXCEPT !.skipped = @ + 1]
<1>1. /\ c \in Connections /\ conn' = [conn EXCEPT ![s] = d] /\ c.wire # <<>>
      /\ c.worker = "on" /\ c.held = <<>>
      /\ call' = (IF answers THEN [call EXCEPT ![s].stage = "answered"] ELSE call)
  BY DEF Typed, ClientTypes, RouteMessage, Running
<1>2. /\ c.wire \in Seq(Events) /\ c.queue \in Seq(Events) /\ c.skipped \in Nat
  BY <1>1 DEF Connections
<1>3. m \in Events /\ w \in Seq(Events)
  BY <1>1, <1>2
<1>w. w = Tail(c.wire) /\ m = Head(c.wire)
  OBVIOUS
<1> HIDE DEF w, m
<1>4. read \in Connections /\ SameRest(c, read)
      /\ read.wire = w /\ read.worker = c.worker /\ read.next = c.next
      /\ read.sent = c.sent /\ read.up = c.up /\ read.notes = c.notes /\ read.open = c.open
      /\ read.queue = c.queue /\ read.held = c.held /\ read.skipped = c.skipped /\ read.awaited = c.awaited
  BY <1>1, <1>3 DEF Connections, SameRest
<1> HIDE DEF read
<1>5. Append(c.queue, m) \in Seq(Events) /\ Announced(c.skipped, m) \in Seq(Events)
  <2>1. ASSUME c.skipped > 0 PROVE Lagged(c.skipped) \in Events
    BY <1>2 DEF Lagged, Events, Kinds
  <2> QED
    BY <1>2, <1>3, <2>1 DEF Announced
<1>6. d \in Connections
  <2>1. [read EXCEPT !.awaited = 0] \in Connections
    BY <1>4 DEF Connections
  <2>2. [read EXCEPT !.held = Announced(c.skipped, m), !.skipped = 0] \in Connections
    <3> DEFINE h == Announced(c.skipped, m)
    <3>1. h \in Seq(Events)
      BY <1>5
    <3> HIDE DEF h
    <3>2. [read EXCEPT !.held = h, !.skipped = 0] \in Connections
      BY <1>4, <3>1 DEF Connections
    <3> QED
      BY <3>2 DEF h
  <2>3. [read EXCEPT !.queue = Append(@, m)] \in Connections
    BY <1>4, <1>5 DEF Connections
  <2>4. [read EXCEPT !.skipped = @ + 1] \in Connections
    <3> DEFINE n == read.skipped + 1
    <3>1. n \in Nat /\ [read EXCEPT !.skipped = @ + 1] = [read EXCEPT !.skipped = n]
      BY <1>2, <1>4
    <3> HIDE DEF n
    <3>2. [read EXCEPT !.skipped = n] \in Connections
      BY <1>4, <3>1 DEF Connections
    <3> QED
      BY <3>1, <3>2
  <2> QED
    BY <1>4, <2>1, <2>2, <2>3, <2>4
<1>7. Routed(s, c, d)
  <2>1. CASE answers
    <3> DEFINE e == [read EXCEPT !.awaited = 0]
    <3>1. d = e
      BY <2>1
    <3>2. SameRest(c, e) /\ e.wire = w /\ e.worker = c.worker /\ e.next = c.next
          /\ e.sent = c.sent /\ e.up = c.up /\ e.notes = c.notes /\ e.open = c.open
          /\ e.queue = c.queue /\ e.held = c.held /\ e.skipped = c.skipped /\ e.awaited = 0
      BY <1>4 DEF Connections, SameRest
    <3> HIDE DEF e, d
    <3> QED
      BY <1>1, <1>w, <2>1, <3>1, <3>2 DEF Routed
  <2>2. CASE ~answers /\ m.kind = "reply"
    <3>1. d = read
      BY <2>2
    <3> HIDE DEF d
    <3> QED
      BY <1>1, <1>w, <1>4, <2>2, <3>1 DEF Routed
  <2>3. CASE ~answers /\ m.kind # "reply" /\ m.lossless
    <3> DEFINE h == Announced(c.skipped, m)
               e == [read EXCEPT !.held = h, !.skipped = 0]
    <3>1. d = e
      BY <2>3
    <3>2. SameRest(c, e) /\ e.wire = w /\ e.worker = c.worker /\ e.next = c.next
          /\ e.sent = c.sent /\ e.up = c.up /\ e.notes = c.notes /\ e.open = c.open
          /\ e.queue = c.queue /\ e.held = h /\ e.skipped = 0 /\ e.awaited = c.awaited
      <4> HIDE DEF h
      <4> QED
        BY <1>4 DEF Connections, SameRest
    <3> HIDE DEF e, d
    <3> QED
      BY <1>1, <1>w, <2>3, <3>1, <3>2 DEF Routed
  <2>4. CASE ~answers /\ m.kind # "reply" /\ ~m.lossless /\ Len(c.queue) < QueueCapacity
    <3> DEFINE e == [read EXCEPT !.queue = Append(@, m)]
    <3>1. d = e
      BY <2>4
    <3>2. SameRest(c, e) /\ e.wire = w /\ e.worker = c.worker /\ e.next = c.next
          /\ e.sent = c.sent /\ e.up = c.up /\ e.notes = c.notes /\ e.open = c.open
          /\ e.queue = Append(c.queue, m) /\ e.held = c.held /\ e.skipped = c.skipped
          /\ e.awaited = c.awaited
      BY <1>4 DEF Connections, SameRest
    <3> HIDE DEF e, d
    <3> QED
      BY <1>1, <1>w, <2>4, <3>1, <3>2 DEF Routed
  <2>5. CASE ~answers /\ m.kind # "reply" /\ ~m.lossless /\ ~(Len(c.queue) < QueueCapacity)
    <3> DEFINE e == [read EXCEPT !.skipped = @ + 1]
    <3>1. d = e
      BY <2>5
    <3>2. SameRest(c, e) /\ e.wire = w /\ e.worker = c.worker /\ e.next = c.next
          /\ e.sent = c.sent /\ e.up = c.up /\ e.notes = c.notes /\ e.open = c.open
          /\ e.queue = c.queue /\ e.held = c.held /\ e.skipped = c.skipped + 1
          /\ e.awaited = c.awaited
      BY <1>4 DEF Connections, SameRest
    <3> HIDE DEF e, d
    <3> QED
      BY <1>1, <1>w, <2>5, <3>1, <3>2 DEF Routed
  <2> QED
    BY <2>1, <2>2, <2>3, <2>4, <2>5
<1>8. call' = call \/ \E stage \in Stages : call' = [call EXCEPT ![s].stage = stage]
  BY <1>1 DEF Stages
<1> HIDE DEF d
<1>9. Typed' /\ Becomes(s, d)
  <2>1. UNCHANGED <<epoch, place, todo, outbox, rows>> /\ arrived' \subseteq Items
    BY DEF RouteMessage, Typed, ClientTypes
  <2> QED
    BY <1>1, <1>6, <1>8, <2>1, ConnTyped
<1> QED
  BY <1>6, <1>7, <1>9

\* The worker writes m, or its loop ends.
Written(c, d, m) ==
  /\ SameRest(c, d) /\ d.sent = Append(c.sent, m) /\ d.wire = c.wire /\ d.queue = c.queue
  /\ d.held = c.held /\ d.worker = c.worker /\ d.skipped = c.skipped /\ d.up = c.up
  /\ d.notes = c.notes /\ d.open = c.open
Taken(s, c, d) ==
  /\ call[s].stage = "queued" /\ c.worker = "on" /\ c.held = <<>>
  /\ \/ /\ call[s].what = "respond" /\ d.next = c.next /\ d.awaited = c.awaited
        /\ Written(c, d, [what |-> "respond", id |-> call[s].item.id, item |-> "none"])
        /\ call' = [call EXCEPT ![s].stage = "answered"]
     \/ /\ call[s].what = "respond" /\ d = c /\ call' = [call EXCEPT ![s].stage = "failed"]
     \/ /\ call[s].what # "respond" /\ d.next = c.next + 1 /\ d.awaited = c.next
        /\ Written(c, d, [what |-> call[s].what, id |-> c.next, item |-> call[s].item])
        /\ call' = [call EXCEPT ![s].stage = "written"]
     \/ call[s].what # "respond" /\ ~c.up /\ Ends(c, d) /\ call' = [call EXCEPT ![s].stage = "failed"]
\* What TakeCommand does to its connection.
LEMMA TakeStep ==
  ASSUME Typed, NEW s \in Clients, TakeCommand(s), NEW c, c = conn[s]
  PROVE  \E d \in Connections : Typed' /\ Becomes(s, d) /\ Taken(s, c, d)
<1>1. /\ c \in Connections /\ call[s] \in Calls /\ c.worker = "on" /\ c.held = <<>>
      /\ call[s].stage = "queued" /\ conn \in [Clients -> Connections]
  BY DEF Typed, ClientTypes, TakeCommand, Running
<1>2. UNCHANGED <<epoch, place, todo, outbox, rows>> /\ arrived' \subseteq Items
  BY DEF TakeCommand, Typed, ClientTypes
<1>3. c.sent \in Seq(Messages) /\ c.next \in Nat
  BY <1>1 DEF Connections
<1>4. ASSUME NEW d \in Connections, NEW stage \in Stages, conn' = [conn EXCEPT ![s] = d],
             call' = [call EXCEPT ![s].stage = stage]
      PROVE  Typed' /\ Becomes(s, d)
  BY <1>2, <1>4, ConnTyped
<1>5. "answered" \in Stages /\ "failed" \in Stages /\ "written" \in Stages
  BY DEF Stages
<1>6. ASSUME c.up, call[s].what = "respond",
             conn' = [conn EXCEPT ![s].sent =
                         Append(@, [what |-> "respond", id |-> call[s].item.id, item |-> "none"])],
             call' = [call EXCEPT ![s].stage = "answered"]
      PROVE  \E d \in Connections : Typed' /\ Becomes(s, d) /\ Taken(s, c, d)
  <2> DEFINE m == [what |-> "respond", id |-> call[s].item.id, item |-> "none"]
             v == Append(c.sent, m)
             d == [c EXCEPT !.sent = v]
  <2>1. m \in Messages
    <3>1. call[s].item \in Asks
      BY <1>6 DEF Typed, LoopInv
    <3> QED
      BY <3>1 DEF Messages, Asks, Whats, Items
  <2>2. conn' = [conn EXCEPT ![s] = d]
    BY <1>1, <1>6
  <2> HIDE DEF m
  <2>3. v \in Seq(Messages) /\ v = Append(c.sent, m)
    BY <1>3, <2>1
  <2> HIDE DEF v
  <2>4. d \in Connections
    BY <1>1, <2>3 DEF Connections
  <2>5. Written(c, d, m) /\ d.next = c.next /\ d.awaited = c.awaited
    BY <1>1, <2>3 DEF Connections, Written, SameRest
  <2> HIDE DEF d
  <2>6. Taken(s, c, d)
    BY <1>1, <1>6, <2>5 DEF Taken, m
  <2> QED
    BY <1>4, <1>5, <1>6, <2>2, <2>4, <2>6
<1>7. ASSUME call[s].what = "respond", conn' = conn, call' = [call EXCEPT ![s].stage = "failed"]
      PROVE  \E d \in Connections : Typed' /\ Becomes(s, d) /\ Taken(s, c, d)
  <2>1. conn' = [conn EXCEPT ![s] = c]
    BY <1>1, <1>7
  <2>2. Taken(s, c, c)
    BY <1>1, <1>7 DEF Taken
  <2> QED
    BY <1>1, <1>4, <1>5, <1>7, <2>1, <2>2
<1>8. ASSUME c.up, call[s].what # "respond",
             conn' = [conn EXCEPT ![s].next = @ + 1, ![s].awaited = c.next,
                ![s].sent = Append(@, [what |-> call[s].what, id |-> c.next, item |-> call[s].item])],
             call' = [call EXCEPT ![s].stage = "written"]
      PROVE  \E d \in Connections : Typed' /\ Becomes(s, d) /\ Taken(s, c, d)
  <2> DEFINE m == [what |-> call[s].what, id |-> c.next, item |-> call[s].item]
             v == Append(c.sent, m)
             n == c.next + 1
             w == c.next
             d == [c EXCEPT !.next = n, !.awaited = w, !.sent = v]
  <2>1. m \in Messages /\ n \in Nat /\ w \in Nat
    BY <1>1, <1>3 DEF Messages, Calls
  <2>2. conn' = [conn EXCEPT ![s] = d]
    BY <1>1, <1>8
  <2> HIDE DEF m
  <2>3. v \in Seq(Messages) /\ v = Append(c.sent, m) /\ n = c.next + 1 /\ w = c.next
    BY <1>3, <2>1
  <2> HIDE DEF v, n, w
  <2>4. d \in Connections
    BY <1>1, <2>1, <2>3, ZenonT(60) DEF Connections
  <2>5. Written(c, d, m) /\ d.next = n /\ d.awaited = w
    BY <1>1, <2>3 DEF Connections, Written, SameRest
  <2> HIDE DEF d
  <2>6. Taken(s, c, d)
    BY <1>1, <1>8, <2>3, <2>5 DEF Taken, m
  <2> QED
    BY <1>4, <1>5, <1>8, <2>2, <2>4, <2>6
<1>9. ASSUME ~c.up, call[s].what # "respond", conn' = [conn EXCEPT ![s] = Ended(c)],
             call' = [call EXCEPT ![s].stage = "failed"]
      PROVE  \E d \in Connections : Typed' /\ Becomes(s, d) /\ Taken(s, c, d)
  <2> DEFINE d == Ended(c)
  <2>1. d \in Connections /\ Ends(c, d) /\ conn' = [conn EXCEPT ![s] = d]
    BY <1>1, <1>9, EndedTyped
  <2> HIDE DEF d
  <2>2. Taken(s, c, d)
    BY <1>1, <1>9, <2>1 DEF Taken
  <2> QED
    BY <1>4, <1>5, <1>9, <2>1, <2>2
<1> QED
  BY <1>6, <1>7, <1>8, <1>9 DEF TakeCommand

\* One event is projected, or there was none.
Pumped(s, c, d) ==
  /\ d.mode = c.mode /\ d.asks = c.asks /\ d.held = c.held /\ d.wire = c.wire
  /\ d.notes = c.notes /\ d.skipped = c.skipped /\ d.worker = c.worker /\ d.next = c.next
  /\ d.awaited = c.awaited /\ d.sent = c.sent /\ d.up = c.up /\ d.open = c.open
  /\ \/ d = c /\ rows' = rows
     \/ LET e == Head(c.queue) IN
        /\ c.queue # <<>> /\ d.queue = Tail(c.queue) /\ d.told = c.told + Stands(e)
        /\ d.last = (IF e.kind = "note" THEN [n |-> e.n, lossless |-> e.lossless] ELSE c.last)
        /\ rows' = (IF e.kind # "ask" THEN rows
                    ELSE Append(rows, [ask |-> [sup |-> s, epoch |-> epoch[s], id |-> e.n],
                                       status |-> "pending"]))
\* What PumpOnce does to its connection.
LEMMA PumpStep ==
  ASSUME Typed, NEW s \in Clients, PumpOnce(s), NEW c, c = conn[s]
  PROVE  \E d \in Connections : Typed' /\ Becomes(s, d) /\ Pumped(s, c, d)
<1> DEFINE e == Head(c.queue)
<1>1. /\ c \in Connections /\ conn \in [Clients -> Connections] /\ rows \in Seq(Rows) /\ epoch[s] \in Nat
      /\ place[s] = "pump" /\ place' = [place EXCEPT ![s] = "responses"]
      /\ UNCHANGED <<epoch, call, todo, outbox, arrived>>
  BY DEF Typed, ClientTypes, PumpOnce
<1>2. ASSUME NEW d \in Connections, conn' = [conn EXCEPT ![s] = d], rows' \in Seq(Rows)
      PROVE  Typed' /\ Becomes(s, d)
  <2>1. Becomes(s, d)
    BY <1>1, <1>2, BecomesTyped
  <2>2. ClientTypes'
    BY <1>1, <1>2, <2>1 DEF Typed, ClientTypes, Becomes, Places
  <2>3. ASSUME NEW t \in Clients PROVE LoopInv(t)'
    <3>1. CASE t = s
      BY <1>1, <3>1 DEF Typed, ClientTypes, LoopInv
    <3>2. CASE t # s
      BY <1>1, <3>2 DEF Typed, ClientTypes, LoopInv
    <3> QED
      BY <3>1, <3>2
  <2> QED
    BY <2>1, <2>2, <2>3 DEF Typed
<1>3. CASE c.queue = <<>>
  <2>1. conn' = [conn EXCEPT ![s] = c] /\ rows' = rows
    BY <1>1, <1>3 DEF PumpOnce
  <2>2. Pumped(s, c, c)
    BY <1>1, <2>1 DEF Pumped
  <2> QED
    BY <1>1, <1>2, <2>1, <2>2
<1>4. CASE c.queue # <<>>
  <2> DEFINE q == Tail(c.queue)
             o == IF e.kind = "note" THEN c.told + 1 ELSE IF e.kind = "lag" THEN c.told + e.n ELSE c.told
             l == IF e.kind = "note" THEN [n |-> e.n, lossless |-> e.lossless] ELSE c.last
             d == [c EXCEPT !.queue = q, !.told = o, !.last = l]
             row == [ask |-> [sup |-> s, epoch |-> epoch[s], id |-> e.n], status |-> "pending"]
  <2>1. conn' = [conn EXCEPT ![s] = d]
    BY <1>1, <1>4 DEF PumpOnce
  <2>2. rows' = (IF e.kind # "ask" THEN rows ELSE Append(rows, row))
    BY <1>1, <1>4 DEF PumpOnce
  <2>3. e \in Events /\ q \in Seq(Events) /\ c.told \in Nat /\ c.last \in [n : Nat, lossless : BOOLEAN]
    BY <1>1, <1>4 DEF Connections
  <2> HIDE DEF e
  <2>4. o \in Nat /\ l \in [n : Nat, lossless : BOOLEAN] /\ o = c.told + Stands(e)
    BY <2>3 DEF Events, Kinds, Stands
  <2>5. row \in Rows
    BY <1>1, <2>3 DEF Rows, Asks, Events
  <2>6. rows' \in Seq(Rows)
    BY <1>1, <2>2, <2>5
  <2> HIDE DEF q, o, l
  <2>7. d \in Connections
    BY <1>1, <2>3, <2>4 DEF Connections
  <2>8. /\ d.mode = c.mode /\ d.asks = c.asks /\ d.held = c.held /\ d.wire = c.wire
        /\ d.notes = c.notes /\ d.skipped = c.skipped /\ d.worker = c.worker /\ d.next = c.next
        /\ d.awaited = c.awaited /\ d.sent = c.sent /\ d.up = c.up /\ d.open = c.open
        /\ d.queue = q /\ d.told = o /\ d.last = l
    BY <1>1 DEF Connections, SameRest
  <2> HIDE DEF d
  <2>9. Pumped(s, c, d)
    BY <1>4, <2>2, <2>4, <2>8 DEF Pumped, q, l, e
  <2> QED
    BY <1>2, <2>1, <2>6, <2>7, <2>9
<1> QED
  BY <1>3, <1>4

\* Steps of the loop and of the user that leave the connections alone.
LEMMA LoopTyped ==
  ASSUME Typed, NEW s \in Clients, conn' = conn, UNCHANGED <<epoch, arrived>>,
         NEW p \in Places, NEW r \in Calls, NEW l \in Seq(Entries) \cup Seq(Rows),
         place' = [place EXCEPT ![s] = p], call' = [call EXCEPT ![s] = r], todo' = [todo EXCEPT ![s] = l],
         outbox' \in Seq(Entries), rows' \in Seq(Rows),
         p = "respond" => l \in Seq(Rows), p = "control" => l \in Seq(Entries),
         p \notin {"respond", "control"} => l = <<>>,
         r.what = "resume" => p = "resume",
         r.what = "respond" => p = "respond" /\ r.item \in Asks,
         r.what = "control" => p = "control" /\ r.item \in Controls
  PROVE  Typed'
<1>1. ClientTypes'
  BY DEF Typed, ClientTypes
<1>2. ASSUME NEW t \in Clients PROVE LoopInv(t)'
  <2>1. CASE t = s
    <3>1. place'[s] = p /\ call'[s] = r /\ todo'[s] = l
      BY DEF Typed, ClientTypes
    <3> QED
      BY <2>1, <3>1 DEF LoopInv
  <2>2. CASE t # s
    <3>1. place'[t] = place[t] /\ call'[t] = call[t] /\ todo'[t] = todo[t]
      BY <2>2 DEF Typed, ClientTypes
    <3> QED
      BY <3>1 DEF Typed, LoopInv
  <2> QED
    BY <2>1, <2>2
<1> QED
  BY <1>1, <1>2 DEF Typed
LEMMA SameLoop ==
  ASSUME Typed, NEW s \in Clients
  PROVE  /\ place = [place EXCEPT ![s] = place[s]] /\ call = [call EXCEPT ![s] = call[s]]
         /\ todo = [todo EXCEPT ![s] = todo[s]]
         /\ place[s] \in Places /\ call[s] \in Calls /\ todo[s] \in Seq(Entries) \cup Seq(Rows)
         /\ outbox \in Seq(Entries) /\ rows \in Seq(Rows) /\ LoopInv(s) /\ NoCall \in Calls
BY DEF Typed, ClientTypes, NoCall, Calls, Stages, Whats, Items

LEMMA BeginTyped ==
  ASSUME Typed, NEW s \in Clients, NEW what \in Whats, NEW item \in Items, Begin(s, what, item),
         NEW l \in Seq(Entries) \cup Seq(Rows), todo' = [todo EXCEPT ![s] = l], place' = place,
         place[s] = "respond" => l \in Seq(Rows), place[s] = "control" => l \in Seq(Entries),
         place[s] \notin {"respond", "control"} => l = <<>>,
         what = "resume" => place[s] = "resume",
         what = "respond" => place[s] = "respond" /\ item \in Asks,
         what = "control" => place[s] = "control" /\ item \in Controls
  PROVE  Typed' /\ conn' = conn
<1> DEFINE r == [stage |-> "queued", what |-> what, item |-> item]
           p == place[s]
<1>1. r \in Calls /\ r.what = what /\ r.item = item /\ call' = [call EXCEPT ![s] = r]
  BY DEF Calls, Stages, Begin
<1>2. /\ p \in Places /\ place' = [place EXCEPT ![s] = p] /\ outbox' \in Seq(Entries) /\ rows' \in Seq(Rows)
      /\ conn' = conn /\ UNCHANGED <<epoch, arrived>>
  BY SameLoop DEF Begin
<1>3. /\ p = "respond" => l \in Seq(Rows) /\ (r.what = "respond" => p = "respond" /\ r.item \in Asks)
      /\ p = "control" => l \in Seq(Entries)
      /\ p \notin {"respond", "control"} => l = <<>>
      /\ r.what = "resume" => p = "resume"
      /\ r.what = "respond" => p = "respond" /\ r.item \in Asks
      /\ r.what = "control" => p = "control" /\ r.item \in Controls
  BY <1>1
<1> HIDE DEF r, p
<1> QED
  BY <1>1, <1>2, <1>3, LoopTyped

LEMMA QuietTyped ==
  ASSUME Typed, NEW s \in Clients,
         \/ Resume(s) \/ CallReturns(s) \/ ReadReady(s) \/ ReadControls(s)
         \/ DeliverResponse(s) \/ DeliverControl(s) \/ DeliveryDone(s)
  PROVE  Typed' /\ conn' = conn
<1>0. /\ place = [place EXCEPT ![s] = place[s]] /\ call = [call EXCEPT ![s] = call[s]]
      /\ todo = [todo EXCEPT ![s] = todo[s]]
      /\ place[s] \in Places /\ call[s] \in Calls /\ todo[s] \in Seq(Entries) \cup Seq(Rows)
      /\ outbox \in Seq(Entries) /\ rows \in Seq(Rows) /\ LoopInv(s) /\ NoCall \in Calls
      /\ <<>> \in Seq(Entries) \cup Seq(Rows) /\ NoCall.what = "none"
  BY SameLoop DEF NoCall
<1>1. CASE Resume(s)
  <2>1. /\ Begin(s, "resume", "none") /\ place' = place /\ todo' = [todo EXCEPT ![s] = todo[s]]
        /\ place[s] = "resume" /\ todo[s] = <<>> /\ "resume" \in Whats /\ "none" \in Items
    BY <1>0, <1>1 DEF Resume, LoopInv, Whats, Items
  <2> QED
    BY <1>0, <2>1, BeginTyped
<1>2. CASE CallReturns(s)
  <2>1. /\ call' = [call EXCEPT ![s] = NoCall] /\ todo' = [todo EXCEPT ![s] = todo[s]]
        /\ conn' = conn /\ UNCHANGED <<epoch, arrived>>
    BY <1>0, <1>2 DEF CallReturns
  <2>2. CASE call[s].what = "resume" /\ place' = [place EXCEPT ![s] = "responses"] /\ UNCHANGED <<outbox, rows>>
    <3>1. todo[s] = <<>> /\ "responses" \in Places
      BY <1>0, <2>2 DEF LoopInv, Places
    <3> QED
      BY <1>0, <2>1, <2>2, <3>1, LoopTyped
  <2>3. ASSUME place' = place, outbox' \in Seq(Entries), rows' \in Seq(Rows)
        PROVE  Typed'
    <3>1. place' = [place EXCEPT ![s] = place[s]]
      BY <1>0, <2>3
    <3>2. /\ place[s] = "respond" => todo[s] \in Seq(Rows)
          /\ place[s] = "control" => todo[s] \in Seq(Entries)
          /\ place[s] \notin {"respond", "control"} => todo[s] = <<>>
      BY <1>0 DEF LoopInv
    <3> QED
      BY <1>0, <2>1, <2>3, <3>1, <3>2, LoopTyped
  <2>4. ASSUME place' = place, outbox' = outbox,
               rows' = [i \in DOMAIN rows |->
                 IF rows[i].ask = call[s].item THEN [rows[i] EXCEPT !.status = "resolved"] ELSE rows[i]]
        PROVE  Typed'
    <3>1. ASSUME NEW i \in DOMAIN rows
          PROVE  (IF rows[i].ask = call[s].item THEN [rows[i] EXCEPT !.status = "resolved"] ELSE rows[i]) \in Rows
      <4>1. rows[i] \in Rows
        BY <1>0
      <4>2. [rows[i] EXCEPT !.status = "resolved"] \in Rows
        BY <4>1 DEF Rows
      <4> QED
        BY <4>1, <4>2
    <3>2. DOMAIN rows = 1..Len(rows) /\ Len(rows) \in Nat
      BY <1>0
    <3>3. rows' \in [1..Len(rows) -> Rows]
      BY <2>4, <3>1, <3>2
    <3>4. rows' \in Seq(Rows)
      BY <3>2, <3>3
    <3> QED
      BY <1>0, <2>3, <2>4, <3>4
  <2>5. ASSUME place' = place, rows' = rows,
               outbox' = [i \in DOMAIN outbox |->
                 IF outbox[i].control = call[s].item THEN [outbox[i] EXCEPT !.status = "sent"] ELSE outbox[i]]
        PROVE  Typed'
    <3>1. ASSUME NEW i \in DOMAIN outbox
          PROVE  (IF outbox[i].control = call[s].item THEN [outbox[i] EXCEPT !.status = "sent"]
                  ELSE outbox[i]) \in Entries
      <4>1. outbox[i] \in Entries
        BY <1>0
      <4>2. [outbox[i] EXCEPT !.status = "sent"] \in Entries
        BY <4>1 DEF Entries
      <4> QED
        BY <4>1, <4>2
    <3>2. DOMAIN outbox = 1..Len(outbox) /\ Len(outbox) \in Nat
      BY <1>0
    <3>3. outbox' \in [1..Len(outbox) -> Entries]
      BY <2>5, <3>1, <3>2
    <3>4. outbox' \in Seq(Entries)
      BY <3>2, <3>3
    <3> QED
      BY <1>0, <2>3, <2>5, <3>4
  <2> QED
    BY <1>2, <2>1, <2>2, <2>4, <2>5 DEF CallReturns
<1>3. CASE ReadReady(s)
  <2> DEFINE l == WithStatus("ready", rows)
  <2>1. l \in Seq(Rows)
    BY <1>0, WithStatusFinds
  <2>2. /\ todo' = [todo EXCEPT ![s] = l] /\ place' = [place EXCEPT ![s] = "respond"]
        /\ conn' = conn /\ UNCHANGED <<epoch, arrived>> /\ outbox' = outbox /\ rows' = rows
        /\ call' = [call EXCEPT ![s] = call[s]] /\ "respond" \in Places /\ place[s] = "responses"
    BY <1>0, <1>3 DEF ReadReady, Places
  <2> HIDE DEF l
  <2>3. call[s].what \notin {"resume", "respond", "control"}
    BY <1>0, <2>2 DEF LoopInv
  <2> QED
    BY <1>0, <2>1, <2>2, <2>3, LoopTyped
<1>4. CASE ReadControls(s)
  <2> DEFINE l == WithStatus("pending", outbox)
  <2>1. l \in Seq(Entries)
    BY <1>0, WithStatusFinds
  <2>2. /\ todo' = [todo EXCEPT ![s] = l] /\ place' = [place EXCEPT ![s] = "control"]
        /\ conn' = conn /\ UNCHANGED <<epoch, arrived>> /\ outbox' = outbox /\ rows' = rows
        /\ call' = [call EXCEPT ![s] = call[s]] /\ "control" \in Places /\ call[s] = NoCall
    BY <1>0, <1>4 DEF ReadControls, Places
  <2> HIDE DEF l
  <2> QED
    BY <1>0, <2>1, <2>2, LoopTyped
<1>5. CASE DeliverResponse(s)
  <2>1. /\ Begin(s, "respond", Head(todo[s]).ask) /\ place' = place
        /\ todo' = [todo EXCEPT ![s] = Tail(todo[s])]
        /\ place[s] = "respond" /\ todo[s] # <<>> /\ todo[s] \in Seq(Rows)
    BY <1>0, <1>5 DEF DeliverResponse, LoopInv
  <2>2. Head(todo[s]) \in Rows /\ Tail(todo[s]) \in Seq(Rows)
    BY <2>1
  <2>3. Head(todo[s]).ask \in Asks /\ Head(todo[s]).ask \in Items /\ "respond" \in Whats
    BY <2>2 DEF Rows, Items, Whats
  <2> QED
    BY <1>0, <2>1, <2>2, <2>3, BeginTyped
<1>6. CASE DeliverControl(s)
  <2>1. /\ Begin(s, "control", Head(todo[s]).control) /\ place' = place
        /\ todo' = [todo EXCEPT ![s] = Tail(todo[s])]
        /\ place[s] = "control" /\ todo[s] # <<>> /\ todo[s] \in Seq(Entries)
    BY <1>0, <1>6 DEF DeliverControl, LoopInv
  <2>2. Head(todo[s]) \in Entries /\ Tail(todo[s]) \in Seq(Entries)
    BY <2>1
  <2>3. Head(todo[s]).control \in Controls /\ Head(todo[s]).control \in Items /\ "control" \in Whats
    BY <2>2 DEF Entries, Items, Whats
  <2> QED
    BY <1>0, <2>1, <2>2, <2>3, BeginTyped
<1>7. CASE DeliveryDone(s)
  <2>1. /\ todo' = [todo EXCEPT ![s] = todo[s]] /\ place' = [place EXCEPT ![s] = "pump"]
        /\ conn' = conn /\ UNCHANGED <<epoch, arrived>> /\ outbox' = outbox /\ rows' = rows
        /\ call' = [call EXCEPT ![s] = call[s]] /\ "pump" \in Places /\ call[s] = NoCall /\ todo[s] = <<>>
    BY <1>0, <1>7 DEF DeliveryDone, Places
  <2> QED
    BY <1>0, <2>1, LoopTyped
<1> QED
  BY <1>1, <1>2, <1>3, <1>4, <1>5, <1>6, <1>7

LEMMA UserTyped ==
  ASSUME Typed, (\E c \in Controls : QueueControl(c)) \/ \E i \in DOMAIN rows : AnswerRequest(i)
  PROVE  Typed' /\ conn' = conn
<1>0. outbox \in Seq(Entries) /\ rows \in Seq(Rows)
  BY DEF Typed, ClientTypes
<1>1. ASSUME NEW c \in Controls, QueueControl(c) PROVE Typed' /\ conn' = conn
  <2>1. [control |-> c, status |-> "pending"] \in Entries
    BY DEF Entries
  <2>2. outbox' \in Seq(Entries)
    BY <1>0, <1>1, <2>1 DEF QueueControl
  <2> QED
    BY <1>1, <2>2 DEF QueueControl, Typed, ClientTypes, LoopInv
<1>2. ASSUME NEW i \in DOMAIN rows, AnswerRequest(i) PROVE Typed' /\ conn' = conn
  <2>1. rows[i] \in Rows
    BY <1>0
  <2>2. rows' \in Seq(Rows)
    <3> DEFINE r == [rows[i] EXCEPT !.status = "ready"]
    <3>1. r \in Rows /\ rows' = [rows EXCEPT ![i] = r]
      BY <1>2, <2>1 DEF AnswerRequest, Rows
    <3> HIDE DEF r
    <3> QED
      BY <1>0, <3>1
  <2> QED
    BY <1>2, <2>2 DEF AnswerRequest, Typed, ClientTypes, LoopInv
<1> QED
  BY <1>1, <1>2

NotesInv == \A s \in Clients : Counts(conn[s])

LEMMA TypedQueues ==
  ASSUME Typed, NEW s \in Clients
  PROVE  Queues(conn[s]) /\ conn[s] \in Connections
<1>1. conn[s] \in Connections
  BY DEF Typed, ClientTypes
<1> QED
  BY <1>1 DEF Connections, Queues

LEMMA FreshCounts ==
  ASSUME NEW mode \in {"stdio", "daemon"}
  PROVE  Counts(Connected(mode)) /\ Counts(Closed)
<1>1. \A m \in {"stdio", "daemon"} : Counts(Connected(m))
  <2> SUFFICES ASSUME NEW m \in {"stdio", "daemon"} PROVE Counts(Connected(m))
    OBVIOUS
  <2> DEFINE c == Connected(m)
  <2>1. /\ c.wire = <<>> /\ c.queue = <<>> /\ c.held = <<>> /\ c.told = 0 /\ c.notes = 0
        /\ c.skipped = 0 /\ c.last = Nothing
    BY DEF Connected
  <2> HIDE DEF c
  <2>2. Counts(c)
    BY <2>1, NewCounts
  <2> QED
    BY <2>2 DEF c
<1>2. Counts(Closed)
  <2> DEFINE c == Closed
  <2>1. /\ c.wire = <<>> /\ c.queue = <<>> /\ c.held = <<>> /\ c.told = 0 /\ c.notes = 0
        /\ c.skipped = 0 /\ c.last = Nothing
    BY DEF Closed, Connected
  <2> HIDE DEF c
  <2>2. Counts(c)
    BY <2>1, NewCounts
  <2> QED
    BY <2>2 DEF c
<1> QED
  BY <1>1, <1>2

LEMMA InitTyped == ClientInit => Typed /\ NotesInv
<1> SUFFICES ASSUME ClientInit PROVE Typed /\ NotesInv
  OBVIOUS
<1>1. Closed \in Connections /\ Counts(Closed) /\ NoCall \in Calls
  BY FreshTyped, FreshCounts DEF NoCall, Calls, Stages, Whats, Items
<1>2. ClientTypes
  BY <1>1 DEF ClientInit, ClientTypes, Places
<1>3. \A s \in Clients : LoopInv(s)
  BY DEF ClientInit, LoopInv, NoCall
<1>4. NotesInv
  BY <1>1 DEF ClientInit, NotesInv
<1> QED
  BY <1>2, <1>3, <1>4 DEF Typed

\* What a step of s does, whatever it is.
Fresh(s) ==
  \E mode \in {"stdio", "daemon"} : Leave(s) \/ Connect(s, mode)
Quiet(s) ==
  \/ Resume(s) \/ CallReturns(s) \/ ReadReady(s) \/ ReadControls(s)
  \/ DeliverResponse(s) \/ DeliverControl(s) \/ DeliveryDone(s)
\* The steps of the specification, by what they touch.
LEMMA StepsOf ==
  ASSUME ClientNext
  PROVE  \/ \E s \in Clients :
              \/ Fresh(s) \/ Quiet(s)
              \/ TakeCommand(s) \/ RouteMessage(s) \/ EnterQueue(s) \/ EndOfStream(s)
              \/ PumpOnce(s) \/ Handle(s) \/ Notify(s) \/ ServerAsks(s) \/ ServerExits(s)
         \/ (\E c \in Controls : QueueControl(c)) \/ \E i \in DOMAIN rows : AnswerRequest(i)
<1>1. ASSUME NEW s \in Clients, StartSupervisor(s) \/ CallFails(s) \/ CommandRefused(s) \/ Reconnect(s)
                               \/ TimesOut(s) \/ Leave(s)
      PROVE  Fresh(s)
  BY <1>1 DEF Fresh, StartSupervisor, CallFails, CommandRefused, Reconnect, TimesOut
<1> QED
  BY <1>1 DEF ClientNext, Worker, Loop, Quiet

LEMMA FreshStep ==
  ASSUME Typed, NEW s \in Clients, Fresh(s)
  PROVE  /\ Typed' /\ UNCHANGED <<outbox, rows, arrived>>
         /\ \E mode \in {"stdio", "daemon"} :
              \/ Becomes(s, Connected(mode)) /\ Connect(s, mode)
              \/ Becomes(s, Closed) /\ Leave(s)
<1>1. PICK mode \in {"stdio", "daemon"} : Leave(s) \/ Connect(s, mode)
  BY DEF Fresh
<1>2. CASE Leave(s)
  BY <1>2, LeaveTyped DEF Leave
<1>3. CASE Connect(s, mode)
  BY <1>3, ConnectTyped DEF Connect
<1> QED
  BY <1>1, <1>2, <1>3

LEMMA NotesOfOne ==
  ASSUME NotesInv, NEW s \in Clients, NEW d \in Connections, Becomes(s, d), Counts(d)
  PROVE  NotesInv'
<1>1. ASSUME NEW t \in Clients PROVE Counts(conn'[t])
  <2>1. CASE t = s
    BY <2>1 DEF Becomes
  <2>2. CASE t # s
    BY <2>2 DEF Becomes, NotesInv
  <2> QED
    BY <2>1, <2>2
<1> QED
  BY <1>1 DEF NotesInv

\* Every step keeps the types and the count of notifications.
LEMMA NextNotes == Typed /\ NotesInv /\ ClientNext => Typed' /\ NotesInv'
<1> SUFFICES ASSUME Typed, NotesInv, ClientNext PROVE Typed' /\ NotesInv'
  OBVIOUS
<1>1. CASE (\E c \in Controls : QueueControl(c)) \/ \E i \in DOMAIN rows : AnswerRequest(i)
  BY <1>1, UserTyped DEF NotesInv
<1>2. ASSUME NEW s \in Clients,
             \/ Fresh(s) \/ Quiet(s)
             \/ TakeCommand(s) \/ RouteMessage(s) \/ EnterQueue(s) \/ EndOfStream(s)
             \/ PumpOnce(s) \/ Handle(s) \/ Notify(s) \/ ServerAsks(s) \/ ServerExits(s)
      PROVE  Typed' /\ NotesInv'
  <2> DEFINE c == conn[s]
  <2>0. Queues(c) /\ Counts(c) /\ c \in Connections
    BY TypedQueues DEF NotesInv
  <2> HIDE DEF c
  <2>c. c = conn[s]
    BY DEF c
  <2>1. CASE Fresh(s)
    <3>1. Typed' /\ \E mode \in {"stdio", "daemon"} : Becomes(s, Connected(mode)) \/ Becomes(s, Closed)
      BY <2>1, FreshStep
    <3>2. PICK mode \in {"stdio", "daemon"} : Becomes(s, Connected(mode)) \/ Becomes(s, Closed)
      BY <3>1
    <3>3. Connected(mode) \in Connections /\ Closed \in Connections /\ Counts(Connected(mode)) /\ Counts(Closed)
      BY FreshTyped, FreshCounts
    <3> QED
      BY <3>1, <3>2, <3>3, NotesOfOne
  <2>2. CASE Quiet(s)
    BY <2>2, QuietTyped DEF Quiet, NotesInv
  <2>3. CASE TakeCommand(s)
    <3>1. PICK d \in Connections : Typed' /\ Becomes(s, d) /\ Taken(s, c, d)
      BY <2>3, <2>c, TakeStep
    <3>2. CASE SameCounts(c, d)
      BY <2>0, <3>1, <3>2, SameCountsStep, NotesOfOne
    <3>3. CASE Ends(c, d)
      <4>1. Counts(d)
        BY <2>0, <3>1, <3>3, EndCounts DEF Ends, SameRest, Taken
      <4> QED
        BY <3>1, <4>1, NotesOfOne
    <3>4. SameCounts(c, d) \/ Ends(c, d)
      BY <3>1 DEF Taken, Written, SameCounts, SameRest
    <3> QED
      BY <3>2, <3>3, <3>4
  <2>4. CASE RouteMessage(s)
    <3>1. PICK d \in Connections : Typed' /\ Becomes(s, d) /\ Routed(s, c, d)
      BY <2>4, <2>c, RouteStep
    <3> DEFINE m == Head(c.wire)
    <3>2. Counts(d)
      <4>1. /\ c.worker = "on" /\ c.held = <<>> /\ c.wire # <<>>
            /\ d.wire = Tail(c.wire) /\ d.told = c.told /\ d.notes = c.notes /\ d.worker = c.worker
            /\ d.last = c.last
        BY <3>1 DEF Routed, SameRest
      <4>2. \/ /\ Head(c.wire).kind \in {"reply", "ask"}
               /\ d.queue = c.queue /\ d.held = c.held /\ d.skipped = c.skipped
            \/ /\ Head(c.wire).lossless
               /\ d.queue = c.queue /\ d.held = Announced(c.skipped, Head(c.wire)) /\ d.skipped = 0
            \/ /\ ~Head(c.wire).lossless
               /\ d.queue = Append(c.queue, Head(c.wire)) /\ d.held = c.held /\ d.skipped = c.skipped
            \/ /\ ~Head(c.wire).lossless
               /\ d.queue = c.queue /\ d.held = c.held /\ d.skipped = c.skipped + 1
        BY <3>1 DEF Routed
      <4> QED
        BY <2>0, <4>1, <4>2, RouteCounts
    <3> QED
      BY <3>1, <3>2, NotesOfOne
  <2>5. CASE EnterQueue(s)
    <3>1. PICK d \in Connections :
             /\ Typed' /\ Becomes(s, d) /\ SameRest(c, d)
             /\ d.queue = Append(c.queue, Head(c.held)) /\ d.held = Tail(c.held) /\ c.held # <<>>
             /\ d.worker = (IF c.worker = "ending" /\ Len(c.held) = 1 THEN "gone" ELSE c.worker)
             /\ d.wire = c.wire /\ d.skipped = c.skipped /\ d.notes = c.notes
      BY <2>5, <2>c, EnterStep
    <3>2. d.told = c.told /\ d.last = c.last /\ (d.worker = "on" => c.worker = "on")
      BY <3>1 DEF SameRest
    <3>3. Counts(d)
      BY <2>0, <3>1, <3>2, EnterCounts
    <3> QED
      BY <3>1, <3>3, NotesOfOne
  <2>6. CASE EndOfStream(s)
    <3>1. PICK d \in Connections : Typed' /\ Becomes(s, d) /\ Ends(c, d) /\ c.held = <<>>
      BY <2>6, <2>c, EndStep
    <3>2. Counts(d)
      BY <2>0, <3>1, EndCounts DEF Ends, SameRest
    <3> QED
      BY <3>1, <3>2, NotesOfOne
  <2>7. CASE PumpOnce(s)
    <3>1. PICK d \in Connections : Typed' /\ Becomes(s, d) /\ Pumped(s, c, d)
      BY <2>7, <2>c, PumpStep
    <3>2. CASE d = c
      BY <2>0, <3>1, <3>2, NotesOfOne
    <3>3. CASE d # c
      <4>1. /\ c.queue # <<>> /\ d.queue = Tail(c.queue) /\ d.told = c.told + Stands(Head(c.queue))
            /\ d.last = (IF Head(c.queue).kind = "note"
                         THEN [n |-> Head(c.queue).n, lossless |-> Head(c.queue).lossless] ELSE c.last)
            /\ d.held = c.held /\ d.wire = c.wire /\ d.notes = c.notes /\ d.skipped = c.skipped
            /\ d.worker = c.worker
        BY <3>1, <3>3 DEF Pumped
      <4>2. Counts(d)
        BY <2>0, <4>1, PumpCounts
      <4> QED
        BY <3>1, <4>2, NotesOfOne
    <3> QED
      BY <3>2, <3>3
  <2>8. CASE Handle(s)
    <3>0. PICK d \in Connections, m \in Messages : Typed' /\ Becomes(s, d) /\ Handled(c, d, m)
      BY <2>8, <2>c, HandleStep
    <3>1. /\ Typed' /\ Becomes(s, d) /\ SameRest(c, d)
          /\ d.wire = (IF m.what = "respond" THEN c.wire ELSE Append(c.wire, Reply(m.id)))
          /\ d.queue = c.queue /\ d.held = c.held /\ d.worker = c.worker /\ d.notes = c.notes
          /\ d.skipped = c.skipped
      BY <3>0 DEF Handled
    <3>2. CASE m.what = "respond"
      <4>1. SameCounts(c, d)
        BY <3>1, <3>2 DEF SameCounts, SameRest
      <4> QED
        BY <2>0, <3>1, <4>1, SameCountsStep, NotesOfOne
    <3>3. CASE m.what # "respond"
      <4> DEFINE e == Reply(m.id)
      <4>1. e \in Events /\ Stands(e) = 0 /\ e.kind = "reply" /\ e.lossless
        BY DEF Messages, Reply, Events, Kinds, Stands
      <4>2. /\ d.queue = c.queue /\ d.held = c.held /\ d.wire = Append(c.wire, e) /\ d.told = c.told
            /\ d.notes = c.notes + Stands(e) /\ d.skipped = c.skipped /\ d.worker = c.worker /\ d.last = c.last
        BY <2>0, <3>1, <3>3, <4>1 DEF SameRest, Queues
      <4> HIDE DEF e
      <4>3. Counts(d)
        BY <2>0, <4>1, <4>2, ArriveCounts
      <4> QED
        BY <3>1, <4>3, NotesOfOne
    <3> QED
      BY <3>2, <3>3
  <2>9. CASE Notify(s)
    <3>1. PICK d \in Connections, lossless \in BOOLEAN :
           /\ Typed' /\ Becomes(s, d) /\ SameRest(c, d)
           /\ d.wire = Append(c.wire, Note(c.notes + 1, lossless)) /\ d.notes = c.notes + 1
           /\ d.queue = c.queue /\ d.held = c.held /\ d.worker = c.worker
           /\ d.skipped = c.skipped
      BY <2>9, <2>c, NotifyStep
    <3> DEFINE e == Note(c.notes + 1, lossless)
    <3>2. c.notes \in Nat
      BY <2>0 DEF Queues
    <3>3. e \in Events /\ Stands(e) = 1 /\ e.kind = "note" /\ e.n = c.notes + 1
      BY <3>2 DEF Note, Events, Kinds, Stands
    <3> HIDE DEF e
    <3>4. /\ d.queue = c.queue /\ d.held = c.held /\ d.wire = Append(c.wire, e) /\ d.told = c.told
          /\ d.notes = c.notes + Stands(e) /\ d.skipped = c.skipped /\ d.worker = c.worker /\ d.last = c.last
          /\ e.n = d.notes
      BY <3>1, <3>3 DEF SameRest, e
    <3>5. Counts(d)
      BY <2>0, <3>3, <3>4, ArriveCounts
    <3> QED
      BY <3>1, <3>5, NotesOfOne
  <2>10. CASE ServerAsks(s)
    <3>0. PICK d \in Connections, id \in Nat : Typed' /\ Becomes(s, d) /\ AsksOne(c, d, id)
      BY <2>10, <2>c, AskStep
    <3>1. /\ Typed' /\ Becomes(s, d) /\ id >= AskBase
          /\ d.last = c.last /\ d.told = c.told
          /\ d.wire = Append(c.wire, Question(id)) /\ d.notes = c.notes
          /\ d.queue = c.queue /\ d.held = c.held /\ d.worker = c.worker
          /\ d.skipped = c.skipped
      BY <3>0 DEF AsksOne
    <3> DEFINE e == Question(id)
    <3>2. e \in Events /\ Stands(e) = 0 /\ e.kind = "ask" /\ e.n = id /\ e.lossless
      BY DEF Question, Events, Kinds, Stands
    <3>3. c.notes \in Nat
      BY <2>0 DEF Queues
    <3>4. d.wire = Append(c.wire, e) /\ d.notes = c.notes + Stands(e) /\ e.n >= AskBase
      BY <3>1, <3>2, <3>3
    <3> HIDE DEF e
    <3>5. Counts(d)
      BY <2>0, <3>1, <3>2, <3>4, ArriveCounts
    <3> QED
      BY <3>1, <3>5, NotesOfOne
  <2>11. CASE ServerExits(s)
    <3>1. PICK d \in Connections :
           /\ Typed' /\ Becomes(s, d) /\ SameRest(c, d)
           /\ d.wire = c.wire /\ d.notes = c.notes
           /\ d.queue = c.queue /\ d.held = c.held /\ d.worker = c.worker /\ d.skipped = c.skipped
      BY <2>11, <2>c, ExitStep
    <3>2. SameCounts(c, d)
      BY <3>1 DEF SameCounts, SameRest
    <3> QED
      BY <2>0, <3>1, <3>2, SameCountsStep, NotesOfOne
  <2> QED
    BY <1>2, <2>1, <2>2, <2>3, <2>4, <2>5, <2>6, <2>7, <2>8, <2>9, <2>10, <2>11
<1> QED
  BY <1>1, <1>2, StepsOf

\* The types and the count of notifications hold in every state.
LEMMA NotesHold == ClientSpec => [](Typed /\ NotesInv)
<1>1. Typed /\ NotesInv /\ UNCHANGED clientVars => Typed' /\ NotesInv'
  BY DEF clientVars, Typed, ClientTypes, LoopInv, NotesInv
<1> QED
  BY <1>1, InitTyped, NextNotes, PTL DEF ClientSpec

\* No notification of a live connection goes missing uncounted, and none is projected
\* before everything the server sent before it was projected or announced as lag.
THEOREM NotificationsAddUp == ClientSpec => [](NotesAddUp /\ LagComesFirst)
<1>1. Typed /\ NotesInv => NotesAddUp /\ LagComesFirst
  <2> SUFFICES ASSUME Typed, NotesInv PROVE NotesAddUp /\ LagComesFirst
    OBVIOUS
  <2>1. LagComesFirst
    BY DEF NotesInv, Counts, LagComesFirst
  <2>2. ASSUME NEW s \in Clients, conn[s].worker = "on"
        PROVE  conn[s].told + Accounted(Carried(conn[s])) + conn[s].skipped = conn[s].notes
    <3> DEFINE c == conn[s]
               r == c.queue \o c.held
    <3>1. /\ c.told \in Nat /\ c.skipped \in Nat /\ r \in Seq(Events) /\ c.wire \in Seq(Events)
          /\ Carried(c) = r \o c.wire
      BY TypedQueues DEF Queues, Carried
    <3>2. c.told + Accounted(r) + Accounted(c.wire) + c.skipped = c.notes
      BY <2>2 DEF NotesInv, Counts
    <3> HIDE DEF r, c
    <3>3. /\ Accounted(Carried(c)) = Accounted(r) + Accounted(c.wire)
          /\ Accounted(r) \in Nat /\ Accounted(c.wire) \in Nat
      BY <3>1, AccountedConcat
    <3>4. c.told + Accounted(Carried(c)) + c.skipped = c.notes
      BY <3>1, <3>2, <3>3
    <3> QED
      BY <3>4 DEF c
  <2> QED
    BY <2>1, <2>2 DEF NotesAddUp
<1> QED
  BY <1>1, NotesHold, PTL

\* ---- calls, numbers, questions
In(e, q) == \E i \in 1..Len(q) : q[i] = e
OutControls == {outbox[i].control : i \in 1..Len(outbox)}
SentControls == {outbox[i].control : i \in {j \in 1..Len(outbox) : outbox[j].status = "sent"}}
TodoControls(s) == {todo[s][i].control : i \in 1..Len(todo[s])}
RowAsks == {rows[i].ask : i \in 1..Len(rows)}
\* The controls that the loop of s still asks for.
InHand(s) ==
  (IF place[s] = "control" THEN TodoControls(s) ELSE {})
    \cup (IF call[s].what = "control" THEN {call[s].item} ELSE {})
\* Every control is queued once, and is once in the hands of a loop.
OutboxInv == \A i, j \in 1..Len(outbox) : outbox[i].control = outbox[j].control => i = j
HandInv(s) ==
  place[s] = "control" =>
    /\ \A i, j \in 1..Len(todo[s]) : todo[s][i].control = todo[s][j].control => i = j
    /\ call[s].what = "control" => call[s].item \notin TodoControls(s)
    /\ InHand(s) \subseteq OutControls
\* So a connection numbers one call for the thread and one for each control.
Asked(s) == SentControls \ InHand(s)
First(s) == IF call[s].stage \in {"none", "queued"} /\ place[s] \in {"off", "resume"} THEN 1 ELSE 2
Asking(s) == IF call[s].what = "control" /\ call[s].stage # "queued" THEN 1 ELSE 0
NumberInv(s) == conn[s].next >= 1 /\ conn[s].next <= First(s) + Cardinality(Asked(s)) + Asking(s)
StageInv(s) == call[s].stage = "none" \/ call[s].what = "none" => call[s] = NoCall
\* The answer that connection c awaits is the one to the call r.
Answers(c, r, got) ==
  /\ c.awaited # 0 => r.stage = "written" /\ r.what # "respond"
  /\ c.awaited < c.next
  /\ \A i \in 1..Len(c.sent) : c.sent[i].what # "respond" =>
       /\ c.sent[i].id \in 1..c.next - 1
       /\ c.sent[i].id = c.awaited => c.sent[i].what = r.what /\ c.sent[i].item = r.item
  /\ \A i \in 1..Len(c.wire) : c.wire[i].kind = "reply" =>
       /\ c.wire[i].n \in 1..c.next - 1
       /\ c.wire[i].n = c.awaited /\ r.what = "control" => r.item \in got
  /\ r.what = "control" /\ r.stage = "answered" => r.item \in got
AnswerInv(s) == Answers(conn[s], call[s], arrived)
\* A question that the server waits for is on its way or in the table.
Carries(c, id) == In(Question(id), c.queue) \/ In(Question(id), c.held) \/ In(Question(id), c.wire)
QuestionInv(s) ==
  conn[s].worker = "on" =>
    \A id \in conn[s].open :
      Carries(conn[s], id) \/ [sup |-> s, epoch |-> epoch[s], id |-> id] \in RowAsks
CallInv(s) == StageInv(s) /\ HandInv(s) /\ NumberInv(s) /\ AnswerInv(s) /\ QuestionInv(s)
ClientInv ==
  /\ Typed /\ NotesInv /\ OutboxInv /\ SentControls \subseteq arrived /\ \A s \in Clients : CallInv(s)

FiniteAndFar == IsFiniteSet(Controls) /\ AskBase > Cardinality(Controls) + 1

\* What is in a queue after an append, and before a removal.
LEMMA InMoves ==
  ASSUME NEW q \in Seq(Events), NEW e \in Events, NEW x
  PROVE  /\ In(e, Append(q, e)) /\ (In(x, q) => In(x, Append(q, e)))
         /\ (q # <<>> /\ In(x, q) => x = Head(q) \/ In(x, Tail(q)))
<1>1. Len(Append(q, e)) = Len(q) + 1 /\ Append(q, e)[Len(q) + 1] = e
      /\ \A i \in 1..Len(q) : Append(q, e)[i] = q[i] /\ i \in 1..Len(q) + 1
  BY AfterAppend
<1>2. In(e, Append(q, e)) /\ (In(x, q) => In(x, Append(q, e)))
  BY <1>1 DEF In
<1>3. ASSUME q # <<>>, In(x, q), x # Head(q) PROVE In(x, Tail(q))
  <2>1. PICK i \in 1..Len(q) : q[i] = x
    BY <1>3 DEF In
  <2>2. i # 1
    BY <1>3, <2>1
  <2>3. i - 1 \in 1..Len(Tail(q)) /\ Tail(q)[i - 1] = x
    BY <1>3, <2>1, <2>2
  <2> QED
    BY <2>3 DEF In
<1> QED
  BY <1>2, <1>3

\* What is sent was queued, and what is queued is a control.
LEMMA Boxes ==
  ASSUME Typed
  PROVE  SentControls \subseteq OutControls /\ OutControls \subseteq Controls
<1>1. \A i \in 1..Len(outbox) : outbox[i] \in Entries
  BY DEF Typed, ClientTypes
<1> QED
  BY <1>1 DEF SentControls, OutControls, Entries

\* The ids of the server's questions are above those of the calls.
LEMMA NumbersAreFar ==
  ASSUME FiniteAndFar, Typed, NEW s \in Clients, HandInv(s), NumberInv(s)
  PROVE  conn[s].next \in Nat /\ conn[s].next <= AskBase
<1>1. conn[s].next \in Nat
  BY TypedQueues DEF Connections
<1>2. /\ Asked(s) \subseteq Controls /\ IsFiniteSet(Asked(s)) /\ Cardinality(Controls) \in Nat
      /\ Cardinality(Asked(s)) \in Nat /\ Cardinality(Asked(s)) <= Cardinality(Controls)
  <2>1. Asked(s) \subseteq Controls
    BY Boxes DEF Asked
  <2> QED
    BY <2>1, FS_Subset, FS_CardinalityType DEF FiniteAndFar
<1>3. Asking(s) = 1 => Cardinality(Asked(s)) <= Cardinality(Controls) - 1
  <2> SUFFICES ASSUME Asking(s) = 1 PROVE Cardinality(Asked(s)) <= Cardinality(Controls) - 1
    OBVIOUS
  <2>1. call[s].what = "control"
    BY DEF Asking
  <2>2. call[s].item \in Controls
    BY <2>1 DEF Typed, LoopInv
  <2>3. Asked(s) \subseteq Controls \ {call[s].item}
    BY <1>2, <2>1 DEF Asked, InHand
  <2>4. IsFiniteSet(Controls \ {call[s].item})
        /\ Cardinality(Controls \ {call[s].item}) = Cardinality(Controls) - 1
    BY <2>2, FS_RemoveElement DEF FiniteAndFar
  <2> QED
    BY <2>3, <2>4, FS_Subset
<1>4. First(s) \in {1, 2} /\ Asking(s) \in {0, 1}
  BY DEF First, Asking
<1> DEFINE a == Cardinality(Asked(s))
           k == Cardinality(Controls)
           n == conn[s].next
           f == First(s)
           g == Asking(s)
<1>5. /\ a \in Nat /\ k \in Nat /\ n \in Nat /\ f \in {1, 2} /\ g \in {0, 1} /\ a <= k /\ (g = 1 => a <= k - 1)
      /\ AskBase \in Nat /\ AskBase > k + 1 /\ n <= f + a + g
  BY <1>1, <1>2, <1>3, <1>4, ClientAssumption DEF NumberInv, FiniteAndFar
<1> HIDE DEF a, k, n, f, g
<1>6. n <= AskBase
  BY <1>5
<1> QED
  BY <1>1, <1>6 DEF n

\* What a step of one supervisor leaves to every other.
LEMMA OthersKeep ==
  ASSUME FiniteAndFar, Typed, NEW t \in Clients, CallInv(t), conn'[t] = conn[t], call'[t] = call[t],
         place'[t] = place[t], todo'[t] = todo[t], epoch'[t] = epoch[t], arrived \subseteq arrived',
         SentControls \subseteq SentControls', SentControls' \subseteq Controls,
         OutControls \subseteq OutControls', RowAsks \subseteq RowAsks'
  PROVE  CallInv(t)'
<1>1. StageInv(t)'
  BY DEF CallInv, StageInv, NoCall
<1>2. InHand(t)' = InHand(t) /\ TodoControls(t)' = TodoControls(t)
  BY DEF InHand, TodoControls
<1>3. HandInv(t)'
  BY <1>2 DEF CallInv, HandInv
<1>4. NumberInv(t)'
  <2>1. /\ First(t)' = First(t) /\ Asking(t)' = Asking(t)
        /\ First(t) \in Nat /\ Asking(t) \in Nat /\ conn[t].next \in Nat
    BY TypedQueues DEF First, Asking, Connections
  <2>2. /\ Asked(t) \subseteq Asked(t)' /\ IsFiniteSet(Asked(t)') /\ Cardinality(Asked(t)) \in Nat
        /\ Cardinality(Asked(t)') \in Nat /\ Cardinality(Asked(t)) <= Cardinality(Asked(t)')
    <3>1. Asked(t) \subseteq Asked(t)' /\ Asked(t)' \subseteq Controls
      BY <1>2 DEF Asked
    <3>2. IsFiniteSet(Asked(t)')
      BY <3>1, FS_Subset DEF FiniteAndFar
    <3> QED
      BY <3>1, <3>2, FS_Subset, FS_CardinalityType
  <2> QED
    BY <2>1, <2>2 DEF CallInv, NumberInv
<1>5. AnswerInv(t)'
  BY DEF CallInv, AnswerInv, Answers
<1>6. QuestionInv(t)'
  BY DEF CallInv, QuestionInv, Carries
<1> QED
  BY <1>1, <1>3, <1>4, <1>5, <1>6 DEF CallInv

\* A step of a connection, and what it leaves to show.
Numbered(c, d, r, stage) ==
  \/ d.next = c.next /\ (r.stage \in {"none", "queued"} \/ stage \notin {"none", "queued"})
  \/ d.next = c.next + 1 /\ r.stage = "queued" /\ stage = "written" /\ r.what \in {"resume", "control"}
\* A step of one connection keeps the invariant when it keeps the answers and the questions.
LEMMA ConnCalls ==
  ASSUME FiniteAndFar, ClientInv, Typed', NotesInv', NEW s \in Clients, NEW d \in Connections,
         Becomes(s, d), UNCHANGED <<epoch, place, todo, outbox, rows>>, arrived \subseteq arrived',
         NEW stage \in Stages, call' = [call EXCEPT ![s].stage = stage],
         call[s].stage = "none" => stage = "none", stage = "none" => call[s].stage = "none",
         Numbered(conn[s], d, call[s], stage),
         Answers(d, [call[s] EXCEPT !.stage = stage], arrived'),
         d.worker = "on" => \A id \in d.open :
           Carries(d, id) \/ [sup |-> s, epoch |-> epoch[s], id |-> id] \in RowAsks
  PROVE  ClientInv'
<1>1. /\ SentControls' = SentControls /\ OutControls' = OutControls /\ RowAsks' = RowAsks
      /\ SentControls \subseteq Controls /\ CallInv(s)
      /\ TodoControls(s)' = TodoControls(s)
  BY Boxes DEF ClientInv, SentControls, OutControls, RowAsks, TodoControls
<1>2. OutboxInv' /\ SentControls' \subseteq arrived'
  BY <1>1 DEF ClientInv, OutboxInv
<1> DEFINE r == [call[s] EXCEPT !.stage = stage]
<1>3. /\ call[s] \in Calls /\ call'[s] = r /\ r.stage = stage /\ r.what = call[s].what /\ r.item = call[s].item
      /\ \A t \in Clients : t # s => call'[t] = call[t]
  <2>1. call \in [Clients -> Calls] /\ call' = [call EXCEPT ![s] = r]
    BY DEF ClientInv, Typed, ClientTypes
  <2>2. call[s] \in Calls
    BY <2>1
  <2>3. r.stage = stage /\ r.what = call[s].what /\ r.item = call[s].item
    BY <2>2 DEF Calls
  <2> HIDE DEF r
  <2> QED
    BY <2>1, <2>2, <2>3
<1>4. ASSUME NEW t \in Clients, t # s PROVE CallInv(t)'
  <2>1. conn'[t] = conn[t] /\ call'[t] = call[t] /\ Typed /\ CallInv(t)
    BY <1>3, <1>4 DEF Becomes, ClientInv
  <2> QED
    BY <1>1, <2>1, OthersKeep
<1>5. CallInv(s)'
  <2>1. StageInv(s)'
    <3>1. CASE call[s].stage = "none" \/ call[s].what = "none"
      <4>1. call[s] = NoCall
        BY <1>1, <3>1 DEF CallInv, StageInv
      <4>2. stage = "none"
        BY <4>1 DEF NoCall
      <4>3. r = NoCall
        BY <4>1, <4>2 DEF NoCall
      <4> QED
        BY <1>3, <4>3 DEF StageInv, NoCall
    <3>2. CASE ~ (call[s].stage = "none" \/ call[s].what = "none")
      <4> HIDE DEF r
      <4> QED
        BY <1>3, <3>2 DEF StageInv, NoCall
    <3> QED
      BY <3>1, <3>2
  <2> HIDE DEF r
  <2>2. InHand(s)' = InHand(s)
    BY <1>1, <1>3 DEF InHand
  <2>3. HandInv(s)'
    BY <1>1, <1>3, <2>2 DEF CallInv, HandInv
  <2>4. NumberInv(s)'
    <3>1. Asked(s)' = Asked(s)
      BY <1>1, <2>2 DEF Asked
    <3>2. Cardinality(Asked(s)) \in Nat /\ conn[s].next \in Nat
      <4>1. Asked(s) \subseteq Controls
        BY <1>1 DEF Asked
      <4> QED
        BY <4>1, FS_Subset, FS_CardinalityType, TypedQueues DEF FiniteAndFar, ClientInv, Connections
    <3>3. conn'[s] = d /\ conn[s].next >= 1
          /\ conn[s].next <= First(s) + Cardinality(Asked(s)) + Asking(s)
      BY <1>1 DEF Becomes, CallInv, NumberInv
    <3>4. /\ First(s) \in Nat /\ First(s)' \in Nat /\ Asking(s) \in Nat /\ Asking(s)' \in Nat
      BY DEF First, Asking
    <3>5. First(s) + Asking(s) + (d.next - conn[s].next) <= First(s)' + Asking(s)'
          /\ d.next >= conn[s].next /\ d.next \in Nat
      <4>1. CASE d.next = conn[s].next /\ (call[s].stage \in {"none", "queued"} \/ stage \notin {"none", "queued"})
        <5>1. First(s) <= First(s)' /\ Asking(s) <= Asking(s)'
          BY <1>3, <4>1 DEF First, Asking
        <5> QED
          BY <3>2, <3>4, <4>1, <5>1
      <4>2. CASE d.next = conn[s].next + 1 /\ call[s].stage = "queued" /\ stage = "written"
                 /\ call[s].what = "resume"
        <5>1. place[s] = "resume"
          BY <4>2 DEF ClientInv, Typed, LoopInv
        <5>2. First(s) = 1 /\ First(s)' = 2 /\ Asking(s) = 0 /\ Asking(s)' = 0
          BY <1>3, <4>2, <5>1 DEF First, Asking
        <5> QED
          BY <3>2, <4>2, <5>2
      <4>3. CASE d.next = conn[s].next + 1 /\ call[s].stage = "queued" /\ stage = "written"
                 /\ call[s].what = "control"
        <5>1. place[s] = "control"
          BY <4>3 DEF ClientInv, Typed, LoopInv
        <5>2. First(s) = 2 /\ First(s)' = 2 /\ Asking(s) = 0 /\ Asking(s)' = 1
          BY <1>3, <4>3, <5>1 DEF First, Asking
        <5> QED
          BY <3>2, <4>3, <5>2
      <4> QED
        BY <4>1, <4>2, <4>3 DEF Numbered
    <3> QED
      BY <3>1, <3>2, <3>3, <3>4, <3>5 DEF NumberInv
  <2>5. AnswerInv(s)'
    BY <1>3 DEF AnswerInv, Becomes, r
  <2>6. QuestionInv(s)'
    BY <1>1 DEF QuestionInv, Becomes
  <2> QED
    BY <2>1, <2>3, <2>4, <2>5, <2>6 DEF CallInv
<1>6. \A t \in Clients : CallInv(t)'
  BY <1>4, <1>5
<1> QED
  BY <1>2, <1>6 DEF ClientInv

\* What ConnCalls needs when the call keeps its stage.
LEMMA SameStage ==
  ASSUME Typed, NEW s \in Clients, call' = call
  PROVE  /\ call[s].stage \in Stages /\ call' = [call EXCEPT ![s].stage = call[s].stage]
         /\ [call[s] EXCEPT !.stage = call[s].stage] = call[s]
<1>1. call \in [Clients -> Calls] /\ call[s] \in Calls
  BY DEF Typed, ClientTypes
<1>2. [call[s] EXCEPT !.stage = call[s].stage] = call[s]
  BY <1>1 DEF Calls
<1>3. [call EXCEPT ![s].stage = call[s].stage] = [call EXCEPT ![s] = [call[s] EXCEPT !.stage = call[s].stage]]
  OBVIOUS
<1> QED
  BY <1>1, <1>2, <1>3 DEF Calls

LEMMA QuestionsOf ==
  ASSUME ClientInv, NEW s \in Clients, conn[s].worker = "on", NEW id \in conn[s].open
  PROVE  Carries(conn[s], id) \/ [sup |-> s, epoch |-> epoch[s], id |-> id] \in RowAsks
BY DEF ClientInv, CallInv, QuestionInv

LEMMA TailsOf ==
  ASSUME NEW c \in Connections
  PROVE  /\ \A i \in 1..Len(c.sent) : c.sent[i] \in Messages /\ In(c.sent[i], c.sent)
         /\ \A i \in 1..Len(c.wire) : c.wire[i] \in Events /\ In(c.wire[i], c.wire)
         /\ c.sent # <<>> => /\ In(Head(c.sent), c.sent)
                             /\ \A i \in 1..Len(Tail(c.sent)) : In(Tail(c.sent)[i], c.sent)
         /\ c.wire # <<>> => /\ In(Head(c.wire), c.wire) /\ Head(c.wire) \in Events
                             /\ \A i \in 1..Len(Tail(c.wire)) : In(Tail(c.wire)[i], c.wire)
<1> DEFINE p == c.sent
           q == c.wire
<1>1. p \in Seq(Messages) /\ q \in Seq(Events)
  BY DEF Connections
<1> HIDE DEF p, q
<1>2. /\ \A i \in 1..Len(p) : p[i] \in Messages /\ In(p[i], p)
      /\ \A i \in 1..Len(q) : q[i] \in Events /\ In(q[i], q)
  BY <1>1 DEF In
<1>3. ASSUME p # <<>> PROVE In(Head(p), p) /\ \A i \in 1..Len(Tail(p)) : In(Tail(p)[i], p)
  <2>1. Head(p) = p[1] /\ 1 \in 1..Len(p)
        /\ \A i \in 1..Len(Tail(p)) : i + 1 \in 1..Len(p) /\ Tail(p)[i] = p[i + 1]
    BY <1>1, <1>3
  <2> QED
    BY <2>1 DEF In
<1>4. ASSUME q # <<>>
      PROVE  In(Head(q), q) /\ Head(q) \in Events /\ \A i \in 1..Len(Tail(q)) : In(Tail(q)[i], q)
  <2>1. Head(q) = q[1] /\ 1 \in 1..Len(q) /\ Head(q) \in Events
        /\ \A i \in 1..Len(Tail(q)) : i + 1 \in 1..Len(q) /\ Tail(q)[i] = q[i + 1]
    BY <1>1, <1>4
  <2> QED
    BY <2>1 DEF In
<1> QED
  BY <1>2, <1>3, <1>4 DEF p, q

\* The answer stays the one to the call when only known messages and good replies are on the way.
LEMMA AnswersKeep ==
  ASSUME NEW c \in Connections, NEW d \in Connections, NEW r, NEW got, NEW more,
         Answers(c, r, got), got \subseteq more, d.awaited = c.awaited, d.next = c.next,
         \A i \in 1..Len(d.sent) : In(d.sent[i], c.sent),
         \A i \in 1..Len(d.wire) :
           \/ In(d.wire[i], c.wire) \/ d.wire[i].kind # "reply"
           \/ /\ d.wire[i].n \in 1..c.next - 1
              /\ d.wire[i].n = c.awaited /\ r.what = "control" => r.item \in more
  PROVE  Answers(d, r, more)
<1>1. ASSUME NEW i \in 1..Len(d.sent), d.sent[i].what # "respond"
      PROVE  /\ d.sent[i].id \in 1..d.next - 1
             /\ d.sent[i].id = d.awaited => d.sent[i].what = r.what /\ d.sent[i].item = r.item
  <2>1. PICK j \in 1..Len(c.sent) : c.sent[j] = d.sent[i]
    BY DEF In
  <2> QED
    BY <1>1, <2>1 DEF Answers
<1>2. ASSUME NEW i \in 1..Len(d.wire), d.wire[i].kind = "reply"
      PROVE  /\ d.wire[i].n \in 1..d.next - 1
             /\ d.wire[i].n = d.awaited /\ r.what = "control" => r.item \in more
  <2>1. CASE In(d.wire[i], c.wire)
    <3>1. PICK j \in 1..Len(c.wire) : c.wire[j] = d.wire[i]
      BY <2>1 DEF In
    <3> QED
      BY <1>2, <3>1 DEF Answers
  <2>2. CASE ~In(d.wire[i], c.wire)
    BY <1>2, <2>2
  <2> QED
    BY <2>1, <2>2
<1> QED
  BY <1>1, <1>2 DEF Answers

\* Nobody awaits an answer any more.
LEMMA AnswersEnd ==
  ASSUME NEW c \in Connections, NEW d \in Connections, NEW r, NEW u, NEW got, Answers(c, r, got),
         d.awaited = 0, d.next = c.next, d.next >= 1,
         \A i \in 1..Len(d.sent) : In(d.sent[i], c.sent), \A i \in 1..Len(d.wire) : In(d.wire[i], c.wire),
         u.what = "control" /\ u.stage = "answered" => u.item \in got
  PROVE  Answers(d, u, got)
<1>1. ASSUME NEW i \in 1..Len(d.sent), d.sent[i].what # "respond"
      PROVE  d.sent[i].id \in 1..d.next - 1 /\ d.sent[i].id # 0
  <2>1. PICK j \in 1..Len(c.sent) : c.sent[j] = d.sent[i]
    BY DEF In
  <2> QED
    BY <1>1, <2>1 DEF Answers
<1>2. ASSUME NEW i \in 1..Len(d.wire), d.wire[i].kind = "reply"
      PROVE  d.wire[i].n \in 1..d.next - 1 /\ d.wire[i].n # 0
  <2>1. PICK j \in 1..Len(c.wire) : c.wire[j] = d.wire[i]
    BY DEF In
  <2> QED
    BY <1>2, <2>1 DEF Answers
<1>3. d.awaited < d.next
  BY SMTT(30) DEF Connections
<1> QED
  BY <1>1, <1>2, <1>3 DEF Answers

\* The parts of the invariant that concern one supervisor.
LEMMA OneOf ==
  ASSUME ClientInv, NEW s \in Clients
  PROVE  /\ conn[s] \in Connections /\ call[s] \in Calls /\ CallInv(s) /\ Typed
         /\ Answers(conn[s], call[s], arrived) /\ conn[s].next >= 1
         /\ conn[s].wire \in Seq(Events) /\ conn[s].queue \in Seq(Events) /\ conn[s].held \in Seq(Events)
         /\ conn[s].next \in Nat
<1>1. conn[s] \in Connections /\ call[s] \in Calls /\ CallInv(s) /\ Typed
  BY DEF ClientInv, Typed, ClientTypes
<1> QED
  BY <1>1 DEF CallInv, AnswerInv, NumberInv, Connections

LEMMA ConnStepCalls ==
  ASSUME FiniteAndFar, ClientInv, Typed', NotesInv', NEW s \in Clients,
         EnterQueue(s) \/ Notify(s) \/ ServerAsks(s) \/ ServerExits(s)
  PROVE  ClientInv'
<1> DEFINE c == conn[s]
<1>1. /\ c \in Connections /\ Answers(c, call[s], arrived) /\ Typed
      /\ c.wire \in Seq(Events) /\ c.queue \in Seq(Events) /\ c.held \in Seq(Events) /\ c.notes \in Nat
      /\ c = conn[s]
  BY OneOf DEF Connections
<1>2. /\ UNCHANGED <<epoch, place, todo, outbox, rows>> /\ arrived' = arrived /\ call' = call
  BY DEF EnterQueue, Notify, ServerAsks, ServerExits
<1>3. /\ call[s].stage \in Stages /\ call' = [call EXCEPT ![s].stage = call[s].stage]
      /\ [call[s] EXCEPT !.stage = call[s].stage] = call[s]
  BY <1>1, <1>2, SameStage
<1>4. \A id \in c.open : c.worker = "on" => Carries(c, id) \/ [sup |-> s, epoch |-> epoch[s], id |-> id] \in RowAsks
  BY QuestionsOf
<1> HIDE DEF c
<1>5. ASSUME NEW d \in Connections, Becomes(s, d), d.next = c.next, d.awaited = c.awaited, d.sent = c.sent,
             \A i \in 1..Len(d.wire) : In(d.wire[i], c.wire) \/ d.wire[i].kind # "reply",
             d.worker = "on" => \A id \in d.open :
               Carries(d, id) \/ [sup |-> s, epoch |-> epoch[s], id |-> id] \in RowAsks
      PROVE  ClientInv'
  <2>1. \A i \in 1..Len(d.sent) : In(d.sent[i], c.sent)
    BY <1>1, <1>5, TailsOf
  <2>2. Answers(d, call[s], arrived)
    BY <1>1, <1>5, <2>1, AnswersKeep
  <2>3. Numbered(conn[s], d, call[s], call[s].stage)
    BY <1>1, <1>5 DEF Numbered
  <2>4. Answers(d, [call[s] EXCEPT !.stage = call[s].stage], arrived') /\ arrived \subseteq arrived'
    BY <1>2, <1>3, <2>2
  <2> QED
    BY <1>2, <1>3, <1>5, <2>3, <2>4, ConnCalls
<1>6. CASE EnterQueue(s)
  <2>1. PICK d \in Connections :
           /\ Becomes(s, d)
           /\ d.queue = Append(c.queue, Head(c.held)) /\ d.held = Tail(c.held) /\ c.held # <<>>
           /\ d.worker = (IF c.worker = "ending" /\ Len(c.held) = 1 THEN "gone" ELSE c.worker)
           /\ d.wire = c.wire /\ d.next = c.next /\ d.awaited = c.awaited
           /\ d.sent = c.sent /\ d.open = c.open
    BY <1>1, <1>6, EnterStep, SMTT(30)
  <2>2. ASSUME NEW id, Carries(c, id) PROVE Carries(d, id)
    <3>1. Head(c.held) \in Events
      BY <1>1, <2>1
    <3>2. In(Question(id), c.queue) => In(Question(id), d.queue)
      BY <1>1, <2>1, <3>1, InMoves
    <3>3. In(Question(id), c.held) => In(Question(id), d.held) \/ In(Question(id), d.queue)
      BY <1>1, <2>1, <3>1, InMoves
    <3> QED
      BY <2>1, <2>2, <3>2, <3>3 DEF Carries
  <2>3. \A i \in 1..Len(d.wire) : In(d.wire[i], c.wire)
    BY <1>1, <2>1, TailsOf
  <2>4. d.worker = "on" => \A id \in d.open :
          Carries(d, id) \/ [sup |-> s, epoch |-> epoch[s], id |-> id] \in RowAsks
    BY <1>4, <2>1, <2>2
  <2> QED
    BY <1>5, <2>1, <2>3, <2>4
<1>7. ASSUME NEW d \in Connections, NEW e \in Events, Becomes(s, d), d.next = c.next, d.awaited = c.awaited,
             d.sent = c.sent, d.wire = Append(c.wire, e), e.kind # "reply", d.queue = c.queue, d.held = c.held,
             d.worker = c.worker, \A id \in d.open : id \in c.open \/ e = Question(id)
      PROVE  ClientInv'
  <2>1. \A i \in 1..Len(d.wire) : In(d.wire[i], c.wire) \/ d.wire[i].kind # "reply"
    <3>1. Len(d.wire) = Len(c.wire) + 1 /\ d.wire[Len(c.wire) + 1] = e
          /\ \A i \in 1..Len(c.wire) : d.wire[i] = c.wire[i]
      BY <1>1, <1>7
    <3>2. ASSUME NEW i \in 1..Len(d.wire) PROVE In(d.wire[i], c.wire) \/ d.wire[i].kind # "reply"
      <4>1. CASE i = Len(c.wire) + 1
        BY <1>7, <3>1, <4>1
      <4>2. CASE i \in 1..Len(c.wire)
        BY <1>1, <3>1, <4>2, TailsOf
      <4>3. Len(c.wire) \in Nat
        BY <1>1
      <4> QED
        BY <3>1, <4>1, <4>2, <4>3
    <3> QED
      BY <3>2
  <2>2. \A id : Carries(c, id) \/ e = Question(id) => Carries(d, id)
    BY <1>1, <1>7, InMoves DEF Carries
  <2>3. d.worker = "on" => \A id \in d.open :
          Carries(d, id) \/ [sup |-> s, epoch |-> epoch[s], id |-> id] \in RowAsks
    BY <1>4, <1>7, <2>2
  <2> QED
    BY <1>5, <1>7, <2>1, <2>3
<1>8. CASE Notify(s)
  <2>1. PICK d \in Connections, lossless \in BOOLEAN :
           /\ Becomes(s, d)
           /\ d.wire = Append(c.wire, Note(c.notes + 1, lossless))
           /\ d.queue = c.queue /\ d.held = c.held /\ d.worker = c.worker
           /\ d.next = c.next /\ d.awaited = c.awaited /\ d.sent = c.sent /\ d.open = c.open
    BY <1>1, <1>8, NotifyStep
  <2> DEFINE e == Note(c.notes + 1, lossless)
  <2>2. e \in Events /\ e.kind # "reply"
    BY <1>1 DEF Note, Events, Kinds
  <2> HIDE DEF e
  <2>3. d.wire = Append(c.wire, e)
    BY <2>1 DEF e
  <2> QED
    BY <1>7, <2>1, <2>2, <2>3
<1>9. CASE ServerAsks(s)
  <2>0. PICK d \in Connections, id \in Nat : Becomes(s, d) /\ AsksOne(c, d, id)
    BY <1>1, <1>9, AskStep
  <2>1. /\ Becomes(s, d)
        /\ d.wire = Append(c.wire, Question(id)) /\ d.open = c.open \cup {id}
        /\ d.queue = c.queue /\ d.held = c.held /\ d.worker = c.worker
        /\ d.next = c.next /\ d.awaited = c.awaited /\ d.sent = c.sent
    BY <2>0 DEF AsksOne
  <2> DEFINE e == Question(id)
  <2>2. e \in Events /\ e.kind # "reply"
    BY DEF Question, Events, Kinds
  <2>3. d.wire = Append(c.wire, e) /\ \A x \in d.open : x \in c.open \/ e = Question(x)
    BY <2>1
  <2> HIDE DEF e
  <2> QED
    BY <1>7, <2>1, <2>2, <2>3
<1>10. CASE ServerExits(s)
  <2>1. PICK d \in Connections :
           /\ Becomes(s, d) /\ d.wire = c.wire /\ d.open = c.open
           /\ d.queue = c.queue /\ d.held = c.held /\ d.worker = c.worker
           /\ d.next = c.next /\ d.awaited = c.awaited /\ d.sent = c.sent
    BY <1>1, <1>10, ExitStep
  <2>2. \A i \in 1..Len(d.wire) : In(d.wire[i], c.wire)
    BY <1>1, <2>1, TailsOf
  <2>3. d.worker = "on" => \A id \in d.open :
          Carries(d, id) \/ [sup |-> s, epoch |-> epoch[s], id |-> id] \in RowAsks
    BY <1>4, <2>1 DEF Carries
  <2> QED
    BY <1>5, <2>1, <2>2, <2>3
<1> QED
  BY <1>6, <1>8, <1>9, <1>10

LEMMA EndsCalls ==
  ASSUME FiniteAndFar, ClientInv, Typed', NotesInv', NEW s \in Clients, NEW d \in Connections,
         Becomes(s, d), Ends(conn[s], d), UNCHANGED <<epoch, place, todo, outbox, rows, arrived>>,
         NEW stage \in Stages, call' = [call EXCEPT ![s].stage = stage],
         \/ stage = "failed" /\ call[s].stage \notin {"none", "failed"}
         \/ stage = call[s].stage /\ stage # "written"
  PROVE  ClientInv'
<1> DEFINE c == conn[s]
           u == [call[s] EXCEPT !.stage = stage]
<1>1. /\ c \in Connections /\ call[s] \in Calls /\ Answers(c, call[s], arrived) /\ c.next >= 1 /\ c = conn[s]
  BY OneOf
<1>2. u.stage = stage /\ u.what = call[s].what /\ u.item = call[s].item
  BY <1>1 DEF Calls
<1>3. /\ d.next = c.next /\ d.awaited = 0 /\ d.sent = c.sent /\ d.wire = c.wire /\ d.worker # "on"
  BY DEF Ends
<1> HIDE DEF c, u
<1>4. /\ \A i \in 1..Len(d.sent) : In(d.sent[i], c.sent)
      /\ \A i \in 1..Len(d.wire) : In(d.wire[i], c.wire)
  BY <1>1, <1>3, TailsOf
<1>5. u.what = "control" /\ u.stage = "answered" => u.item \in arrived
  BY <1>1, <1>2 DEF Answers
<1>6. Answers(d, u, arrived)
  BY <1>1, <1>3, <1>4, <1>5, AnswersEnd
<1>7. Numbered(conn[s], d, call[s], stage)
  BY <1>1, <1>3 DEF Numbered
<1>8. Answers(d, [call[s] EXCEPT !.stage = stage], arrived') /\ arrived \subseteq arrived'
  BY <1>6 DEF u
<1>9. (call[s].stage = "none" => stage = "none") /\ (stage = "none" => call[s].stage = "none")
  OBVIOUS
<1> QED
  BY <1>3, <1>7, <1>8, <1>9, ConnCalls

LEMMA EndCalls ==
  ASSUME FiniteAndFar, ClientInv, Typed', NotesInv', NEW s \in Clients, EndOfStream(s)
  PROVE  ClientInv'
<1>1. Typed /\ call[s] \in Calls
  BY OneOf
<1>2. PICK d \in Connections : Becomes(s, d) /\ Ends(conn[s], d) /\ call' = FailCall(s)
  BY <1>1, EndStep
<1> DEFINE stage == IF call[s].stage = "written" THEN "failed" ELSE call[s].stage
<1>3. stage \in Stages /\ call' = [call EXCEPT ![s].stage = stage]
  BY <1>1, <1>2 DEF FailCall, Calls, Stages
<1>4. UNCHANGED <<epoch, place, todo, outbox, rows, arrived>>
  BY DEF EndOfStream
<1>5. \/ stage = "failed" /\ call[s].stage \notin {"none", "failed"}
      \/ stage = call[s].stage /\ stage # "written"
  OBVIOUS
<1> HIDE DEF stage
<1> QED
  BY <1>2, <1>3, <1>4, <1>5, EndsCalls

\* The worker takes a command: it is written under the next number, refused or ends the loop.
LEMMA TakeCalls ==
  ASSUME FiniteAndFar, ClientInv, Typed', NotesInv', NEW s \in Clients, TakeCommand(s)
  PROVE  ClientInv'
<1> DEFINE c == conn[s]
           r == call[s]
<1>1. /\ c \in Connections /\ r \in Calls /\ Answers(c, r, arrived) /\ c.next >= 1 /\ c.next \in Nat /\ Typed
      /\ c = conn[s] /\ r = call[s] /\ CallInv(s)
  BY OneOf
<1>2. UNCHANGED <<epoch, place, todo, outbox, rows, arrived>>
  BY DEF TakeCommand
<1>3. PICK d \in Connections : Becomes(s, d) /\ Taken(s, c, d)
  BY <1>1, TakeStep
<1>4. \A id \in c.open : c.worker = "on" => Carries(c, id) \/ [sup |-> s, epoch |-> epoch[s], id |-> id] \in RowAsks
  BY QuestionsOf
<1>5. r.stage = "queued" /\ r.what # "none" /\ c.awaited = 0
  BY <1>1, <1>3, SMTT(30) DEF Taken, CallInv, StageInv, NoCall, Answers, Connections
<1> HIDE DEF c, r
<1>6. ASSUME NEW stage \in {"answered", "failed", "written"}, call' = [call EXCEPT ![s].stage = stage],
             Numbered(c, d, r, stage), Answers(d, [r EXCEPT !.stage = stage], arrived),
             d.open = c.open, d.worker = c.worker, d.queue = c.queue, d.held = c.held, d.wire = c.wire
      PROVE  ClientInv'
  <2>1. stage \in Stages /\ stage # "none" /\ call[s].stage # "none"
    BY <1>1, <1>5 DEF Stages
  <2>2. d.worker = "on" => \A id \in d.open :
          Carries(d, id) \/ [sup |-> s, epoch |-> epoch[s], id |-> id] \in RowAsks
    BY <1>4, <1>6 DEF Carries
  <2>3. /\ Numbered(conn[s], d, call[s], stage) /\ Answers(d, [call[s] EXCEPT !.stage = stage], arrived')
        /\ arrived \subseteq arrived'
    BY <1>1, <1>2, <1>6
  <2> QED
    BY <1>2, <1>3, <1>6, <2>1, <2>2, <2>3, ConnCalls
<1>7. ASSUME NEW stage \in {"answered", "failed"}
      PROVE  LET u == [r EXCEPT !.stage = stage] IN u.stage = stage /\ u.what = r.what /\ u.item = r.item
  BY <1>1 DEF Calls
<1>8. ASSUME NEW m \in Messages, NEW x \in Connections, x.sent = Append(c.sent, m), NEW i \in 1..Len(x.sent)
      PROVE  In(x.sent[i], c.sent) \/ x.sent[i] = m
  <2>1. c.sent \in Seq(Messages)
    BY <1>1 DEF Connections
  <2>2. Len(x.sent) = Len(c.sent) + 1 /\ x.sent[Len(c.sent) + 1] = m /\ Len(c.sent) \in Nat
        /\ \A k \in 1..Len(c.sent) : x.sent[k] = c.sent[k]
    BY <1>8, <2>1
  <2>3. CASE i = Len(c.sent) + 1
    BY <2>2, <2>3
  <2>4. CASE i # Len(c.sent) + 1
    <3>1. i \in 1..Len(c.sent)
      BY <2>2, <2>4
    <3> QED
      BY <2>2, <3>1 DEF In
  <2> QED
    BY <2>3, <2>4
<1>9. ASSUME r.what = "respond", d.next = c.next, d.awaited = c.awaited,
             Written(c, d, [what |-> "respond", id |-> r.item.id, item |-> "none"]),
             call' = [call EXCEPT ![s].stage = "answered"]
      PROVE  ClientInv'
  <2> DEFINE m == [what |-> "respond", id |-> r.item.id, item |-> "none"]
             u == [r EXCEPT !.stage = "answered"]
  <2>1. m \in Messages /\ m.what = "respond"
    <3>1. r.item \in Asks
      BY <1>1, <1>9 DEF Typed, LoopInv
    <3> QED
      BY <3>1 DEF Messages, Asks, Whats, Items
  <2>2. u.stage = "answered" /\ u.what = "respond" /\ u.item = r.item
    BY <1>1, <1>9 DEF Calls
  <2>3. d.sent = Append(c.sent, m) /\ d.wire = c.wire
    BY <1>9 DEF Written
  <2> HIDE DEF m, u
  <2>4. \A i \in 1..Len(d.sent) : In(d.sent[i], c.sent) \/ d.sent[i] = m
    BY <1>8, <2>1, <2>3
  <2>5. \A i \in 1..Len(d.wire) : In(d.wire[i], c.wire)
    BY <1>1, <2>3, TailsOf
  <2>6. Answers(d, u, arrived)
    <3>1. ASSUME NEW i \in 1..Len(d.sent), d.sent[i].what # "respond"
          PROVE  d.sent[i].id \in 1..d.next - 1 /\ d.sent[i].id # 0
      <4>1. In(d.sent[i], c.sent)
        BY <2>1, <2>4, <3>1
      <4>2. PICK j \in 1..Len(c.sent) : c.sent[j] = d.sent[i]
        BY <4>1 DEF In
      <4> QED
        BY <1>1, <1>9, <3>1, <4>2 DEF Answers
    <3>2. ASSUME NEW i \in 1..Len(d.wire), d.wire[i].kind = "reply"
          PROVE  d.wire[i].n \in 1..d.next - 1
      BY <1>1, <1>9, <2>3, <3>2 DEF Answers
    <3> QED
      BY <1>1, <1>5, <1>9, <2>2, <3>1, <3>2 DEF Answers
  <2>7. Numbered(c, d, r, "answered")
    BY <1>9 DEF Numbered
  <2> QED
    BY <1>6, <1>9, <2>6, <2>7 DEF Written, u
<1>10. ASSUME r.what = "respond", d = c, call' = [call EXCEPT ![s].stage = "failed"]
       PROVE  ClientInv'
  <2> DEFINE u == [r EXCEPT !.stage = "failed"]
  <2>1. u.stage = "failed" /\ u.what = "respond" /\ u.item = r.item
    BY <1>1, <1>10 DEF Calls
  <2> HIDE DEF u
  <2>2. Answers(d, u, arrived)
    <3>1. \A i \in 1..Len(c.sent) : c.sent[i].what # "respond" => c.sent[i].id # 0
      BY <1>1 DEF Answers
    <3> QED
      BY <1>1, <1>5, <1>10, <2>1, <3>1 DEF Answers
  <2>3. Numbered(c, d, r, "failed")
    BY <1>5, <1>10 DEF Numbered
  <2> QED
    BY <1>6, <1>10, <2>2, <2>3 DEF u
<1>11. ASSUME r.what # "respond", d.next = c.next + 1, d.awaited = c.next,
              Written(c, d, [what |-> r.what, id |-> c.next, item |-> r.item]),
              call' = [call EXCEPT ![s].stage = "written"]
       PROVE  ClientInv'
  <2> DEFINE m == [what |-> r.what, id |-> c.next, item |-> r.item]
             u == [r EXCEPT !.stage = "written"]
  <2>1. m \in Messages /\ m.what = r.what /\ m.id = c.next /\ m.item = r.item
    BY <1>1 DEF Messages, Calls
  <2>2. u.stage = "written" /\ u.what = r.what /\ u.item = r.item
    BY <1>1 DEF Calls
  <2>3. d.sent = Append(c.sent, m) /\ d.wire = c.wire
    BY <1>11 DEF Written
  <2> HIDE DEF m, u
  <2>4. \A i \in 1..Len(d.sent) : In(d.sent[i], c.sent) \/ d.sent[i] = m
    BY <1>8, <2>1, <2>3
  <2>6. Answers(d, u, arrived)
    <3>1. ASSUME NEW i \in 1..Len(d.sent), d.sent[i].what # "respond"
          PROVE  /\ d.sent[i].id \in 1..d.next - 1
                 /\ d.sent[i].id = d.awaited => d.sent[i].what = u.what /\ d.sent[i].item = u.item
      <4>1. CASE d.sent[i] = m
        BY <1>1, <1>11, <2>1, <2>2, <4>1
      <4>2. CASE d.sent[i] # m
        <5>1. In(d.sent[i], c.sent)
          BY <2>4, <4>2
        <5>2. PICK j \in 1..Len(c.sent) : c.sent[j] = d.sent[i]
          BY <5>1 DEF In
        <5>3. d.sent[i].id \in 1..c.next - 1
          BY <1>1, <3>1, <5>2 DEF Answers
        <5> QED
          BY <1>1, <1>11, <5>3
      <4> QED
        BY <4>1, <4>2
    <3>2. ASSUME NEW i \in 1..Len(d.wire), d.wire[i].kind = "reply"
          PROVE  d.wire[i].n \in 1..d.next - 1 /\ d.wire[i].n # d.awaited
      <4>1. d.wire[i].n \in 1..c.next - 1
        BY <1>1, <2>3, <3>2 DEF Answers
      <4> QED
        BY <1>1, <1>11, <4>1
    <3> QED
      BY <1>1, <1>11, <2>2, <3>1, <3>2 DEF Answers
  <2>7. Numbered(c, d, r, "written")
    BY <1>1, <1>5, <1>11 DEF Numbered, Calls, Whats
  <2> QED
    BY <1>6, <1>11, <2>6, <2>7 DEF Written, u
<1>12. ASSUME Ends(c, d), call' = [call EXCEPT ![s].stage = "failed"]
       PROVE  ClientInv'
  <2>1. "failed" \in Stages /\ call[s].stage \notin {"none", "failed"} /\ Ends(conn[s], d)
    BY <1>1, <1>5, <1>12 DEF Stages
  <2> QED
    BY <1>2, <1>3, <1>12, <2>1, EndsCalls
<1> QED
  BY <1>1, <1>3, <1>9, <1>10, <1>11, <1>12 DEF Taken

\* route_message: a line answers the call that waits for its number, or is an event.
LEMMA RouteCalls ==
  ASSUME FiniteAndFar, ClientInv, Typed', NotesInv', NEW s \in Clients, RouteMessage(s)
  PROVE  ClientInv'
<1> DEFINE c == conn[s]
           r == call[s]
           m == Head(c.wire)
<1>1. /\ c \in Connections /\ r \in Calls /\ Answers(c, r, arrived) /\ c.next >= 1 /\ c.next \in Nat /\ Typed
      /\ c = conn[s] /\ r = call[s] /\ CallInv(s) /\ c.awaited \in Nat /\ c.skipped \in Nat
      /\ c.wire \in Seq(Events) /\ c.queue \in Seq(Events) /\ c.held \in Seq(Events)
      /\ Queues(c) /\ Counts(c)
  BY OneOf, TypedQueues DEF Connections, ClientInv, NotesInv
<1>2. UNCHANGED <<epoch, place, todo, outbox, rows, arrived>>
  BY DEF RouteMessage
<1>3. PICK d \in Connections : Becomes(s, d) /\ Routed(s, c, d)
  BY <1>1, RouteStep
<1>4. \A id \in c.open : c.worker = "on" => Carries(c, id) \/ [sup |-> s, epoch |-> epoch[s], id |-> id] \in RowAsks
  BY QuestionsOf
<1>m. m = Head(c.wire)
  OBVIOUS
<1> HIDE DEF c, r, m
<1>5. /\ c.wire # <<>> /\ c.held = <<>> /\ c.worker = "on" /\ d.wire = Tail(c.wire) /\ d.next = c.next
      /\ d.sent = c.sent /\ d.open = c.open /\ d.worker = c.worker
  BY <1>3 DEF Routed
<1>6. /\ In(m, c.wire) /\ m \in Events /\ m.n \in Nat
      /\ \A i \in 1..Len(d.sent) : In(d.sent[i], c.sent)
      /\ \A i \in 1..Len(d.wire) : In(d.wire[i], c.wire)
  BY <1>1, <1>5, <1>m, TailsOf DEF Events
<1>7. c.awaited < AskBase /\ AskBase \in Nat /\ AskBase # 0
  <2>1. c.next <= AskBase /\ c.awaited < c.next /\ AskBase \in Nat
    BY <1>1, NumbersAreFar, ClientAssumption DEF CallInv, Answers
  <2> QED
    BY <1>1, <2>1
<1>8. m.kind \in {"note", "ask", "reply"} /\ (m.kind # "note" => m.lossless) /\ (m.kind = "ask" => m.n >= AskBase)
  <2>1. WireOk(c.wire, c.notes) /\ c.notes \in Nat
    BY <1>1 DEF Counts, Queues
  <2> QED
    BY <1>1, <1>5, <1>m, <2>1, WireTail
<1>9. m.kind = "reply" => /\ m.n \in 1..c.next - 1
                          /\ m.n = c.awaited /\ r.what = "control" => r.item \in arrived
  <2>1. PICK i \in 1..Len(c.wire) : c.wire[i] = m
    BY <1>6 DEF In
  <2> QED
    BY <1>1, <2>1 DEF Answers
<1>10. CASE m.kind = "reply" /\ m.n = c.awaited
  <2> DEFINE u == [r EXCEPT !.stage = "answered"]
  <2>1. u.stage = "answered" /\ u.what = r.what /\ u.item = r.item
    BY <1>1 DEF Calls
  <2> HIDE DEF u
  <2>2. /\ d.awaited = 0 /\ call' = [call EXCEPT ![s].stage = "answered"] /\ d.queue = c.queue /\ d.held = c.held
    BY <1>3, <1>10, <1>m DEF Routed
  <2>3. c.awaited # 0 /\ r.stage = "written"
    BY <1>1, <1>9, <1>10 DEF Answers
  <2>4. Answers(d, u, arrived)
    <3>1. u.what = "control" /\ u.stage = "answered" => u.item \in arrived
      BY <1>9, <1>10, <2>1
    <3>2. d.next >= 1
      BY <1>1, <1>5
    <3> QED
      BY <1>1, <1>5, <1>6, <2>2, <3>1, <3>2, AnswersEnd
  <2>5. d.worker = "on" => \A id \in d.open :
          Carries(d, id) \/ [sup |-> s, epoch |-> epoch[s], id |-> id] \in RowAsks
    <3>1. \A id : In(Question(id), c.wire) => In(Question(id), d.wire)
      <4>1. \A id : Question(id) # m
        BY <1>10 DEF Question
      <4> QED
        BY <1>1, <1>5, <1>6, <1>m, <4>1, InMoves
    <3> QED
      BY <1>4, <1>5, <2>2, <3>1 DEF Carries
  <2>6. Numbered(conn[s], d, call[s], "answered") /\ Answers(d, [call[s] EXCEPT !.stage = "answered"], arrived')
        /\ arrived \subseteq arrived' /\ "answered" \in Stages /\ call[s].stage # "none"
    BY <1>1, <1>2, <1>5, <2>3, <2>4 DEF Numbered, u, Stages
  <2> QED
    BY <1>2, <1>3, <2>2, <2>5, <2>6, ConnCalls
<1>11. CASE ~ (m.kind = "reply" /\ m.n = c.awaited)
  <2>1. ~ (m.kind \in {"reply", "ask"} /\ m.n = c.awaited)
    BY <1>1, <1>6, <1>7, <1>8, <1>11
  <2>2. d.awaited = c.awaited /\ call' = call
    BY <1>3, <1>m, <2>1 DEF Routed
  <2>3. \/ m.kind = "reply" /\ d.queue = c.queue /\ d.held = c.held
        \/ m.lossless /\ d.queue = c.queue /\ d.held = Announced(c.skipped, m)
        \/ ~m.lossless /\ d.queue = Append(c.queue, m) /\ d.held = c.held
        \/ ~m.lossless /\ d.queue = c.queue /\ d.held = c.held
    BY <1>3, <1>m, <2>1 DEF Routed
  <2>4. Answers(d, r, arrived)
    BY <1>1, <1>5, <1>6, <2>2, AnswersKeep
  <2>5. d.worker = "on" => \A id \in d.open :
          Carries(d, id) \/ [sup |-> s, epoch |-> epoch[s], id |-> id] \in RowAsks
    <3>1. ASSUME NEW id, Carries(c, id) PROVE Carries(d, id)
      <4>1. In(Question(id), c.queue) => In(Question(id), d.queue)
        BY <1>1, <1>6, <2>3, InMoves
      <4>2. ~In(Question(id), c.held)
        BY <1>5 DEF In
      <4>3. In(Question(id), c.wire) => m = Question(id) \/ In(Question(id), d.wire)
        BY <1>1, <1>5, <1>6, <1>m, InMoves
      <4>4. m = Question(id) => In(Question(id), d.held)
        <5>1. m = Question(id) => m.kind = "ask" /\ m.lossless
          BY DEF Question
        <5>2. m.kind = "ask" /\ m.lossless => d.held = Announced(c.skipped, m)
          BY <2>3
        <5>3. In(m, Announced(c.skipped, m))
          <6>1. In(m, <<m>>) /\ In(m, <<Lagged(c.skipped), m>>)
            <7>1. 1 \in 1..Len(<<m>>) /\ <<m>>[1] = m /\ 2 \in 1..Len(<<Lagged(c.skipped), m>>)
                  /\ <<Lagged(c.skipped), m>>[2] = m
              OBVIOUS
            <7> QED
              BY <7>1 DEF In
          <6> QED
            BY <6>1 DEF Announced
        <5> QED
          BY <5>1, <5>2, <5>3
      <4> QED
        BY <3>1, <4>1, <4>2, <4>3, <4>4 DEF Carries
    <3> QED
      BY <1>4, <1>5, <3>1
  <2>6. /\ call[s].stage \in Stages /\ call' = [call EXCEPT ![s].stage = call[s].stage]
        /\ [call[s] EXCEPT !.stage = call[s].stage] = call[s]
    BY <1>1, <2>2, SameStage
  <2>7. /\ Numbered(conn[s], d, call[s], call[s].stage) /\ arrived \subseteq arrived'
        /\ Answers(d, [call[s] EXCEPT !.stage = call[s].stage], arrived')
    BY <1>1, <1>2, <1>5, <2>4, <2>6 DEF Numbered
  <2> QED
    BY <1>2, <1>3, <2>5, <2>6, <2>7, ConnCalls
<1> QED
  BY <1>10, <1>11

\* The server takes a line: the reply it writes is the one to that call.
LEMMA HandleCalls ==
  ASSUME FiniteAndFar, ClientInv, Typed', NotesInv', NEW s \in Clients, Handle(s)
  PROVE  ClientInv'
<1> DEFINE c == conn[s]
           r == call[s]
<1>1. /\ c \in Connections /\ r \in Calls /\ Answers(c, r, arrived) /\ c.next >= 1 /\ c.next \in Nat /\ Typed
      /\ c = conn[s] /\ r = call[s]
      /\ c.wire \in Seq(Events) /\ c.queue \in Seq(Events) /\ c.held \in Seq(Events)
  BY OneOf
<1>2. UNCHANGED <<epoch, place, todo, outbox, rows, call>>
  BY DEF Handle
<1>0. PICK d \in Connections, m \in Messages : Becomes(s, d) /\ Handled(c, d, m)
  BY <1>1, HandleStep
<1>3. /\ Becomes(s, d)
      /\ c.sent # <<>> /\ m = Head(c.sent) /\ d.sent = Tail(c.sent)
      /\ d.wire = (IF m.what = "respond" THEN c.wire ELSE Append(c.wire, Reply(m.id)))
      /\ d.open = (IF m.what = "respond" THEN c.open \ {m.id} ELSE c.open)
      /\ arrived' = (IF m.what = "control" THEN arrived \cup {m.item} ELSE arrived)
      /\ d.queue = c.queue /\ d.held = c.held /\ d.worker = c.worker
      /\ d.next = c.next /\ d.awaited = c.awaited
  BY <1>0 DEF Handled
<1>4. \A id \in c.open : c.worker = "on" => Carries(c, id) \/ [sup |-> s, epoch |-> epoch[s], id |-> id] \in RowAsks
  BY QuestionsOf
<1> HIDE DEF c, r
<1>5. \A i \in 1..Len(d.sent) : In(d.sent[i], c.sent)
  BY <1>1, <1>3, TailsOf
<1>6. m.what # "respond" => /\ m.id \in 1..c.next - 1
                            /\ m.id = c.awaited => m.what = r.what /\ m.item = r.item
  <2>1. In(m, c.sent)
    BY <1>1, <1>3, TailsOf
  <2>2. PICK i \in 1..Len(c.sent) : c.sent[i] = m
    BY <2>1 DEF In
  <2> QED
    BY <1>1, <2>2 DEF Answers
<1>7. ASSUME NEW i \in 1..Len(d.wire)
      PROVE  \/ In(d.wire[i], c.wire) \/ d.wire[i].kind # "reply"
             \/ /\ d.wire[i].n \in 1..c.next - 1
                /\ d.wire[i].n = c.awaited /\ r.what = "control" => r.item \in arrived'
  <2>1. CASE m.what = "respond"
    BY <1>1, <1>3, <2>1, TailsOf
  <2>2. CASE m.what # "respond"
    <3>1. /\ Len(d.wire) = Len(c.wire) + 1 /\ d.wire[Len(c.wire) + 1] = Reply(m.id) /\ Len(c.wire) \in Nat
          /\ \A k \in 1..Len(c.wire) : d.wire[k] = c.wire[k]
      BY <1>1, <1>3, <2>2
    <3>2. CASE i = Len(c.wire) + 1
      BY <1>3, <1>6, <2>2, <3>1, <3>2 DEF Reply
    <3>3. CASE i # Len(c.wire) + 1
      <4>1. i \in 1..Len(c.wire)
        BY <3>1, <3>3
      <4> QED
        BY <1>1, <3>1, <4>1, TailsOf
    <3> QED
      BY <3>2, <3>3
  <2> QED
    BY <2>1, <2>2
<1>8. arrived \subseteq arrived'
  BY <1>3
<1>9. Answers(d, r, arrived')
  <2> DEFINE more == arrived'
  <2>1. /\ arrived \subseteq more
        /\ \A i \in 1..Len(d.wire) :
             \/ In(d.wire[i], c.wire) \/ d.wire[i].kind # "reply"
             \/ /\ d.wire[i].n \in 1..c.next - 1
                /\ d.wire[i].n = c.awaited /\ r.what = "control" => r.item \in more
    BY <1>7, <1>8
  <2> HIDE DEF more
  <2>2. Answers(d, r, more)
    BY <1>1, <1>3, <1>5, <2>1, AnswersKeep
  <2> QED
    BY <2>2 DEF more
<1>10. d.worker = "on" => \A id \in d.open :
         Carries(d, id) \/ [sup |-> s, epoch |-> epoch[s], id |-> id] \in RowAsks
  <2>1. Reply(m.id) \in Events
    BY <1>1 DEF Messages, Reply, Events, Kinds
  <2>2. \A id : In(Question(id), c.wire) => In(Question(id), d.wire)
    BY <1>1, <1>3, <2>1, InMoves
  <2>3. \A id : Carries(c, id) => Carries(d, id)
    BY <1>3, <2>2 DEF Carries
  <2> QED
    BY <1>3, <1>4, <2>3
<1>11. /\ call[s].stage \in Stages /\ call' = [call EXCEPT ![s].stage = call[s].stage]
       /\ [call[s] EXCEPT !.stage = call[s].stage] = call[s]
  BY <1>1, <1>2, SameStage
<1>12. /\ Numbered(conn[s], d, call[s], call[s].stage)
       /\ Answers(d, [call[s] EXCEPT !.stage = call[s].stage], arrived')
  BY <1>1, <1>3, <1>9, <1>11 DEF Numbered
<1> QED
  BY <1>2, <1>3, <1>8, <1>10, <1>11, <1>12, ConnCalls

LEMMA RowsKept ==
  ASSUME rows \in Seq(Rows), rows' \in Seq(Rows), Len(rows') >= Len(rows),
         \A i \in 1..Len(rows) : rows'[i].ask = rows[i].ask
  PROVE  RowAsks \subseteq RowAsks'
<1>1. ASSUME NEW i \in 1..Len(rows) PROVE i \in 1..Len(rows')
  OBVIOUS
<1> QED
  BY <1>1 DEF RowAsks

LEMMA SameBoxes ==
  ASSUME Typed
  PROVE  /\ outbox' = outbox => SentControls' = SentControls /\ OutControls' = OutControls
         /\ rows' = rows => RowAsks' = RowAsks
         /\ SentControls \subseteq Controls /\ OutControls \subseteq Controls
BY Boxes DEF SentControls, OutControls, RowAsks

\* A question leaves the queue for the table.
LEMMA PumpCalls ==
  ASSUME FiniteAndFar, ClientInv, Typed', NotesInv', NEW s \in Clients, PumpOnce(s)
  PROVE  ClientInv'
<1> DEFINE c == conn[s]
           r == call[s]
<1>1. /\ c \in Connections /\ r \in Calls /\ Answers(c, r, arrived) /\ c.next >= 1 /\ c.next \in Nat /\ Typed
      /\ c = conn[s] /\ r = call[s] /\ CallInv(s)
      /\ c.wire \in Seq(Events) /\ c.queue \in Seq(Events) /\ c.held \in Seq(Events)
  BY OneOf
<1>2. /\ UNCHANGED <<epoch, call, todo, outbox, arrived>> /\ place[s] = "pump"
      /\ place' = [place EXCEPT ![s] = "responses"] /\ place'[s] = "responses"
      /\ \A t \in Clients : t # s => place'[t] = place[t]
  BY <1>1 DEF PumpOnce, Typed, ClientTypes
<1>3. PICK d \in Connections : Becomes(s, d) /\ Pumped(s, c, d)
  BY <1>1, PumpStep
<1>4. \A id \in c.open : c.worker = "on" => Carries(c, id) \/ [sup |-> s, epoch |-> epoch[s], id |-> id] \in RowAsks
  BY QuestionsOf
<1> HIDE DEF c, r
<1>5. /\ d.held = c.held /\ d.wire = c.wire /\ d.worker = c.worker /\ d.next = c.next
      /\ d.awaited = c.awaited /\ d.sent = c.sent /\ d.open = c.open
  BY <1>3 DEF Pumped
<1>6. /\ RowAsks \subseteq RowAsks'
      /\ \A id : Head(c.queue) = Question(id) /\ d # c => [sup |-> s, epoch |-> epoch[s], id |-> id] \in RowAsks'
  <2>1. CASE rows' = rows
    <3>1. \A id : Head(c.queue) = Question(id) /\ d # c =>
            rows' = Append(rows, [ask |-> [sup |-> s, epoch |-> epoch[s], id |-> id], status |-> "pending"])
      BY <1>3 DEF Pumped, Question
    <3>2. rows \in Seq(Rows)
      BY <1>1 DEF Typed, ClientTypes
    <3>3. \A x : rows # Append(rows, x)
      BY <3>2
    <3> QED
      BY <1>1, <2>1, <3>1, <3>3, SameBoxes
  <2>2. CASE rows' # rows
    <3> DEFINE e == Head(c.queue)
               x == [ask |-> [sup |-> s, epoch |-> epoch[s], id |-> e.n], status |-> "pending"]
    <3>1. rows' = Append(rows, x)
      BY <1>3, <2>2 DEF Pumped
    <3>2. rows \in Seq(Rows) /\ rows' \in Seq(Rows)
      BY <1>1 DEF Typed, ClientTypes
    <3> HIDE DEF x
    <3>3. /\ Len(rows') = Len(rows) + 1 /\ rows'[Len(rows) + 1] = x /\ Len(rows) \in Nat
          /\ \A i \in 1..Len(rows) : rows'[i] = rows[i]
      BY <3>1, <3>2
    <3>4. RowAsks \subseteq RowAsks'
      BY <3>2, <3>3, RowsKept
    <3>5. Len(rows) + 1 \in 1..Len(rows')
      BY <3>3
    <3>6. x.ask \in RowAsks'
      BY <3>3, <3>5 DEF RowAsks
    <3> QED
      BY <3>4, <3>6 DEF x, Question
  <2> QED
    BY <2>1, <2>2
<1>7. /\ SentControls' = SentControls /\ OutControls' = OutControls
      /\ SentControls \subseteq Controls /\ arrived' = arrived
  BY <1>1, <1>2, SameBoxes
<1>8. OutboxInv' /\ SentControls' \subseteq arrived'
  BY <1>2, <1>7 DEF ClientInv, OutboxInv
<1>9. ASSUME NEW t \in Clients, t # s PROVE CallInv(t)'
  <2>1. /\ conn'[t] = conn[t] /\ call'[t] = call[t] /\ place'[t] = place[t] /\ todo'[t] = todo[t]
        /\ epoch'[t] = epoch[t] /\ CallInv(t)
    BY <1>2, <1>3, <1>9 DEF Becomes, ClientInv
  <2> QED
    BY <1>1, <1>6, <1>7, <2>1, OthersKeep
<1>10. CallInv(s)'
  <2>1. StageInv(s)'
    BY <1>1, <1>2 DEF CallInv, StageInv, NoCall
  <2>2. HandInv(s)'
    BY <1>2 DEF HandInv
  <2>3. NumberInv(s)'
    <3>1. call[s].what # "control"
      BY <1>1, <1>2 DEF Typed, LoopInv
    <3>2. InHand(s) = {} /\ InHand(s)' = {}
      BY <1>2, <3>1 DEF InHand
    <3>3. Asked(s)' = Asked(s) /\ First(s)' = First(s) /\ Asking(s)' = Asking(s)
      BY <1>2, <1>7, <3>2 DEF Asked, First, Asking
    <3>4. conn'[s].next = conn[s].next
      BY <1>1, <1>3, <1>5 DEF Becomes
    <3> QED
      BY <1>1, <3>3, <3>4 DEF CallInv, NumberInv
  <2>4. AnswerInv(s)'
    <3>1. /\ \A i \in 1..Len(d.sent) : In(d.sent[i], c.sent)
          /\ \A i \in 1..Len(d.wire) : In(d.wire[i], c.wire)
      BY <1>1, <1>5, TailsOf
    <3>2. Answers(d, r, arrived)
      BY <1>1, <1>5, <3>1, AnswersKeep
    <3> QED
      BY <1>1, <1>2, <1>3, <3>2 DEF AnswerInv, Becomes
  <2>5. QuestionInv(s)'
    <3>1. ASSUME NEW id \in d.open, d.worker = "on"
          PROVE  Carries(d, id) \/ [sup |-> s, epoch |-> epoch[s], id |-> id] \in RowAsks'
      <4>1. CASE d = c
        BY <1>4, <1>6, <3>1, <4>1
      <4>2. CASE d # c
        <5>1. c.queue # <<>> /\ d.queue = Tail(c.queue) /\ Head(c.queue) \in Events
          BY <1>1, <1>3, <4>2 DEF Pumped
        <5>2. In(Question(id), c.queue) => Head(c.queue) = Question(id) \/ In(Question(id), d.queue)
          BY <1>1, <5>1, InMoves
        <5>3. Head(c.queue) = Question(id) => [sup |-> s, epoch |-> epoch[s], id |-> id] \in RowAsks'
          BY <1>6, <4>2
        <5> QED
          BY <1>4, <1>5, <1>6, <3>1, <5>2, <5>3 DEF Carries
      <4> QED
        BY <4>1, <4>2
    <3> QED
      BY <1>2, <1>3, <3>1 DEF QuestionInv, Becomes
  <2> QED
    BY <2>1, <2>2, <2>3, <2>4, <2>5 DEF CallInv
<1>11. \A t \in Clients : CallInv(t)'
  BY <1>9, <1>10
<1> QED
  BY <1>8, <1>11 DEF ClientInv

\* A supervisor starts, ends or reconnects with nothing in its hands.
LEMMA FreshCalls ==
  ASSUME FiniteAndFar, ClientInv, Typed', NotesInv', NEW s \in Clients, Fresh(s)
  PROVE  ClientInv'
<1>1. Typed
  BY DEF ClientInv
<1>2. PICK mode \in {"stdio", "daemon"} :
         /\ UNCHANGED <<outbox, rows, arrived>>
         /\ \/ Becomes(s, Connected(mode)) /\ Connect(s, mode)
            \/ Becomes(s, Closed) /\ Leave(s)
  BY <1>1, FreshStep
<1>3. /\ call' = [call EXCEPT ![s] = NoCall] /\ todo' = [todo EXCEPT ![s] = <<>>]
      /\ \E p \in {"off", "resume"} : place' = [place EXCEPT ![s] = p]
      /\ \A t \in Clients : t # s => epoch'[t] = epoch[t]
  BY <1>1, <1>2 DEF Connect, Leave, Typed, ClientTypes
<1>4. /\ call'[s] = NoCall /\ todo'[s] = <<>> /\ place'[s] \in {"off", "resume"}
      /\ \A t \in Clients : t # s => call'[t] = call[t] /\ todo'[t] = todo[t] /\ place'[t] = place[t]
  BY <1>1, <1>3 DEF Typed, ClientTypes
<1>5. PICK d \in Connections : Becomes(s, d) /\ d \in {Connected(mode), Closed}
  BY <1>2 DEF Becomes
<1>6. d.next = 1 /\ d.awaited = 0 /\ d.sent = <<>> /\ d.wire = <<>> /\ d.open = {}
  <2>1. CASE d = Connected(mode)
    BY <2>1 DEF Connected
  <2>2. CASE d = Closed
    BY <2>2 DEF Connected, Closed
  <2> QED
    BY <1>5, <2>1, <2>2
<1>7. /\ SentControls' = SentControls /\ OutControls' = OutControls /\ RowAsks' = RowAsks
      /\ SentControls \subseteq Controls /\ arrived' = arrived
  BY <1>1, <1>2, SameBoxes
<1>8. OutboxInv' /\ SentControls' \subseteq arrived'
  BY <1>2, <1>7 DEF ClientInv, OutboxInv
<1>9. ASSUME NEW t \in Clients, t # s PROVE CallInv(t)'
  <2>1. /\ conn'[t] = conn[t] /\ call'[t] = call[t] /\ place'[t] = place[t] /\ todo'[t] = todo[t]
        /\ epoch'[t] = epoch[t] /\ CallInv(t)
    BY <1>3, <1>4, <1>5, <1>9 DEF Becomes, ClientInv
  <2> QED
    BY <1>1, <1>7, <2>1, OthersKeep
<1>10. CallInv(s)'
  <2>0. conn'[s] = d
    BY <1>5 DEF Becomes
  <2>1. StageInv(s)'
    BY <1>4 DEF StageInv
  <2>2. HandInv(s)'
    BY <1>4 DEF HandInv
  <2>3. NumberInv(s)'
    <3>1. First(s)' = 1 /\ Asking(s)' = 0
      BY <1>4 DEF First, Asking, NoCall
    <3>2. Cardinality(Asked(s)') \in Nat
      <4>1. Asked(s)' \subseteq Controls
        BY <1>7 DEF Asked
      <4> QED
        BY <4>1, FS_Subset, FS_CardinalityType DEF FiniteAndFar
    <3> QED
      BY <1>6, <2>0, <3>1, <3>2 DEF NumberInv
  <2>4. AnswerInv(s)'
    <3> DEFINE r == NoCall
    <3>1. r.what = "none"
      BY DEF NoCall
    <3> HIDE DEF r
    <3>2. Answers(d, r, arrived')
      BY <1>6, <3>1 DEF Answers
    <3> QED
      BY <1>4, <2>0, <3>2 DEF AnswerInv, r
  <2>5. QuestionInv(s)'
    BY <1>6, <2>0 DEF QuestionInv
  <2> QED
    BY <2>1, <2>2, <2>3, <2>4, <2>5 DEF CallInv
<1>11. \A t \in Clients : CallInv(t)'
  BY <1>9, <1>10
<1> QED
  BY <1>8, <1>11 DEF ClientInv

\* A step of the loop of s that leaves the connections alone: what it has to show.
LEMMA LoopCalls ==
  ASSUME FiniteAndFar, ClientInv, Typed', NotesInv', NEW s \in Clients, UNCHANGED <<conn, epoch, arrived>>,
         \A t \in Clients : t # s => call'[t] = call[t] /\ todo'[t] = todo[t] /\ place'[t] = place[t],
         SentControls \subseteq SentControls', SentControls' \subseteq arrived, SentControls' \subseteq Controls,
         OutControls \subseteq OutControls', RowAsks \subseteq RowAsks', OutboxInv',
         StageInv(s)', HandInv(s)',
         First(s) + Cardinality(Asked(s)) + Asking(s) <= First(s)' + Cardinality(Asked(s)') + Asking(s)',
         Answers(conn[s], call'[s], arrived)
  PROVE  ClientInv'
<1>1. Typed /\ \A t \in Clients : CallInv(t)
  BY DEF ClientInv
<1>2. ASSUME NEW t \in Clients, t # s PROVE CallInv(t)'
  <2>1. /\ conn'[t] = conn[t] /\ call'[t] = call[t] /\ place'[t] = place[t] /\ todo'[t] = todo[t]
        /\ epoch'[t] = epoch[t] /\ CallInv(t) /\ arrived \subseteq arrived'
    BY <1>1, <1>2
  <2> QED
    BY <1>1, <2>1, OthersKeep
<1>3. NumberInv(s)'
  <2>1. /\ First(s) \in Nat /\ Asking(s) \in Nat /\ First(s)' \in Nat /\ Asking(s)' \in Nat
        /\ conn[s].next \in Nat /\ conn'[s] = conn[s]
    BY <1>1, TypedQueues DEF First, Asking, Connections
  <2>2. Cardinality(Asked(s)) \in Nat /\ Cardinality(Asked(s)') \in Nat
    <3>1. Asked(s) \subseteq Controls /\ Asked(s)' \subseteq Controls
      BY DEF Asked
    <3> QED
      BY <3>1, FS_Subset, FS_CardinalityType DEF FiniteAndFar
  <2>3. conn[s].next >= 1 /\ conn[s].next <= First(s) + Cardinality(Asked(s)) + Asking(s)
    BY <1>1 DEF CallInv, NumberInv
  <2>4. conn[s].next <= First(s)' + Cardinality(Asked(s)') + Asking(s)'
    BY <2>1, <2>2, <2>3
  <2> QED
    BY <2>1, <2>3, <2>4 DEF NumberInv
<1>4. AnswerInv(s)'
  BY DEF AnswerInv
<1>5. QuestionInv(s)'
  BY <1>1 DEF CallInv, QuestionInv, Carries
<1>6. CallInv(s)'
  BY <1>3, <1>4, <1>5 DEF CallInv
<1>7. \A t \in Clients : CallInv(t)'
  BY <1>2, <1>6
<1> QED
  BY <1>7 DEF ClientInv

\* Nobody's answer is awaited when the loop is free to call or its call is answered.
LEMMA FreeAnswers ==
  ASSUME NEW c \in Connections, NEW r, NEW q, NEW got, Answers(c, r, got), r.stage # "written",
         q.stage # "answered" \/ q.what # "control"
  PROVE  Answers(c, q, got)
<1>1. c.awaited = 0
  BY DEF Answers
<1> QED
  BY <1>1 DEF Answers

\* A step of the loop of s that leaves what is in its hands, or takes pending controls into them.
LEMMA HandCalls ==
  ASSUME FiniteAndFar, ClientInv, Typed', NotesInv', NEW s \in Clients,
         UNCHANGED <<conn, epoch, arrived, outbox>>, RowAsks \subseteq RowAsks',
         \A t \in Clients : t # s => call'[t] = call[t] /\ todo'[t] = todo[t] /\ place'[t] = place[t],
         call[s].stage \in {"none", "answered"}, call[s].what # "control",
         call'[s].stage \in {"none", "queued"}, StageInv(s)', HandInv(s)',
         place[s] # "off", place[s] = "resume" => place'[s] = "resume" \/ call[s].stage = "answered",
         place'[s] = "resume" => place[s] = "resume" /\ call[s].stage = "none",
         place'[s] # "off",
         InHand(s)' \cap SentControls \subseteq InHand(s)
  PROVE  ClientInv'
<1>1. /\ Typed /\ CallInv(s) /\ conn[s] \in Connections /\ Answers(conn[s], call[s], arrived)
  BY OneOf
<1>2. /\ SentControls' = SentControls /\ OutControls' = OutControls /\ SentControls \subseteq Controls
  BY <1>1, SameBoxes
<1>3. SentControls \subseteq arrived /\ OutboxInv'
  BY DEF ClientInv, OutboxInv
<1>4. First(s) <= First(s)' /\ First(s) \in Nat /\ First(s)' \in Nat
  BY DEF First
<1>5. Asking(s) = 0 /\ Asking(s)' = 0
  BY DEF Asking, StageInv, NoCall
<1>6. /\ Cardinality(Asked(s)) <= Cardinality(Asked(s)')
      /\ Cardinality(Asked(s)) \in Nat /\ Cardinality(Asked(s)') \in Nat
  <2>1. Asked(s) \subseteq Asked(s)' /\ Asked(s)' \subseteq Controls
    BY <1>2 DEF Asked
  <2>2. IsFiniteSet(Asked(s)')
    BY <2>1, FS_Subset DEF FiniteAndFar
  <2> QED
    BY <2>1, <2>2, FS_Subset, FS_CardinalityType
<1>7. First(s) + Cardinality(Asked(s)) + Asking(s) <= First(s)' + Cardinality(Asked(s)') + Asking(s)'
  BY <1>4, <1>5, <1>6
<1>8. Answers(conn[s], call'[s], arrived)
  BY <1>1, FreeAnswers
<1> QED
  BY <1>2, <1>3, <1>7, <1>8, LoopCalls

\* The loop hands the worker a call: a control leaves the list for the call.
LEMMA BeginCalls ==
  ASSUME FiniteAndFar, ClientInv, Typed', NotesInv', NEW s \in Clients,
         Resume(s) \/ DeliverResponse(s) \/ DeliverControl(s)
  PROVE  ClientInv'
<1>1. /\ Typed /\ CallInv(s) /\ StageInv(s) /\ HandInv(s)
      /\ place' = place /\ UNCHANGED <<conn, epoch, arrived, outbox, rows>> /\ call[s] = NoCall
  BY OneOf DEF Resume, DeliverResponse, DeliverControl, Begin, CallInv
<1>2. RowAsks' = RowAsks /\ OutControls' = OutControls
  BY <1>1, SameBoxes
<1>3. NoCall.stage = "none" /\ NoCall.what = "none"
  BY DEF NoCall
<1>4. PICK what \in {"resume", "respond", "control"}, item \in {"none", Head(todo[s]).ask, Head(todo[s]).control} :
         /\ call' = [call EXCEPT ![s] = [stage |-> "queued", what |-> what, item |-> item]]
         /\ what = "resume" => place[s] = "resume" /\ todo' = todo
         /\ what = "respond" => place[s] = "respond" /\ todo' = [todo EXCEPT ![s] = Tail(todo[s])]
         /\ what = "control" => /\ place[s] = "control" /\ todo' = [todo EXCEPT ![s] = Tail(todo[s])]
                                /\ todo[s] # <<>> /\ item = Head(todo[s]).control
  BY DEF Resume, DeliverResponse, DeliverControl, Begin
<1>5. /\ call'[s].stage = "queued" /\ call'[s].what = what /\ call'[s].item = item
      /\ \A t \in Clients : t # s => call'[t] = call[t] /\ todo'[t] = todo[t] /\ place'[t] = place[t]
      /\ what # "resume" => todo'[s] = Tail(todo[s])
  BY <1>1, <1>4 DEF Typed, ClientTypes
<1>6. StageInv(s)'
  BY <1>4, <1>5 DEF StageInv
<1>7. CASE what # "control"
  <2>1. InHand(s)' = {} /\ HandInv(s)'
    BY <1>1, <1>4, <1>5, <1>7 DEF InHand, HandInv
  <2>2. place[s] # "off" /\ call[s].stage = "none" /\ call[s].what # "control"
    BY <1>1, <1>3, <1>4
  <2> QED
    BY <1>1, <1>2, <1>5, <1>6, <2>1, <2>2, HandCalls
<1>8. CASE what = "control"
  <2>1. /\ todo[s] \in Seq(Entries) /\ todo[s] # <<>> /\ place[s] = "control" /\ place'[s] = "control"
        /\ todo'[s] = Tail(todo[s]) /\ item = Head(todo[s]).control
    BY <1>1, <1>4, <1>5, <1>8 DEF Typed, LoopInv
  <2> DEFINE l == todo[s]
  <2>2. /\ Len(Tail(l)) = Len(l) - 1 /\ Len(l) \in Nat /\ Len(l) >= 1 /\ Head(l) = l[1]
        /\ \A i \in 1..Len(Tail(l)) : Tail(l)[i] = l[i + 1] /\ i + 1 \in 1..Len(l)
    BY <2>1
  <2>3. TodoControls(s)' \cup {item} \subseteq TodoControls(s)
    <3>1. item \in TodoControls(s)
      <4>1. 1 \in 1..Len(l) /\ item = l[1].control
        BY <2>1, <2>2
      <4> QED
        BY <4>1 DEF TodoControls
    <3>2. ASSUME NEW i \in 1..Len(Tail(l)) PROVE Tail(l)[i].control \in TodoControls(s)
      BY <2>2 DEF TodoControls
    <3> QED
      BY <2>1, <3>1, <3>2 DEF TodoControls
  <2>4. \A i, j \in 1..Len(l) : l[i].control = l[j].control => i = j
    BY <1>1, <2>1 DEF HandInv
  <2>5. item \notin TodoControls(s)'
    <3>1. ASSUME NEW i \in 1..Len(Tail(l)) PROVE Tail(l)[i].control # item
      <4>1. 1 \in 1..Len(l) /\ i + 1 \in 1..Len(l) /\ i + 1 # 1
        BY <2>2
      <4> QED
        BY <2>1, <2>2, <2>4, <4>1
    <3> QED
      BY <2>1, <3>1 DEF TodoControls
  <2>6. InHand(s) = TodoControls(s) /\ InHand(s)' = TodoControls(s)' \cup {item}
    BY <1>1, <1>3, <1>5, <1>8, <2>1 DEF InHand
  <2>7. HandInv(s)'
    <3>1. ASSUME NEW i \in 1..Len(Tail(l)), NEW j \in 1..Len(Tail(l)), Tail(l)[i].control = Tail(l)[j].control
          PROVE  i = j
      <4>1. i + 1 \in 1..Len(l) /\ j + 1 \in 1..Len(l) /\ l[i + 1].control = l[j + 1].control
        BY <2>2, <3>1
      <4>2. i + 1 = j + 1
        BY <2>4, <4>1
      <4> QED
        BY <4>2
    <3>2. InHand(s)' \subseteq OutControls'
      BY <1>1, <1>2, <2>1, <2>3, <2>6 DEF HandInv
    <3> QED
      BY <1>5, <2>1, <2>5, <3>1, <3>2 DEF HandInv
  <2>8. /\ place[s] # "off" /\ place[s] # "resume" /\ place'[s] # "resume" /\ place'[s] # "off"
        /\ call[s].stage = "none" /\ call[s].what # "control"
        /\ InHand(s)' \cap SentControls \subseteq InHand(s) /\ RowAsks \subseteq RowAsks'
        /\ call[s].stage \in {"none", "answered"} /\ call'[s].stage \in {"none", "queued"}
    BY <1>1, <1>2, <1>3, <1>5, <2>1, <2>3, <2>6
  <2> QED
    BY <1>1, <1>5, <1>6, <2>7, <2>8, HandCalls
<1> QED
  BY <1>7, <1>8

\* The loop reads rows: a pending control is not a sent one.
LEMMA ReadCalls ==
  ASSUME FiniteAndFar, ClientInv, Typed', NotesInv', NEW s \in Clients,
         ReadReady(s) \/ ReadControls(s) \/ DeliveryDone(s)
  PROVE  ClientInv'
<1>1. /\ Typed /\ CallInv(s) /\ StageInv(s) /\ LoopInv(s) /\ outbox \in Seq(Entries)
      /\ UNCHANGED <<conn, epoch, call, arrived, outbox, rows>>
  BY OneOf DEF ReadReady, ReadControls, DeliveryDone, CallInv, Typed, ClientTypes
<1>2. RowAsks' = RowAsks /\ OutControls' = OutControls /\ StageInv(s)' /\ call' = call
  BY <1>1, SameBoxes DEF StageInv
<1>3. NoCall.stage = "none" /\ NoCall.what = "none"
  BY DEF NoCall
<1>4. call[s] = NoCall
  <2>1. CASE ReadReady(s)
    <3>1. call[s].what = "none"
      <4>1. call[s].what \in Whats /\ place[s] = "responses"
        BY <1>1, <2>1 DEF Typed, ClientTypes, Calls, ReadReady
      <4> QED
        BY <1>1, <4>1 DEF LoopInv, Whats
    <3> QED
      BY <1>1, <3>1 DEF StageInv
  <2> QED
    BY <2>1 DEF ReadControls, DeliveryDone
<1>5. PICK p \in {"respond", "control", "pump"} :
         /\ place' = [place EXCEPT ![s] = p] /\ place[s] \in {"responses", "respond", "control"}
         /\ p = "control" => place[s] = "respond" /\ todo' = [todo EXCEPT ![s] = WithStatus("pending", outbox)]
         /\ \A t \in Clients : t # s => todo'[t] = todo[t]
  BY <1>1 DEF ReadReady, ReadControls, DeliveryDone, Typed, ClientTypes
<1>6. place'[s] = p /\ \A t \in Clients : t # s => call'[t] = call[t] /\ todo'[t] = todo[t] /\ place'[t] = place[t]
  BY <1>1, <1>5 DEF Typed, ClientTypes
<1>7. /\ place[s] # "off" /\ place[s] # "resume" /\ place'[s] # "resume" /\ place'[s] # "off"
      /\ call[s].stage = "none" /\ call[s].what # "control" /\ RowAsks \subseteq RowAsks'
      /\ call'[s].stage \in {"none", "queued"} /\ call[s].stage \in {"none", "answered"}
  BY <1>2, <1>3, <1>4, <1>5, <1>6
<1>8. HandInv(s)' /\ InHand(s)' \cap SentControls \subseteq InHand(s)
  <2>1. CASE p # "control"
    <3>1. InHand(s)' = {}
      BY <1>2, <1>3, <1>4, <1>6, <2>1 DEF InHand
    <3> QED
      BY <1>6, <2>1, <3>1 DEF HandInv
  <2>2. CASE p = "control"
    <3> DEFINE l == WithStatus("pending", outbox)
    <3>1. todo'[s] = l
      BY <1>1, <1>5, <2>2 DEF Typed, ClientTypes
    <3>2. \A i, j \in 1..Len(outbox) : outbox[i].control = outbox[j].control => i = j
      BY DEF ClientInv, OutboxInv
    <3>3. /\ l \in Seq(Entries)
          /\ \A i \in 1..Len(l) : \E j \in 1..Len(outbox) : l[i] = outbox[j] /\ outbox[j].status = "pending"
          /\ \A i, j \in 1..Len(l) : l[i] = l[j] => i = j
      <4>1. \A i, j \in 1..Len(outbox) : outbox[i] = outbox[j] => i = j
        BY <3>2
      <4> HIDE DEF l
      <4> QED
        BY <1>1, <4>1, WithStatusFinds DEF l
    <3> HIDE DEF l
    <3>4. \A i, j \in 1..Len(l) : l[i].control = l[j].control => i = j
      <4> SUFFICES ASSUME NEW i \in 1..Len(l), NEW j \in 1..Len(l), l[i].control = l[j].control
                   PROVE  i = j
        OBVIOUS
      <4>1. PICK k \in 1..Len(outbox) : l[i] = outbox[k]
        BY <3>3
      <4>2. PICK m \in 1..Len(outbox) : l[j] = outbox[m]
        BY <3>3
      <4>3. k = m
        BY <3>2, <4>1, <4>2
      <4> QED
        BY <3>3, <4>1, <4>2, <4>3
    <3>5. InHand(s)' = TodoControls(s)'
      BY <1>2, <1>3, <1>4, <1>6, <2>2 DEF InHand
    <3>6. ASSUME NEW i \in 1..Len(l) PROVE l[i].control \in OutControls /\ l[i].control \notin SentControls
      <4>1. PICK j \in 1..Len(outbox) : l[i] = outbox[j] /\ outbox[j].status = "pending"
        BY <3>3
      <4> QED
        BY <3>2, <4>1 DEF OutControls, SentControls
    <3>7. InHand(s)' \subseteq OutControls' /\ InHand(s)' \cap SentControls = {}
      BY <1>2, <3>1, <3>5, <3>6 DEF TodoControls
    <3>8. call'[s].what # "control"
      BY <1>2, <1>7
    <3> QED
      BY <3>1, <3>4, <3>7, <3>8 DEF HandInv
  <2> QED
    BY <2>1, <2>2
<1> QED
  BY <1>1, <1>2, <1>6, <1>7, <1>8, HandCalls

\* The call is answered: its control is sent, and one number more is accounted for.
LEMMA ReturnCalls ==
  ASSUME FiniteAndFar, ClientInv, Typed', NotesInv', NEW s \in Clients, CallReturns(s)
  PROVE  ClientInv'
<1>1. /\ Typed /\ CallInv(s) /\ LoopInv(s) /\ outbox \in Seq(Entries) /\ rows \in Seq(Rows)
      /\ call[s] \in Calls /\ Answers(conn[s], call[s], arrived) /\ conn[s] \in Connections
      /\ outbox' \in Seq(Entries) /\ rows' \in Seq(Rows)
      /\ UNCHANGED <<conn, epoch, todo, arrived>> /\ call[s].stage = "answered"
  BY OneOf DEF CallReturns, CallInv, Typed, ClientTypes
<1>2. /\ call'[s] = NoCall /\ \A t \in Clients : t # s => call'[t] = call[t] /\ todo'[t] = todo[t]
  BY <1>1 DEF CallReturns, Typed, ClientTypes
<1>3. NoCall.stage = "none" /\ NoCall.what = "none"
  BY DEF NoCall
<1>4. StageInv(s)'
  BY <1>2 DEF StageInv
<1>5. CASE call[s].what # "control"
  <2>1. /\ outbox' = outbox /\ \A t \in Clients : t # s => place'[t] = place[t]
        /\ place'[s] # "off" /\ place'[s] # "resume" /\ place[s] # "off"
        /\ place'[s] # "control"
    BY <1>1, <1>5 DEF CallReturns, Typed, ClientTypes, LoopInv
  <2>2. RowAsks \subseteq RowAsks'
    <3>1. CASE rows' = rows
      BY <1>1, <3>1, SameBoxes
    <3>2. CASE rows' = [i \in DOMAIN rows |->
             IF rows[i].ask = call[s].item THEN [rows[i] EXCEPT !.status = "resolved"] ELSE rows[i]]
      <4>1. Len(rows') = Len(rows) /\ Len(rows) \in Nat /\ DOMAIN rows = 1..Len(rows)
        BY <1>1, <3>2
      <4>2. ASSUME NEW i \in 1..Len(rows) PROVE rows'[i].ask = rows[i].ask
        <5>1. rows[i] \in Rows
          BY <1>1
        <5> QED
          BY <3>2, <4>1, <5>1 DEF Rows
      <4> QED
        BY <1>1, <4>1, <4>2, RowsKept
    <3> QED
      BY <1>5, <3>1, <3>2 DEF CallReturns
  <2>3. HandInv(s)' /\ InHand(s)' = {}
    BY <1>2, <1>3, <2>1 DEF HandInv, InHand
  <2>4. call'[s].stage \in {"none", "queued"} /\ call[s].stage \in {"none", "answered"}
    BY <1>1, <1>2, <1>3
  <2> QED
    BY <1>1, <1>2, <1>4, <1>5, <2>1, <2>2, <2>3, <2>4, HandCalls
<1>6. CASE call[s].what = "control"
  <2> DEFINE x == call[s].item
             T == TodoControls(s)
  <2>1. /\ place' = place /\ rows' = rows /\ place[s] = "control" /\ x \in Controls
        /\ outbox' = [i \in DOMAIN outbox |->
             IF outbox[i].control = x THEN [outbox[i] EXCEPT !.status = "sent"] ELSE outbox[i]]
    BY <1>1, <1>6 DEF CallReturns, LoopInv
  <2>2. /\ x \notin T /\ x \in OutControls /\ T \subseteq OutControls
        /\ \A i, j \in 1..Len(todo[s]) : todo[s][i].control = todo[s][j].control => i = j
    BY <1>1, <1>6, <2>1 DEF CallInv, HandInv, InHand
  <2>3. x \in arrived
    BY <1>1, <1>6 DEF Answers
  <2>4. /\ Len(outbox') = Len(outbox) /\ Len(outbox) \in Nat
        /\ \A i \in 1..Len(outbox) :
             /\ outbox'[i].control = outbox[i].control
             /\ outbox'[i].status = IF outbox[i].control = x THEN "sent" ELSE outbox[i].status
    <3>1. Len(outbox') = Len(outbox) /\ Len(outbox) \in Nat /\ DOMAIN outbox = 1..Len(outbox)
      BY <1>1, <2>1
    <3>2. ASSUME NEW i \in 1..Len(outbox)
          PROVE  /\ outbox'[i].control = outbox[i].control
                 /\ outbox'[i].status = IF outbox[i].control = x THEN "sent" ELSE outbox[i].status
      <4>1. outbox[i] \in Entries
        BY <1>1
      <4> QED
        BY <2>1, <3>1, <4>1 DEF Entries
    <3> QED
      BY <3>1, <3>2
  <2> HIDE DEF x
  <2>5. OutControls' = OutControls /\ OutboxInv'
    BY <2>4 DEF OutControls, OutboxInv, ClientInv
  <2>6. SentControls' = SentControls \cup {x}
    BY <2>2, <2>4 DEF SentControls, OutControls
  <2>7. SentControls \subseteq arrived /\ SentControls \subseteq Controls
    BY <1>1, SameBoxes DEF ClientInv
  <2>8. T' = T
    BY <1>1 DEF TodoControls
  <2>9. InHand(s) = T \cup {x} /\ InHand(s)' = T
    BY <1>2, <1>3, <1>6, <2>1, <2>8 DEF InHand, x
  <2>10. HandInv(s)'
    BY <1>1, <1>2, <1>3, <2>2, <2>5, <2>9 DEF HandInv
  <2>11. Asked(s)' = Asked(s) \cup {x} /\ x \notin Asked(s) /\ IsFiniteSet(Asked(s))
    <3>1. Asked(s) \subseteq Controls
      BY <2>7 DEF Asked
    <3>2. IsFiniteSet(Asked(s))
      BY <3>1, FS_Subset DEF FiniteAndFar
    <3> HIDE DEF T
    <3> QED
      BY <2>2, <2>6, <2>9, <3>2 DEF Asked
  <2>12. Cardinality(Asked(s)') = Cardinality(Asked(s)) + 1 /\ Cardinality(Asked(s)) \in Nat
    BY <2>11, FS_AddElement, FS_CardinalityType
  <2>13. First(s) = 2 /\ First(s)' = 2 /\ Asking(s) = 1 /\ Asking(s)' = 0
    BY <1>1, <1>2, <1>3, <1>6, <2>1 DEF First, Asking
  <2>14. First(s) + Cardinality(Asked(s)) + Asking(s) <= First(s)' + Cardinality(Asked(s)') + Asking(s)'
    BY <2>12, <2>13
  <2>15. Answers(conn[s], call'[s], arrived)
    <3>1. call[s].stage # "written" /\ call'[s].what # "control"
      BY <1>1, <1>2, <1>3
    <3> QED
      BY <1>1, <3>1, FreeAnswers
  <2>16. /\ SentControls \subseteq SentControls' /\ SentControls' \subseteq arrived
         /\ SentControls' \subseteq Controls /\ RowAsks \subseteq RowAsks' /\ OutControls \subseteq OutControls'
         /\ \A t \in Clients : t # s => call'[t] = call[t] /\ todo'[t] = todo[t] /\ place'[t] = place[t]
    BY <1>1, <1>2, <2>1, <2>3, <2>5, <2>6, <2>7, SameBoxes
  <2> QED
    BY <1>1, <1>4, <2>5, <2>10, <2>14, <2>15, <2>16, LoopCalls
<1> QED
  BY <1>5, <1>6

\* A user queues a control that was not queued, or answers a question.
LEMMA UserCalls ==
  ASSUME FiniteAndFar, ClientInv, Typed', NotesInv',
         (\E c \in Controls : QueueControl(c)) \/ \E i \in DOMAIN rows : AnswerRequest(i)
  PROVE  ClientInv'
<1>1. /\ Typed /\ outbox \in Seq(Entries) /\ rows \in Seq(Rows) /\ rows' \in Seq(Rows)
      /\ UNCHANGED <<conn, epoch, place, call, todo, arrived>> /\ OutboxInv
  BY DEF ClientInv, QueueControl, AnswerRequest, Typed, ClientTypes
<1>2. /\ SentControls' = SentControls /\ OutControls \subseteq OutControls' /\ OutboxInv'
      /\ RowAsks \subseteq RowAsks'
  <2>1. ASSUME NEW c \in Controls, QueueControl(c)
        PROVE  /\ SentControls' = SentControls /\ OutControls \subseteq OutControls' /\ OutboxInv'
               /\ RowAsks \subseteq RowAsks'
    <3> DEFINE e == [control |-> c, status |-> "pending"]
    <3>1. /\ outbox' = Append(outbox, e) /\ rows' = rows /\ e.control = c /\ e.status = "pending"
          /\ \A i \in 1..Len(outbox) : outbox[i].control # c
      BY <1>1, <2>1 DEF QueueControl
    <3> HIDE DEF e
    <3>2. /\ Len(outbox') = Len(outbox) + 1 /\ outbox'[Len(outbox) + 1] = e /\ Len(outbox) \in Nat
          /\ \A i \in 1..Len(outbox) : outbox'[i] = outbox[i] /\ i \in 1..Len(outbox')
          /\ \A i \in 1..Len(outbox') : i = Len(outbox) + 1 \/ i \in 1..Len(outbox)
      BY <1>1, <3>1
    <3>3. SentControls' = SentControls
      BY <3>1, <3>2 DEF SentControls
    <3>4. OutControls \subseteq OutControls'
      BY <3>2 DEF OutControls
    <3>5. OutboxInv'
      <4> SUFFICES ASSUME NEW i \in 1..Len(outbox'), NEW j \in 1..Len(outbox'),
                          outbox'[i].control = outbox'[j].control
                   PROVE  i = j
        BY DEF OutboxInv
      <4> QED
        BY <1>1, <3>1, <3>2 DEF OutboxInv
    <3> QED
      BY <1>1, <3>1, <3>3, <3>4, <3>5, SameBoxes
  <2>2. ASSUME NEW i \in DOMAIN rows, AnswerRequest(i)
        PROVE  /\ SentControls' = SentControls /\ OutControls \subseteq OutControls' /\ OutboxInv'
               /\ RowAsks \subseteq RowAsks'
    <3>1. outbox' = outbox /\ rows' = [rows EXCEPT ![i].status = "ready"]
      BY <2>2 DEF AnswerRequest
    <3>2. /\ Len(rows') = Len(rows) /\ Len(rows) \in Nat /\ DOMAIN rows = 1..Len(rows)
          /\ \A k \in 1..Len(rows) : rows[k] \in Rows
      BY <1>1, <3>1
    <3>3. ASSUME NEW k \in 1..Len(rows) PROVE rows'[k].ask = rows[k].ask
      <4>1. rows[k] \in Rows
        BY <3>2
      <4> QED
        BY <3>1, <3>2, <4>1 DEF Rows
    <3>4. RowAsks \subseteq RowAsks'
      BY <1>1, <3>2, <3>3, RowsKept
    <3> QED
      BY <1>1, <3>1, <3>4, SameBoxes DEF OutboxInv
  <2> QED
    BY <2>1, <2>2
<1>3. SentControls \subseteq Controls /\ SentControls \subseteq arrived
  BY <1>1, Boxes DEF ClientInv
<1>4. ASSUME NEW t \in Clients PROVE CallInv(t)'
  <2>1. /\ conn'[t] = conn[t] /\ call'[t] = call[t] /\ place'[t] = place[t] /\ todo'[t] = todo[t]
        /\ epoch'[t] = epoch[t] /\ CallInv(t) /\ arrived \subseteq arrived'
    BY <1>1 DEF ClientInv
  <2> QED
    BY <1>1, <1>2, <1>3, <2>1, OthersKeep
<1> QED
  BY <1>1, <1>2, <1>3, <1>4 DEF ClientInv

LEMMA InitCalls == ClientInit => ClientInv
<1> SUFFICES ASSUME ClientInit PROVE ClientInv
  OBVIOUS
<1>1. Typed /\ NotesInv
  BY InitTyped
<1>2. OutboxInv /\ SentControls = {}
  BY DEF ClientInit, OutboxInv, SentControls
<1>3. Closed.next = 1 /\ Closed.awaited = 0 /\ Closed.sent = <<>> /\ Closed.wire = <<>> /\ Closed.open = {}
  BY DEF Closed, Connected
<1>4. ASSUME NEW s \in Clients PROVE CallInv(s)
  <2>1. conn[s] = Closed /\ place[s] = "off" /\ call[s] = NoCall
    BY DEF ClientInit
  <2>2. NoCall.stage = "none" /\ NoCall.what = "none"
    BY DEF NoCall
  <2>3. StageInv(s) /\ HandInv(s)
    BY <2>1 DEF StageInv, HandInv
  <2>4. Asked(s) = {} /\ First(s) = 1 /\ Asking(s) = 0
    BY <1>2, <2>1, <2>2 DEF Asked, First, Asking
  <2>5. NumberInv(s)
    BY <1>3, <2>1, <2>4, FS_EmptySet DEF NumberInv
  <2>6. AnswerInv(s) /\ QuestionInv(s)
    BY <1>3, <2>1, <2>2 DEF AnswerInv, Answers, QuestionInv
  <2> QED
    BY <2>3, <2>5, <2>6 DEF CallInv
<1> QED
  BY <1>1, <1>2, <1>4 DEF ClientInv

\* Every step keeps the invariant.
LEMMA NextCalls ==
  ASSUME FiniteAndFar
  PROVE  ClientInv /\ ClientNext => ClientInv'
<1> SUFFICES ASSUME ClientInv, ClientNext PROVE ClientInv'
  OBVIOUS
<1>1. Typed' /\ NotesInv'
  BY NextNotes DEF ClientInv
<1>2. ASSUME NEW s \in Clients, Quiet(s) PROVE ClientInv'
  BY <1>1, <1>2, BeginCalls, ReadCalls, ReturnCalls DEF Quiet
<1>3. ASSUME NEW s \in Clients, EnterQueue(s) \/ Notify(s) \/ ServerAsks(s) \/ ServerExits(s) PROVE ClientInv'
  BY <1>1, <1>3, ConnStepCalls
<1>4. ASSUME NEW s \in Clients, TakeCommand(s) \/ RouteMessage(s) \/ EndOfStream(s) PROVE ClientInv'
  BY <1>1, <1>4, TakeCalls, RouteCalls, EndCalls
<1>5. ASSUME NEW s \in Clients, Fresh(s) \/ PumpOnce(s) \/ Handle(s) PROVE ClientInv'
  BY <1>1, <1>5, FreshCalls, PumpCalls, HandleCalls
<1> QED
  BY <1>1, <1>2, <1>3, <1>4, <1>5, StepsOf, UserCalls

LEMMA SameClient == ClientInv /\ UNCHANGED clientVars => ClientInv'
<1> SUFFICES ASSUME ClientInv, UNCHANGED clientVars PROVE ClientInv'
  OBVIOUS
<1>1. UNCHANGED <<conn, epoch, place, call, todo, outbox, rows, arrived>>
  BY DEF clientVars
<1>2. Typed' /\ NotesInv' /\ OutboxInv' /\ (SentControls \subseteq arrived)'
  BY <1>1 DEF ClientInv, Typed, ClientTypes, LoopInv, NotesInv, OutboxInv, SentControls
<1>3. ASSUME NEW s \in Clients PROVE CallInv(s)'
  <2>1. StageInv(s)' /\ QuestionInv(s)'
    BY <1>1 DEF ClientInv, CallInv, StageInv, QuestionInv, Carries, RowAsks
  <2>2. /\ InHand(s)' = InHand(s) /\ TodoControls(s)' = TodoControls(s) /\ OutControls' = OutControls
        /\ SentControls' = SentControls
    BY <1>1 DEF InHand, TodoControls, OutControls, SentControls
  <2>3. HandInv(s)'
    BY <1>1, <2>2 DEF ClientInv, CallInv, HandInv
  <2>4. Asked(s)' = Asked(s) /\ First(s)' = First(s) /\ Asking(s)' = Asking(s)
    BY <1>1, <2>2 DEF Asked, First, Asking
  <2>5. NumberInv(s)'
    BY <1>1, <2>4 DEF ClientInv, CallInv, NumberInv
  <2>6. AnswerInv(s)'
    BY <1>1 DEF ClientInv, CallInv, AnswerInv
  <2> QED
    BY <2>1, <2>3, <2>5, <2>6 DEF CallInv
<1> QED
  BY <1>2, <1>3 DEF ClientInv

\* The invariant holds in every state.
LEMMA CallsHold ==
  ASSUME FiniteAndFar
  PROVE  ClientSpec => []ClientInv
<1>1. ClientInv /\ ClientNext => ClientInv'
  BY NextCalls
<1> QED
  BY <1>1, InitCalls, SameClient, PTL DEF ClientSpec

\* What passes between the server and the run arrives or is said to be missing, whatever is
\* dropped, held up, refused, timed out, killed or reconnected on the way: every notification
\* is projected, on its way or announced, in order; a control marked sent was taken by a
\* server; a question that a live connection has open is on its way or in the table.
THEOREM NothingLost ==
  ASSUME FiniteAndFar
  PROVE  ClientSpec => []NothingIsLostInSilence
<1>1. ClientInv => SentControlsArrived /\ QuestionsReachTheTable
  <2> SUFFICES ASSUME ClientInv PROVE SentControlsArrived /\ QuestionsReachTheTable
    OBVIOUS
  <2>1. SentControlsArrived
    <3>1. DOMAIN outbox = 1..Len(outbox)
      BY DEF ClientInv, Typed, ClientTypes
    <3> QED
      BY <3>1 DEF ClientInv, SentControls, SentControlsArrived
  <2>2. ASSUME NEW s \in Clients, NEW id \in conn[s].open, conn[s].worker = "on"
        PROVE  \/ \E i \in DOMAIN Carried(conn[s]) : Carried(conn[s])[i] = Question(id)
               \/ \E i \in DOMAIN rows : rows[i].ask = [sup |-> s, epoch |-> epoch[s], id |-> id]
    <3>1. CASE [sup |-> s, epoch |-> epoch[s], id |-> id] \in RowAsks
      <4>1. DOMAIN rows = 1..Len(rows)
        BY DEF ClientInv, Typed, ClientTypes
      <4> QED
        BY <3>1, <4>1 DEF RowAsks
    <3>2. CASE Carries(conn[s], id)
      <4> DEFINE p == conn[s].queue
                 q == conn[s].held
                 w == conn[s].wire
                 x == Question(id)
      <4>1. p \in Seq(Events) /\ q \in Seq(Events) /\ w \in Seq(Events)
        BY OneOf
      <4>2. In(x, p) \/ In(x, q) \/ In(x, w)
        BY <3>2 DEF Carries
      <4>3. Carried(conn[s]) = p \o q \o w
        BY DEF Carried
      <4> HIDE DEF p, q, w, x
      <4>4. \E i \in DOMAIN (p \o q \o w) : (p \o q \o w)[i] = x
        <5>1. /\ DOMAIN (p \o q \o w) = 1..Len(p) + Len(q) + Len(w)
              /\ Len(p) \in Nat /\ Len(q) \in Nat /\ Len(w) \in Nat
              /\ \A i \in 1..Len(p) : (p \o q \o w)[i] = p[i]
              /\ \A i \in 1..Len(q) : (p \o q \o w)[Len(p) + i] = q[i]
              /\ \A i \in 1..Len(w) : (p \o q \o w)[Len(p) + Len(q) + i] = w[i]
          BY <4>1
        <5>2. CASE In(x, p)
          <6>1. PICK i \in 1..Len(p) : p[i] = x
            BY <5>2 DEF In
          <6>2. i \in DOMAIN (p \o q \o w)
            BY <5>1
          <6> QED
            BY <5>1, <6>1, <6>2
        <5>3. CASE In(x, q)
          <6>1. PICK i \in 1..Len(q) : q[i] = x
            BY <5>3 DEF In
          <6>2. Len(p) + i \in DOMAIN (p \o q \o w)
            BY <5>1
          <6> QED
            BY <5>1, <6>1, <6>2
        <5>4. CASE In(x, w)
          <6>1. PICK i \in 1..Len(w) : w[i] = x
            BY <5>4 DEF In
          <6>2. Len(p) + Len(q) + i \in DOMAIN (p \o q \o w)
            BY <5>1
          <6> QED
            BY <5>1, <6>1, <6>2
        <5> QED
          BY <4>2, <5>2, <5>3, <5>4
      <4> QED
        BY <4>3, <4>4 DEF x
    <3> QED
      BY <2>2, <3>1, <3>2, QuestionsOf
  <2> QED
    BY <2>1, <2>2 DEF QuestionsReachTheTable
<1> QED
  BY <1>1, CallsHold, NotificationsAddUp, PTL DEF NothingIsLostInSilence
==============================================================================
