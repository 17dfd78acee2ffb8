--------------------------- MODULE ChatServerProofs ---------------------------
(***************************************************************************)
(* Proofs about the chat.  Everybody in the room is told the same, and     *)
(* every line is said once, because of how four things hang together: the  *)
(* lists a client may be in (ListsInv), what the server is in the middle   *)
(* of saying and about whom (SayingInv), what a client may be doing with   *)
(* its connection (ClientInv), and how far along the log each client is    *)
(* (SameInv).  No one of them is kept by every step without the others.    *)
(***************************************************************************)
EXTENDS ChatServer, SequenceTheorems, TLAPS

-----------------------------------------------------------------------------
(* Lists without repetition *)

\* What is in a sequence, index by index.
LEMMA InSeq ==
    ASSUME NEW S, NEW q \in Seq(S), NEW n, n = Len(q)
    PROVE  /\ \A x : x \in ToSet(q) <=> \E i \in 1 .. n : x = q[i]
           /\ ToSet(q) \subseteq S /\ n \in Nat /\ DOMAIN q = 1 .. n
           /\ \A i \in 1 .. n : q[i] \in S
           /\ IsInjective(q) <=> \A i, j \in 1 .. n : q[i] = q[j] => i = j
BY LenProperties, ElementOfSeq DEF ToSet, IsInjective

\* The head of a list is in it, and its tail has the others.
LEMMA ListTail ==
    ASSUME NEW S, NEW q \in Seq(S), q # << >>, IsInjective(q)
    PROVE  /\ Head(q) \in ToSet(q) /\ Tail(q) \in Seq(S)
           /\ IsInjective(Tail(q)) /\ ToSet(Tail(q)) = ToSet(q) \ {Head(q)}
<1>1. /\ Tail(q) \in Seq(S) /\ Len(q) \in Nat /\ Len(q) # 0
      /\ Len(Tail(q)) = Len(q) - 1 /\ Head(q) = q[1]
      /\ \A i \in 1 .. Len(q) - 1 : Tail(q)[i] = q[i + 1]
  BY HeadTailProperties, EmptySeq, LenProperties
<1>2. /\ \A i, j \in 1 .. Len(q) : q[i] = q[j] => i = j
      /\ \A x : x \in ToSet(q) <=> \E i \in 1 .. Len(q) : x = q[i]
  BY InSeq
<1>3. /\ IsInjective(Tail(q)) <=> \A i, j \in 1 .. Len(q) - 1 : Tail(q)[i] = Tail(q)[j] => i = j
      /\ \A x : x \in ToSet(Tail(q)) <=> \E i \in 1 .. Len(q) - 1 : x = Tail(q)[i]
  <2> DEFINE t == Tail(q)
             n == Len(q) - 1
  <2>1. t \in Seq(S) /\ n = Len(t)
    BY <1>1
  <2> HIDE DEF t, n
  <2>2. /\ IsInjective(t) <=> \A i, j \in 1 .. n : t[i] = t[j] => i = j
        /\ \A x : x \in ToSet(t) <=> \E i \in 1 .. n : x = t[i]
    BY <2>1, InSeq
  <2> QED
    BY <2>2 DEF t, n
<1>4. IsInjective(Tail(q))
  <2>1. ASSUME NEW i \in 1 .. Len(q) - 1, NEW j \in 1 .. Len(q) - 1, Tail(q)[i] = Tail(q)[j]
        PROVE  i = j
    BY <1>1, <1>2, <2>1
  <2> QED
    BY <1>3, <2>1
<1>5. Head(q) \in ToSet(q)
  BY <1>1, <1>2
<1>6. ASSUME NEW x \in ToSet(Tail(q)) PROVE x \in ToSet(q) \ {Head(q)}
  <2>1. PICK i \in 1 .. Len(q) - 1 : x = q[i + 1]
    BY <1>1, <1>3, <1>6
  <2>2. i + 1 \in 1 .. Len(q) /\ 1 \in 1 .. Len(q) /\ i + 1 # 1
    BY <1>1
  <2> QED
    BY <1>1, <1>2, <2>1, <2>2
<1>7. ASSUME NEW x \in ToSet(q) \ {Head(q)} PROVE x \in ToSet(Tail(q))
  <2>1. PICK i \in 1 .. Len(q) : x = q[i]
    BY <1>2, <1>7
  <2>2. i # 1
    BY <1>1, <1>7, <2>1
  <2>3. i - 1 \in 1 .. Len(q) - 1 /\ Tail(q)[i - 1] = x
    BY <1>1, <2>1, <2>2
  <2> QED
    BY <1>3, <2>3
<1> QED
  BY <1>1, <1>4, <1>5, <1>6, <1>7

\* A newcomer at the end of a list.
LEMMA ListAppend ==
    ASSUME NEW S, NEW q \in Seq(S), NEW e \in S, IsInjective(q), e \notin ToSet(q)
    PROVE  /\ Append(q, e) \in Seq(S) /\ IsInjective(Append(q, e))
           /\ ToSet(Append(q, e)) = ToSet(q) \union {e}
<1> DEFINE a == Append(q, e)
           n == Len(q)
<1>1. /\ a \in Seq(S) /\ n \in Nat /\ Len(a) = n + 1 /\ a[n + 1] = e
      /\ \A i \in 1 .. n : a[i] = q[i]
  BY AppendProperties, LenProperties
<1>2. /\ \A i, j \in 1 .. n : q[i] = q[j] => i = j
      /\ \A x : x \in ToSet(q) <=> \E i \in 1 .. n : x = q[i]
  BY InSeq
<1>3. /\ IsInjective(a) <=> \A i, j \in 1 .. n + 1 : a[i] = a[j] => i = j
      /\ \A x : x \in ToSet(a) <=> \E i \in 1 .. n + 1 : x = a[i]
  <2>1. a \in Seq(S) /\ n + 1 = Len(a)
    BY <1>1
  <2> HIDE DEF a, n
  <2> QED
    BY <2>1, InSeq
<1>4. \A i \in 1 .. n + 1 : i \in 1 .. n \/ i = n + 1
  BY <1>1
<1>5. \A i \in 1 .. n : i \in 1 .. n + 1 /\ q[i] # e
  BY <1>1, <1>2
<1>6. n + 1 \in 1 .. n + 1
  BY <1>1
<1> HIDE DEF a, n
<1>7. IsInjective(a)
  BY <1>1, <1>2, <1>3, <1>4, <1>5
<1>8. ToSet(a) = ToSet(q) \union {e}
  BY <1>1, <1>2, <1>3, <1>4, <1>5, <1>6
<1> QED
  BY <1>1, <1>7, <1>8 DEF a

\* A newcomer at the head of a list.
LEMMA ListCons ==
    ASSUME NEW S, NEW q \in Seq(S), NEW e \in S, IsInjective(q), e \notin ToSet(q)
    PROVE  /\ << e >> \o q \in Seq(S) /\ IsInjective(<< e >> \o q)
           /\ ToSet(<< e >> \o q) = ToSet(q) \union {e}
<1> DEFINE a == << e >> \o q
           n == Len(q)
<1>1. /\ a \in Seq(S) /\ n \in Nat /\ Len(a) = n + 1 /\ a[1] = e
      /\ \A i \in 2 .. n + 1 : a[i] = q[i - 1]
  <2>1. << e >> \in Seq(S) /\ Len(<< e >>) = 1 /\ << e >>[1] = e
    OBVIOUS
  <2>2. n \in Nat
    BY LenProperties
  <2>3. /\ a \in Seq(S) /\ Len(a) = 1 + n
        /\ \A i \in 1 .. 1 + n : a[i] = IF i <= 1 THEN << e >>[i] ELSE q[i - 1]
    BY <2>1, ConcatProperties
  <2> HIDE DEF a, n
  <2> QED
    BY <2>1, <2>2, <2>3
<1>2. /\ \A i, j \in 1 .. n : q[i] = q[j] => i = j
      /\ \A x : x \in ToSet(q) <=> \E i \in 1 .. n : x = q[i]
  BY InSeq
<1>3. /\ IsInjective(a) <=> \A i, j \in 1 .. n + 1 : a[i] = a[j] => i = j
      /\ \A x : x \in ToSet(a) <=> \E i \in 1 .. n + 1 : x = a[i]
  <2>1. a \in Seq(S) /\ n + 1 = Len(a)
    BY <1>1
  <2> HIDE DEF a, n
  <2> QED
    BY <2>1, InSeq
<1>4. \A i \in 1 .. n + 1 : i = 1 \/ (i \in 2 .. n + 1 /\ i - 1 \in 1 .. n)
  BY <1>1
<1>5. \A i \in 1 .. n : i + 1 \in 2 .. n + 1 /\ i + 1 \in 1 .. n + 1 /\ (i + 1) - 1 = i /\ q[i] # e
  BY <1>1, <1>2
<1>6. 1 \in 1 .. n + 1
  BY <1>1
<1> HIDE DEF a, n
<1>7. IsInjective(a)
  <2>1. ASSUME NEW i \in 1 .. n + 1, NEW j \in 1 .. n + 1, a[i] = a[j] PROVE i = j
    <3>1. \A m \in 1 .. n + 1 : m = 1 \/ (m - 1 \in 1 .. n /\ a[m] = q[m - 1] /\ a[m] # e)
      BY <1>1, <1>4, <1>5
    <3>2. (i - 1 = j - 1) => i = j
      BY <1>1
    <3>3. CASE i = 1 \/ j = 1
      BY <1>1, <2>1, <3>1, <3>3
    <3>4. CASE i # 1 /\ j # 1
      <4>1. i - 1 \in 1 .. n /\ j - 1 \in 1 .. n /\ q[i - 1] = q[j - 1]
        BY <2>1, <3>1, <3>4
      <4> QED
        BY <1>2, <3>2, <4>1
    <3> QED
      BY <3>3, <3>4
  <2> QED
    BY <1>3, <2>1
<1>8. ToSet(a) = ToSet(q) \union {e}
  <2>1. ASSUME NEW x \in ToSet(a) PROVE x \in ToSet(q) \union {e}
    BY <1>1, <1>2, <1>3, <1>4
  <2>2. ASSUME NEW x \in ToSet(q) PROVE x \in ToSet(a)
    <3>1. PICK i \in 1 .. n : x = q[i]
      BY <1>2
    <3>2. i + 1 \in 1 .. n + 1 /\ a[i + 1] = x
      BY <1>1, <1>5, <3>1
    <3> QED
      BY <1>3, <3>2
  <2>3. e \in ToSet(a)
    BY <1>1, <1>3, <1>6
  <2> QED
    BY <2>1, <2>2, <2>3
<1> QED
  BY <1>1, <1>7, <1>8 DEF a

\* A list without the element at one place.
LEMMA ListRemove ==
    ASSUME NEW S, NEW q \in Seq(S), NEW k \in 1 .. Len(q), IsInjective(q)
    PROVE  /\ RemoveAt(q, k) \in Seq(S) /\ IsInjective(RemoveAt(q, k))
           /\ ToSet(RemoveAt(q, k)) = ToSet(q) \ {q[k]}
<1> DEFINE a == RemoveAt(q, k)
           n == Len(q)
<1>1. n \in Nat /\ k \in Int
  BY LenProperties
<1>2. \A i \in 1 .. n : q[i] \in S
  BY InSeq
<1>3. /\ SubSeq(q, 1, k - 1) \in Seq(S) /\ Len(SubSeq(q, 1, k - 1)) = k - 1
      /\ \A i \in 1 .. k - 1 : SubSeq(q, 1, k - 1)[i] = q[i]
  <2>1. 1 \in Int /\ k - 1 \in Int /\ \A i \in 1 .. k - 1 : q[i] \in S
    BY <1>1, <1>2
  <2>2. /\ SubSeq(q, 1, k - 1) \in Seq(S)
        /\ Len(SubSeq(q, 1, k - 1)) = IF 1 <= k - 1 THEN (k - 1) - 1 + 1 ELSE 0
        /\ \A i \in 1 .. (k - 1) - 1 + 1 : SubSeq(q, 1, k - 1)[i] = q[1 + i - 1]
    BY <2>1, SubSeqProperties
  <2> QED
    BY <1>1, <2>2
<1>4. /\ SubSeq(q, k + 1, n) \in Seq(S) /\ Len(SubSeq(q, k + 1, n)) = n - k
      /\ \A i \in 1 .. n - k : SubSeq(q, k + 1, n)[i] = q[k + i]
  <2>1. k + 1 \in Int /\ n \in Int /\ \A i \in k + 1 .. n : q[i] \in S
    BY <1>1, <1>2
  <2>2. /\ SubSeq(q, k + 1, n) \in Seq(S)
        /\ Len(SubSeq(q, k + 1, n)) = IF k + 1 <= n THEN n - (k + 1) + 1 ELSE 0
        /\ \A i \in 1 .. n - (k + 1) + 1 : SubSeq(q, k + 1, n)[i] = q[(k + 1) + i - 1]
    BY <2>1, SubSeqProperties
  <2> QED
    BY <1>1, <2>2
<1>5. /\ a \in Seq(S) /\ Len(a) = n - 1
      /\ \A i \in 1 .. n - 1 : a[i] = IF i <= k - 1 THEN q[i] ELSE q[i + 1]
  <2>1. /\ a \in Seq(S) /\ Len(a) = (k - 1) + (n - k)
        /\ \A i \in 1 .. (k - 1) + (n - k) :
             a[i] = IF i <= k - 1 THEN SubSeq(q, 1, k - 1)[i] ELSE SubSeq(q, k + 1, n)[i - (k - 1)]
    <3> DEFINE u == SubSeq(q, 1, k - 1)
               v == SubSeq(q, k + 1, n)
    <3>1. a = u \o v
      BY DEF RemoveAt
    <3>2. /\ u \in Seq(S) /\ v \in Seq(S) /\ Len(u) = k - 1 /\ Len(v) = n - k
      BY <1>3, <1>4
    <3> HIDE DEF u, v, a
    <3>3. /\ a \in Seq(S) /\ Len(a) = Len(u) + Len(v)
          /\ \A i \in 1 .. Len(u) + Len(v) : a[i] = IF i <= Len(u) THEN u[i] ELSE v[i - Len(u)]
      BY <3>1, <3>2, ConcatProperties
    <3>4. /\ a \in Seq(S) /\ Len(a) = (k - 1) + (n - k)
          /\ \A i \in 1 .. (k - 1) + (n - k) : a[i] = IF i <= k - 1 THEN u[i] ELSE v[i - (k - 1)]
      BY <3>2, <3>3
    <3> QED
      BY <3>4 DEF u, v
  <2> HIDE DEF a
  <2> QED
    BY <1>1, <1>3, <1>4, <2>1
<1>6. /\ \A i, j \in 1 .. n : q[i] = q[j] => i = j
      /\ \A x : x \in ToSet(q) <=> \E i \in 1 .. n : x = q[i]
  BY InSeq
<1>7. /\ IsInjective(a) <=> \A i, j \in 1 .. n - 1 : a[i] = a[j] => i = j
      /\ \A x : x \in ToSet(a) <=> \E i \in 1 .. n - 1 : x = a[i]
  <2>1. a \in Seq(S) /\ n - 1 = Len(a)
    BY <1>5
  <2> HIDE DEF a, n
  <2> QED
    BY <2>1, InSeq
<1> HIDE DEF a, n
<1>8. IsInjective(a)
  <2>1. ASSUME NEW i \in 1 .. n - 1, NEW j \in 1 .. n - 1, a[i] = a[j] PROVE i = j
    BY <1>1, <1>5, <1>6, <2>1
  <2> QED
    BY <1>7, <2>1
<1>9. ToSet(a) = ToSet(q) \ {q[k]}
  <2>1. ASSUME NEW x \in ToSet(a) PROVE x \in ToSet(q) \ {q[k]}
    <3>1. PICK i \in 1 .. n - 1 : x = IF i <= k - 1 THEN q[i] ELSE q[i + 1]
      BY <1>5, <1>7
    <3>2. i \in 1 .. n /\ i + 1 \in 1 .. n /\ k \in 1 .. n
      BY <1>1 DEF n
    <3> QED
      BY <1>1, <1>6, <3>1, <3>2
  <2>2. ASSUME NEW x \in ToSet(q) \ {q[k]} PROVE x \in ToSet(a)
    <3>1. PICK i \in 1 .. n : x = q[i]
      BY <1>6
    <3>2. CASE i < k
      <4>1. i \in 1 .. n - 1 /\ a[i] = x
        BY <1>1, <1>5, <3>1, <3>2 DEF n
      <4> QED
        BY <1>7, <4>1
    <3>3. CASE i > k
      <4>1. i - 1 \in 1 .. n - 1 /\ a[i - 1] = x
        BY <1>1, <1>5, <3>1, <3>3 DEF n
      <4> QED
        BY <1>7, <4>1
    <3> QED
      BY <1>1, <2>2, <3>1, <3>2, <3>3
  <2> QED
    BY <2>1, <2>2
<1> QED
  BY <1>5, <1>8, <1>9 DEF a

\* The list without client c.
LEMMA OthersList ==
    ASSUME clients \in Seq(Clients), IsInjective(clients), NEW c \in Listed
    PROVE  /\ Others(c) \in Seq(Clients) /\ IsInjective(Others(c))
           /\ ToSet(Others(c)) = Listed \ {c}
<1> DEFINE k == CHOOSE i \in DOMAIN clients : clients[i] = c
<1>1. \E i \in DOMAIN clients : clients[i] = c
  BY DEF Listed, ToSet
<1>2. k \in DOMAIN clients /\ clients[k] = c
  BY <1>1
<1>3. k \in 1 .. Len(clients)
  BY <1>2, LenProperties
<1>4. Others(c) = RemoveAt(clients, k)
  BY DEF Others
<1> HIDE DEF k
<1> QED
  BY <1>2, <1>3, <1>4, ListRemove DEF Listed

-----------------------------------------------------------------------------
(* The invariant *)

\* Every client is on its way in, in the room, or neither: it is in one list only,
\* and a connection the server knows has been opened.
ListsInv ==
    /\ IsInjective(backlog) /\ IsInjective(walk) /\ IsInjective(todo)
    /\ ToSet(walk) \subseteq Listed /\ ToSet(todo) \subseteq Listed
    /\ ToSet(backlog) \intersect Listed = {}
    /\ curr \notin ToSet(backlog)
    /\ \A c \in Listed \union ToSet(backlog) \union {curr} :
          c # NoClient => conn[c] \in {"open", "fin", "rst"}

\* What the server is in the middle of saying, and about whom.
SayingInv ==
    /\ spc # "write" => todo = <<>> /\ curr = NoClient
    /\ spc = "write" =>
         /\ Len(log) >= BlocksSaid /\ due <= BlocksSaid
         /\ curr \in Clients
         /\ LastKind \in {"login", "logout", "body"}
         /\ LastKind = "login" => curr \notin Listed
         /\ LastKind = "logout" => /\ curr \in Listed /\ conn[curr] # "open"
                                   /\ curr \notin ToSet(walk) \union ToSet(todo)

\* What a client may be doing with the connection as it is, and what may be in it.
ClientInv ==
    \A c \in Clients :
        /\ cpc[c] = "new" => conn[c] = "none" /\ up[c] = <<>>
        /\ cpc[c] \in {"select", "send", "recv"} => conn[c] = "open" /\ Len(up[c]) <= UpCap
        /\ cpc[c] = "send" => sent[c] < Lines[c]
        /\ cpc[c] = "recv" \/ (cpc[c] = "send" /\ sdReady[c]) => down[c] # <<>>
        /\ down[c] # <<>> => c \in Listed /\ conn[c] = "open"

\* SameForAll, block by block.
InStep(c) ==
    /\ pos[c] + Len(down[c]) + Ahead(c) = Len(log)
    /\ \A i \in 1 .. Len(down[c]) : down[c][i] = log[pos[c] + i]
SameInv == \A c \in Listed : conn[c] = "open" => InStep(c)

ChatInv == TypeOK /\ ListsInv /\ SayingInv /\ ClientInv /\ SameInv /\ EveryLineSaid

\* A piece of a sequence, block by block.
LEMMA PieceOf ==
    ASSUME NEW S, NEW l \in Seq(S), NEW d \in Seq(S), NEW p \in Nat, NEW a \in Nat,
           p + Len(d) + a = Len(l), \A i \in 1 .. Len(d) : d[i] = l[p + i]
    PROVE  d = SubSeq(l, p + 1, Len(l) - a)
<1>1. Len(l) \in Nat /\ Len(d) \in Nat /\ \A i \in 1 .. Len(l) : l[i] \in S
  BY LenProperties, ElementOfSeq
<1> DEFINE m == p + 1
           n == Len(l) - a
           t == SubSeq(l, m, n)
<1>2. m \in Int /\ n \in Int /\ n - m + 1 = Len(d) /\ \A i \in m .. n : l[i] \in S
  BY <1>1
<1>3. /\ t \in Seq(S) /\ Len(t) = IF m <= n THEN n - m + 1 ELSE 0
      /\ \A i \in 1 .. n - m + 1 : t[i] = l[m + i - 1]
  <2> HIDE DEF m, n
  <2> QED
    BY <1>2, SubSeqProperties
<1>4. Len(t) = Len(d) /\ \A i \in 1 .. Len(d) : d[i] = t[i]
  <2> HIDE DEF t
  <2> QED
    BY <1>1, <1>2, <1>3
<1> HIDE DEF t
<1>5. d = t
  BY <1>3, <1>4, SeqEqual
<1> QED
  BY <1>5 DEF t, m, n

\* The log after the server has begun to say one block or two.
LEMMA SayLog ==
    ASSUME TypeOK, NEW bs \in Seq(Blocks), NEW k \in 1 .. 2, Len(bs) = k, NEW dests, Say(bs, dests)
    PROVE  /\ log' \in Seq(Blocks) /\ Len(log) \in Nat /\ Len(log') = Len(log) + k
           /\ \A i \in 1 .. Len(log) : log'[i] = log[i]
           /\ \A i \in 1 .. k : log'[Len(log) + i] = bs[i]
           /\ LastKind' = bs[k].kind
<1>1. log \in Seq(Blocks) /\ Len(log) \in Nat /\ log' = log \o bs
  BY LenProperties DEF TypeOK, Say
<1>2. /\ log' \in Seq(Blocks) /\ Len(log') = Len(log) + k
      /\ \A i \in 1 .. Len(log) + k : log'[i] = IF i <= Len(log) THEN log[i] ELSE bs[i - Len(log)]
  BY <1>1, ConcatProperties
<1>3. \A i \in 1 .. k : log'[Len(log) + i] = bs[i]
  <2>1. ASSUME NEW i \in 1 .. k PROVE log'[Len(log) + i] = bs[i]
    <3>1. Len(log) + i \in 1 .. Len(log) + k /\ ~(Len(log) + i <= Len(log)) /\ (Len(log) + i) - Len(log) = i
      BY <1>1
    <3> QED
      BY <1>2, <3>1
  <2> QED
    BY <2>1
<1> QED
  BY <1>1, <1>2, <1>3 DEF LastKind

\* Nothing said before is changed, and those who are told lack just the new blocks.
LEMMA SaySame ==
    ASSUME TypeOK, SameInv, todo = << >>, NEW bs \in Seq(Blocks), NEW k \in 1 .. 2, Len(bs) = k,
           NEW dests \in Seq(Clients), Say(bs, dests), BlocksSaid' = k,
           UNCHANGED << clients, conn, down, pos >>,
           \A c \in Listed : conn[c] = "open" => c \in ToSet(dests)
    PROVE  SameInv'
<1> SUFFICES ASSUME NEW c \in Listed, conn[c] = "open" PROVE InStep(c)'
  BY DEF SameInv, Listed
<1>1. /\ Len(log) \in Nat /\ Len(log') = Len(log) + k
      /\ \A i \in 1 .. Len(log) : log'[i] = log[i]
  BY SayLog
<1>2. /\ c \in Clients /\ pos[c] \in Nat /\ Len(down[c]) \in Nat
  <2>1. c \in Clients
    <3>1. clients \in Seq(Clients)
      BY DEF TypeOK
    <3>2. ToSet(clients) \subseteq Clients
      BY <3>1, InSeq
    <3> QED
      BY <3>2 DEF Listed
  <2>2. down[c] \in Seq(Blocks) /\ pos \in [Clients -> 0 .. Len(log)]
    BY <2>1 DEF TypeOK
  <2>3. Len(down[c]) \in Nat
    BY <2>2, LenProperties
  <2> QED
    BY <1>1, <2>1, <2>2, <2>3
<1>3. Ahead(c) = 0
  BY DEF Ahead, ToSet
<1>4. Ahead(c)' = k
  BY DEF Ahead, Say
<1>5. pos'[c] = pos[c] /\ down'[c] = down[c]
  OBVIOUS
<1>6. InStep(c)
  BY DEF SameInv
<1>7. pos[c] + Len(down[c]) = Len(log)
  BY <1>1, <1>2, <1>3, <1>6 DEF InStep
<1>8. ASSUME NEW i \in 1 .. Len(down[c]) PROVE down[c][i] = log'[pos[c] + i]
  <2>1. pos[c] + i \in 1 .. Len(log)
    BY <1>1, <1>2, <1>7
  <2> QED
    BY <1>1, <1>6, <2>1 DEF InStep
<1>9. pos[c] + Len(down[c]) + k = Len(log')
  BY <1>1, <1>2, <1>7
<1> QED
  BY <1>4, <1>5, <1>8, <1>9 DEF InStep

\* A block that is not a line is nobody's.
LEMMA SayLines ==
    ASSUME TypeOK, EveryLineSaid, NEW b \in Blocks, b.kind # "body", NEW dests,
           Say(<< b >>, dests), UNCHANGED << up, sent >>
    PROVE  EveryLineSaid'
<1>1. /\ Len(log) \in Nat /\ Len(log') = Len(log) + 1
      /\ \A i \in 1 .. Len(log) : log'[i] = log[i]
      /\ log'[Len(log) + 1] = b
  <2>1. << b >> \in Seq(Blocks) /\ Len(<< b >>) = 1 /\ 1 \in 1 .. 2 /\ << b >>[1] = b
    OBVIOUS
  <2>2. /\ Len(log) \in Nat /\ Len(log') = Len(log) + 1
        /\ \A i \in 1 .. Len(log) : log'[i] = log[i]
        /\ \A i \in 1 .. 1 : log'[Len(log) + i] = << b >>[i]
    BY <2>1, SayLog
  <2> QED
    BY <2>1, <2>2
<1>2. \A c \in Clients : Said(c)' = Said(c) /\ Unread(c)' = Unread(c)
  <2>1. \A i \in 1 .. Len(log) + 1 : i \in 1 .. Len(log) \/ i = Len(log) + 1
    BY <1>1
  <2>2. \A i \in 1 .. Len(log) : i \in 1 .. Len(log) + 1
    BY <1>1
  <2> QED
    BY <1>1, <2>1, <2>2 DEF Said, Unread
<1>3. \A c \in Clients : \A i \in Said(c) : log'[i] = log[i]
  BY <1>1 DEF Said
<1> QED
  BY <1>2, <1>3 DEF EveryLineSaid
-----------------------------------------------------------------------------
(* What the steps have in common *)

\* What TypeOK says of the parts of the state.
LEMMA TypeFacts ==
    ASSUME TypeOK
    PROVE  /\ Listed \subseteq Clients /\ ToSet(walk) \subseteq Clients
           /\ ToSet(todo) \subseteq Clients /\ ToSet(backlog) \subseteq Clients
           /\ Len(log) \in Nat
           /\ \A i \in 1 .. Len(log) : log[i] \in Blocks
           /\ \A c \in Clients : /\ down[c] \in Seq(Blocks) /\ Len(down[c]) \in Nat
                                 /\ up[c] \in Seq(Nat) /\ Len(up[c]) \in Nat
                                 /\ pos[c] \in Nat /\ pos[c] <= Len(log)
                                 /\ sent[c] \in Nat /\ Lines[c] \in Nat
<1>1. /\ clients \in Seq(Clients) /\ walk \in Seq(Clients)
      /\ todo \in Seq(Clients) /\ backlog \in Seq(Clients) /\ log \in Seq(Blocks)
  BY DEF TypeOK
<1>2. /\ ToSet(clients) \subseteq Clients /\ ToSet(walk) \subseteq Clients
      /\ ToSet(todo) \subseteq Clients /\ ToSet(backlog) \subseteq Clients
  BY <1>1, InSeq
<1>3. Len(log) \in Nat /\ \A i \in 1 .. Len(log) : log[i] \in Blocks
  BY <1>1, InSeq
<1>4. ASSUME NEW c \in Clients
      PROVE  /\ down[c] \in Seq(Blocks) /\ Len(down[c]) \in Nat
             /\ up[c] \in Seq(Nat) /\ Len(up[c]) \in Nat
             /\ pos[c] \in Nat /\ pos[c] <= Len(log)
             /\ sent[c] \in Nat /\ Lines[c] \in Nat
  <2>1. /\ down[c] \in Seq(Blocks) /\ up[c] \in Seq(Nat) /\ pos[c] \in 0 .. Len(log)
        /\ sent[c] \in Nat /\ Lines[c] \in Nat
    BY ConstantsAssumption DEF TypeOK
  <2>2. Len(down[c]) \in Nat /\ Len(up[c]) \in Nat
    BY <2>1, LenProperties
  <2> QED
    BY <1>3, <2>1, <2>2
<1> QED
  BY <1>2, <1>3, <1>4 DEF Listed

\* A step that touches neither the log, nor what is on its way to the clients.
LEMMA SameFrame ==
    ASSUME SameInv,
           UNCHANGED << clients, conn, down, pos, log, todo, due >>
    PROVE  SameInv'
BY DEF SameInv, Listed, InStep, Ahead, BlocksSaid, LastKind

\* A step that touches nothing of a line on its way from a client to the room.
LEMMA LinesFrame ==
    ASSUME EveryLineSaid, UNCHANGED << log, up, sent >>
    PROVE  EveryLineSaid'
BY DEF EveryLineSaid, Said, Unread

\* A step that touches neither a client nor a socket.
LEMMA ClientFrame ==
    ASSUME ClientInv, UNCHANGED << clients, conn, up, down, cpc, sdReady, sent >>
    PROVE  ClientInv'
BY DEF ClientInv, Listed

\* A step of a client: the server goes on with what it does.
LEMMA SayingFrame ==
    ASSUME SayingInv, UNCHANGED server,
           \A c \in Clients : conn'[c] = "open" => conn[c] = "open" \/ c \notin Listed
    PROVE  SayingInv'
BY DEF SayingInv, server, Listed, BlocksSaid, LastKind

\* What the server says of a client that comes or goes is one block.
LEMMA SayOne ==
    ASSUME TypeOK, NEW b \in Blocks, b.kind # "body", NEW dests, Say(<< b >>, dests),
           UNCHANGED pos
    PROVE  /\ log' \in Seq(Blocks) /\ pos' \in [Clients -> 0 .. Len(log')]
           /\ Len(log') >= 1 /\ LastKind' = b.kind /\ BlocksSaid' = 1
           /\ due' = 1 /\ todo' = dests /\ spc' = "write"
<1>1. << b >> \in Seq(Blocks) /\ Len(<< b >>) = 1 /\ << b >>[1] = b /\ 1 \in 1 .. 2
  OBVIOUS
<1>2. /\ log' \in Seq(Blocks) /\ Len(log) \in Nat /\ Len(log') = Len(log) + 1
      /\ LastKind' = << b >>[1].kind
  BY <1>1, SayLog
<1>3. pos' \in [Clients -> 0 .. Len(log')]
  BY <1>2 DEF TypeOK
<1> QED
  BY <1>1, <1>2, <1>3 DEF Say, BlocksSaid

-----------------------------------------------------------------------------
(* The steps of the server *)

\* The server begins to tell the room that a client has come.
LEMMA AcceptInv ==
    ASSUME ChatInv, Accept PROVE ChatInv'
<1> DEFINE who == Head(backlog)
           b == Block("login", who, 0)
<1>0. TypeOK /\ ListsInv /\ SayingInv /\ ClientInv /\ SameInv /\ EveryLineSaid
  BY DEF ChatInv
<1>1. /\ spc = "select" /\ backlog # << >> /\ Say(<< b >>, clients) /\ curr' = who
      /\ backlog' = Tail(backlog)
      /\ UNCHANGED << clients, ready, walk, conn, up, down, client >>
  BY DEF Accept
<1>2. /\ who \in ToSet(backlog) /\ who \in Clients /\ Tail(backlog) \in Seq(Clients)
      /\ IsInjective(Tail(backlog)) /\ ToSet(Tail(backlog)) = ToSet(backlog) \ {who}
  <2>1. backlog \in Seq(Clients) /\ backlog # << >> /\ IsInjective(backlog)
    BY <1>0, <1>1 DEF TypeOK, ListsInv
  <2> QED
    BY <2>1, ListTail, <1>0, TypeFacts
<1>3. b \in Blocks /\ b.kind = "login"
  BY <1>2 DEF Block, Blocks
<1> HIDE DEF who, b
<1>4. << b >> \in Seq(Blocks) /\ Len(<< b >>) = 1 /\ << b >>[1] = b
  BY <1>3
<1>5. /\ log' \in Seq(Blocks) /\ pos' \in [Clients -> 0 .. Len(log')]
      /\ Len(log') >= 1 /\ LastKind' = "login" /\ BlocksSaid' = 1
  BY <1>0, <1>1, <1>3, SayOne DEF client
<1>6. due' = 1 /\ todo' = clients /\ spc' = "write"
  BY <1>0, <1>1, <1>3, SayOne DEF client
<1>7. TypeOK'
  <2>1. /\ ready' \subseteq Clients /\ curr' \in Clients
        /\ backlog' \in Seq(Clients) /\ todo' \in Seq(Clients) /\ clients' = clients /\ walk' = walk
        /\ UNCHANGED << conn, up, down, cpc, sdReady, sent, broken >>
    BY <1>0, <1>1, <1>2, <1>6 DEF TypeOK, client
  <2>2. spc' \in {"write"} /\ due' \in 1 .. 2 /\ IsInjective(clients)
        /\ clients \in Seq(Clients) /\ walk \in Seq(Clients)
    BY <1>0, <1>6 DEF TypeOK
  <2>3. /\ conn' \in [Clients -> {"none", "open", "fin", "rst", "closed"}]
        /\ up' \in [Clients -> Seq(Nat)] /\ \A c \in Clients : Len(up'[c]) <= UpCap + 1
        /\ down' \in [Clients -> Seq(Blocks)] /\ \A c \in Clients : Len(down'[c]) <= DownCap
    BY <1>0, <2>1 DEF TypeOK
  <2>4. /\ cpc' \in [Clients -> {"new", "select", "send", "recv", "gone"}]
        /\ sdReady' \in [Clients -> BOOLEAN]
        /\ sent' \in [Clients -> Nat] /\ \A c \in Clients : sent'[c] <= Lines[c]
        /\ broken' \subseteq Clients
    BY <1>0, <2>1 DEF TypeOK
  <2> QED
    BY <1>5, <2>1, <2>2, <2>3, <2>4 DEF TypeOK
<1>8. ListsInv'
  BY <1>0, <1>1, <1>2, <1>6 DEF TypeOK, ListsInv, Listed
<1>9. SayingInv'
  BY <1>0, <1>1, <1>2, <1>5, <1>6 DEF SayingInv, ListsInv, Listed
<1>10. ClientInv'
  BY <1>0, <1>1, ClientFrame DEF client
<1>11. SameInv'
  <2>1. /\ todo = << >> /\ clients \in Seq(Clients) /\ 1 \in 1 .. 2
        /\ UNCHANGED << clients, conn, down, pos >>
        /\ \A d \in Listed : conn[d] = "open" => d \in ToSet(clients)
    BY <1>0, <1>1 DEF TypeOK, SayingInv, Listed, client
  <2> QED
    BY <1>0, <1>1, <1>4, <1>5, <2>1, SaySame
<1>12. EveryLineSaid'
  BY <1>0, <1>1, <1>3, SayLines DEF client
<1> QED
  BY <1>7, <1>8, <1>9, <1>10, <1>11, <1>12 DEF ChatInv

\* The server goes on through its list, ends its round, or ends.
LEMMA MoveInv ==
    ASSUME ChatInv, SelectClients \/ Timeout \/ WalkOn \/ \E c \in Clients : ReadFails(c)
    PROVE  ChatInv'
<1>0. TypeOK /\ ListsInv /\ SayingInv /\ ClientInv /\ SameInv /\ EveryLineSaid
  BY DEF ChatInv
<1>1. /\ spc # "write" /\ spc' \in {"select", "walk", "timed_out", "failed"}
      /\ UNCHANGED << clients, todo, due, curr, log, net, client >>
  BY DEF SelectClients, Timeout, WalkOn, ReadFails, Reads
<1>2. /\ walk' \in Seq(Clients) /\ IsInjective(walk') /\ ToSet(walk') \subseteq Listed
      /\ ready' \subseteq Clients
  <2>1. /\ walk \in Seq(Clients) /\ IsInjective(walk) /\ ToSet(walk) \subseteq Listed
        /\ clients \in Seq(Clients) /\ IsInjective(clients) /\ ready \subseteq Clients
        /\ Listed \subseteq Clients
    BY <1>0, TypeFacts DEF TypeOK, ListsInv
  <2>2. CASE walk' = clients /\ ready' \subseteq Listed
    BY <2>1, <2>2 DEF Listed
  <2>3. CASE walk' = walk /\ ready' \subseteq ready
    BY <2>1, <2>3
  <2>4. CASE walk # << >> /\ walk' = Tail(walk) /\ ready' = ready
    BY <2>1, <2>4, ListTail
  <2> QED
    BY <2>2, <2>3, <2>4 DEF SelectClients, Timeout, WalkOn, ReadFails
<1>3. TypeOK'
  BY <1>0, <1>1, <1>2 DEF TypeOK, net, client
<1>4. ListsInv'
  BY <1>0, <1>1, <1>2 DEF ListsInv, Listed, net
<1>5. SayingInv'
  BY <1>0, <1>1 DEF SayingInv
<1>6. ClientInv'
  BY <1>0, <1>1, ClientFrame DEF net, client
<1>7. SameInv'
  BY <1>0, <1>1, SameFrame DEF net, client
<1>8. EveryLineSaid'
  BY <1>0, <1>1, LinesFrame DEF net, client
<1> QED
  BY <1>3, <1>4, <1>5, <1>6, <1>7, <1>8 DEF ChatInv

\* The client that the loop over the list has come to.
LEMMA ReadsFacts ==
    ASSUME TypeOK, ListsInv, NEW c \in Clients, Reads(c)
    PROVE  /\ spc = "walk" /\ c \in Listed /\ c \in ToSet(walk)
           /\ Tail(walk) \in Seq(Clients) /\ IsInjective(Tail(walk))
           /\ ToSet(Tail(walk)) = ToSet(walk) \ {c}
<1>1. /\ walk \in Seq(Clients) /\ walk # << >> /\ IsInjective(walk)
      /\ ToSet(walk) \subseteq Listed /\ c = Head(walk) /\ spc = "walk"
  BY DEF TypeOK, ListsInv, Reads
<1> QED
  BY <1>1, ListTail

\* The server begins to tell the others that a client has gone.
LEMMA ReadEndInv ==
    ASSUME ChatInv, NEW who \in Clients, ReadEnd(who) PROVE ChatInv'
<1> DEFINE b == Block("logout", who, 0)
<1>0. TypeOK /\ ListsInv /\ SayingInv /\ ClientInv /\ SameInv /\ EveryLineSaid
  BY DEF ChatInv
<1>1. /\ Reads(who) /\ conn[who] = "fin" /\ Say(<< b >>, Others(who)) /\ curr' = who
      /\ walk' = Tail(walk)
      /\ UNCHANGED << clients, ready, net, client >>
  BY DEF ReadEnd
<1>2. /\ spc = "walk" /\ who \in Listed
      /\ Tail(walk) \in Seq(Clients) /\ IsInjective(Tail(walk))
      /\ ToSet(Tail(walk)) = ToSet(walk) \ {who}
  BY <1>0, <1>1, ReadsFacts
<1>3. b \in Blocks /\ b.kind = "logout"
  BY DEF Block, Blocks
<1> HIDE DEF b
<1>4. /\ log' \in Seq(Blocks) /\ pos' \in [Clients -> 0 .. Len(log')]
      /\ Len(log') >= 1 /\ LastKind' = "logout" /\ BlocksSaid' = 1
  BY <1>0, <1>1, <1>3, SayOne DEF client
<1>5. due' = 1 /\ todo' = Others(who) /\ spc' = "write"
  BY <1>0, <1>1, <1>3, SayOne DEF client
<1>6. /\ Others(who) \in Seq(Clients) /\ IsInjective(Others(who))
      /\ ToSet(Others(who)) = Listed \ {who}
  BY <1>0, <1>2, OthersList DEF TypeOK
<1>7. TypeOK'
  <2>1. /\ ready' \subseteq Clients /\ curr' \in Clients /\ walk' \in Seq(Clients)
        /\ todo' \in Seq(Clients) /\ clients' = clients
        /\ UNCHANGED << backlog, conn, up, down, cpc, sdReady, sent, broken >>
    BY <1>0, <1>1, <1>2, <1>5, <1>6 DEF TypeOK, client, net
  <2>2. spc' \in {"write"} /\ due' \in 1 .. 2
    BY <1>5
  <2> QED
    BY <1>0, <1>4, <2>1, <2>2 DEF TypeOK
<1>8. ListsInv'
  BY <1>0, <1>1, <1>2, <1>5, <1>6 DEF ListsInv, Listed, net
<1>9. SayingInv'
  BY <1>1, <1>2, <1>4, <1>5, <1>6 DEF SayingInv, Listed, net
<1>10. ClientInv'
  BY <1>0, <1>1, ClientFrame DEF client, net
<1>11. SameInv'
  <2>1. /\ todo = << >> /\ 1 \in 1 .. 2
        /\ UNCHANGED << clients, conn, down, pos >>
        /\ \A d \in Listed : conn[d] = "open" => d \in ToSet(Others(who))
    BY <1>0, <1>1, <1>2, <1>6 DEF SayingInv, client, net
  <2>2. << b >> \in Seq(Blocks) /\ Len(<< b >>) = 1
    BY <1>3
  <2> QED
    BY <1>0, <1>1, <1>4, <1>6, <2>1, <2>2, SaySame
<1>12. EveryLineSaid'
  BY <1>0, <1>1, <1>3, SayLines DEF client, net
<1> QED
  BY <1>7, <1>8, <1>9, <1>10, <1>11, <1>12 DEF ChatInv

\* A line that goes from the head of a socket to the end of the log.
LEMMA SayLine ==
    ASSUME TypeOK, EveryLineSaid, NEW who \in Clients, up[who] # << >>, Head(up[who]) # Part,
           NEW h \in Blocks, h.kind = "head", NEW b \in Blocks, b.kind = "body", b.from = who,
           b.n = Head(up[who]), NEW dests, Say(<< h, b >>, dests),
           up' = [up EXCEPT ![who] = Tail(@)], UNCHANGED sent
    PROVE  EveryLineSaid'
<1> DEFINE N == Len(log)
           u == up[who]
           k == Len(up[who])
<1>1. /\ N \in Nat /\ k \in Nat /\ u \in Seq(Nat)
  BY TypeFacts
<1>2. /\ Len(log') = N + 2 /\ \A i \in 1 .. N : log'[i] = log[i]
      /\ log'[N + 1] = h /\ log'[N + 2] = b
  <2>1. /\ << h, b >> \in Seq(Blocks) /\ Len(<< h, b >>) = 2 /\ << h, b >>[1] = h
        /\ << h, b >>[2] = b /\ 2 \in 1 .. 2
    OBVIOUS
  <2>2. /\ Len(log') = N + 2 /\ \A i \in 1 .. N : log'[i] = log[i]
        /\ \A i \in 1 .. 2 : log'[N + i] = << h, b >>[i]
    BY <2>1, SayLog
  <2> QED
    BY <2>1, <2>2
<1>3. /\ k # 0 /\ Len(Tail(u)) = k - 1 /\ Head(u) = u[1]
      /\ \A i \in 1 .. k - 1 : Tail(u)[i] = u[i + 1]
  BY <1>1, HeadTailProperties, EmptySeq
<1>4. up'[who] = Tail(u) /\ \A c \in Clients \ {who} : up'[c] = up[c]
  BY DEF TypeOK
<1> HIDE DEF N, u, k
<1>5. \A i \in 1 .. N + 2 : i \in 1 .. N \/ i = N + 1 \/ i = N + 2
  BY <1>1
<1>6. /\ \A i \in 1 .. N : i \in 1 .. N + 2 /\ i # N + 1 /\ i # N + 2 /\ i < N + 2 /\ ~(N + 2 < i)
      /\ N + 2 \in 1 .. N + 2
  BY <1>1
<1>7. \A c \in Clients : \A i \in Said(c) : i \in 1 .. N /\ log'[i] = log[i]
  BY <1>2 DEF Said, N
<1>8. ASSUME NEW c \in Clients, c # who
      PROVE  Said(c)' = Said(c) /\ Unread(c)' = Unread(c) /\ up'[c] = up[c]
  <2>1. Said(c)' = {i \in 1 .. N + 2 : log'[i].kind = "body" /\ log'[i].from = c}
    BY <1>2 DEF Said
  <2>2. Said(c) = {i \in 1 .. N : log[i].kind = "body" /\ log[i].from = c}
    BY DEF Said, N
  <2>3. Said(c)' = Said(c)
    BY <1>2, <1>5, <1>6, <1>8, <2>1, <2>2
  <2>4. Unread(c)' = Unread(c) /\ up'[c] = up[c]
    BY <1>4, <1>8 DEF Unread
  <2> QED
    BY <2>3, <2>4
<1>9. Said(who)' = Said(who) \union {N + 2}
  <2>1. Said(who)' = {i \in 1 .. N + 2 : log'[i].kind = "body" /\ log'[i].from = who}
    BY <1>2 DEF Said
  <2>2. Said(who) = {i \in 1 .. N : log[i].kind = "body" /\ log[i].from = who}
    BY DEF Said, N
  <2> QED
    BY <1>2, <1>5, <1>6, <2>1, <2>2
<1>10. /\ Unread(who) = {i \in 1 .. k : u[i] # Part}
       /\ Unread(who)' = {i \in 1 .. k - 1 : u[i + 1] # Part}
       /\ 1 \in Unread(who) /\ u[1] = b.n
       /\ \A i \in Unread(who)' : /\ i + 1 \in Unread(who) /\ up'[who][i] = u[i + 1] /\ i \in Int
       /\ \A i \in Unread(who) : i = 1 \/ (i - 1 \in Unread(who)' /\ up'[who][i - 1] = u[i])
  <2>1. Unread(who) = {i \in 1 .. k : u[i] # Part}
    BY DEF Unread, u, k
  <2>2. Unread(who)' = {i \in 1 .. k - 1 : Tail(u)[i] # Part}
    BY <1>3, <1>4 DEF Unread
  <2>3. Unread(who)' = {i \in 1 .. k - 1 : u[i + 1] # Part}
    BY <1>3, <2>2
  <2>4. 1 \in 1 .. k /\ u[1] = b.n /\ u[1] # Part
    BY <1>1, <1>3 DEF u
  <2>5. \A i \in 1 .. k - 1 : i + 1 \in 1 .. k /\ i \in Int
    BY <1>1
  <2>6. \A i \in 1 .. k : i = 1 \/ (i - 1 \in 1 .. k - 1 /\ (i - 1) + 1 = i)
    BY <1>1
  <2>7. ASSUME NEW i \in Unread(who), i # 1
        PROVE  i - 1 \in Unread(who)' /\ up'[who][i - 1] = u[i]
    <3>1. i \in 1 .. k /\ u[i] # Part
      BY <2>1
    <3>2. i - 1 \in 1 .. k - 1 /\ (i - 1) + 1 = i
      BY <2>6, <2>7, <3>1
    <3> QED
      BY <1>3, <1>4, <2>3, <3>1, <3>2
  <2> QED
    BY <1>3, <1>4, <2>1, <2>3, <2>4, <2>5, <2>7
<1>11. /\ {log[i].n : i \in Said(who)} \union {u[i] : i \in Unread(who)} = 1 .. sent[who]
       /\ \A i, j \in Said(who) : i < j => log[i].n < log[j].n
       /\ \A i, j \in Unread(who) : i < j => u[i] < u[j]
       /\ \A i \in Said(who), j \in Unread(who) : log[i].n < u[j]
  BY DEF EveryLineSaid, u
<1>12. ASSUME NEW i \in Unread(who)' PROVE u[1] < up'[who][i]
  <2>1. 1 < i + 1 /\ i + 1 \in Unread(who)
    BY <1>1, <1>10
  <2> QED
    BY <1>10, <1>11, <2>1
<1>13. {log'[i].n : i \in Said(who)'} \union {up'[who][i] : i \in Unread(who)'} = 1 .. sent[who]
  <2>1. ASSUME NEW x \in {log'[i].n : i \in Said(who)'} \union {up'[who][i] : i \in Unread(who)'}
        PROVE  x \in {log[i].n : i \in Said(who)} \union {u[i] : i \in Unread(who)}
    <3>1. CASE \E i \in Said(who)' : x = log'[i].n
      BY <1>2, <1>7, <1>9, <1>10, <3>1
    <3>2. CASE \E i \in Unread(who)' : x = up'[who][i]
      <4>1. PICK i \in Unread(who)' : x = up'[who][i]
        BY <3>2
      <4>2. i + 1 \in Unread(who) /\ x = u[i + 1]
        BY <1>10, <4>1
      <4> QED
        BY <4>2
    <3> QED
      BY <2>1, <3>1, <3>2
  <2>2. ASSUME NEW x \in {log[i].n : i \in Said(who)} \union {u[i] : i \in Unread(who)}
        PROVE  x \in {log'[i].n : i \in Said(who)'} \union {up'[who][i] : i \in Unread(who)'}
    <3>1. CASE \E i \in Said(who) : x = log[i].n
      BY <1>7, <1>9, <3>1
    <3>2. CASE \E i \in Unread(who) : x = u[i]
      <4>1. PICK i \in Unread(who) : x = u[i]
        BY <3>2
      <4>2. CASE i = 1
        BY <1>2, <1>9, <1>10, <4>1, <4>2
      <4>3. CASE i # 1
        BY <1>10, <4>1, <4>3
      <4> QED
        BY <4>2, <4>3
    <3> QED
      BY <2>2, <3>1, <3>2
  <2> QED
    BY <1>11, <2>1, <2>2
<1>14. \A i, j \in Said(who)' : i < j => log'[i].n < log'[j].n
  <2>1. ASSUME NEW i \in Said(who)', NEW j \in Said(who)', i < j PROVE log'[i].n < log'[j].n
    <3>1. i \in Said(who)
      <4>1. j \in 1 .. N + 2
        BY <1>2 DEF Said
      <4> QED
        BY <1>1, <1>9, <2>1, <4>1
    <3>2. CASE j \in Said(who)
      BY <1>7, <1>11, <2>1, <3>1, <3>2
    <3>3. CASE j = N + 2
      BY <1>2, <1>7, <1>10, <1>11, <3>1, <3>3
    <3> QED
      BY <1>9, <3>2, <3>3
  <2> QED
    BY <2>1
<1>15. \A i, j \in Unread(who)' : i < j => up'[who][i] < up'[who][j]
  <2>1. ASSUME NEW i \in Unread(who)', NEW j \in Unread(who)', i < j
        PROVE  up'[who][i] < up'[who][j]
    <3>1. /\ i + 1 \in Unread(who) /\ j + 1 \in Unread(who) /\ i + 1 < j + 1
          /\ up'[who][i] = u[i + 1] /\ up'[who][j] = u[j + 1]
      <4>1. i \in Int /\ j \in Int /\ i + 1 \in Unread(who) /\ j + 1 \in Unread(who)
        BY <1>10, <2>1
      <4>2. up'[who][i] = u[i + 1] /\ up'[who][j] = u[j + 1]
        BY <1>10, <2>1
      <4>3. i < j
        BY <2>1
      <4>4. i + 1 < j + 1
        BY <4>1, <4>3
      <4> QED
        BY <4>1, <4>2, <4>4
    <3> QED
      BY <1>11, <3>1
  <2> QED
    BY <2>1
<1>16. \A i \in Said(who)', j \in Unread(who)' : log'[i].n < up'[who][j]
  <2>1. ASSUME NEW i \in Said(who)', NEW j \in Unread(who)' PROVE log'[i].n < up'[who][j]
    <3>1. CASE i \in Said(who)
      BY <1>7, <1>10, <1>11, <3>1
    <3>2. CASE i = N + 2
      BY <1>2, <1>10, <1>12, <3>2
    <3> QED
      BY <1>9, <3>1, <3>2
  <2> QED
    BY <2>1
<1>17. ASSUME NEW c \in Clients
       PROVE  /\ {log'[i].n : i \in Said(c)'} \union {up'[c][i] : i \in Unread(c)'} = 1 .. sent'[c]
              /\ \A i, j \in Said(c)' : i < j => log'[i].n < log'[j].n
              /\ \A i, j \in Unread(c)' : i < j => up'[c][i] < up'[c][j]
              /\ \A i \in Said(c)', j \in Unread(c)' : log'[i].n < up'[c][j]
  <2>1. CASE c = who
    BY <1>13, <1>14, <1>15, <1>16, <2>1
  <2>2. CASE c # who
    <3>1. /\ {log[i].n : i \in Said(c)} \union {up[c][i] : i \in Unread(c)} = 1 .. sent[c]
          /\ \A i, j \in Said(c) : i < j => log[i].n < log[j].n
          /\ \A i, j \in Unread(c) : i < j => up[c][i] < up[c][j]
          /\ \A i \in Said(c), j \in Unread(c) : log[i].n < up[c][j]
      BY DEF EveryLineSaid
    <3>2. \A i \in Said(c) : log'[i] = log[i]
      BY <1>7
    <3>3. Said(c)' = Said(c) /\ Unread(c)' = Unread(c) /\ up'[c] = up[c]
      BY <1>8, <2>2
    <3>4. {log'[i].n : i \in Said(c)} = {log[i].n : i \in Said(c)}
      BY <3>2
    <3>5. \A i, j \in Said(c) : i < j => log'[i].n < log'[j].n
      BY <3>1, <3>2
    <3>6. \A i \in Said(c), j \in Unread(c) : log'[i].n < up[c][j]
      BY <3>1, <3>2
    <3> QED
      BY <3>1, <3>3, <3>4, <3>5, <3>6
  <2> QED
    BY <2>1, <2>2
<1> QED
  BY <1>17 DEF EveryLineSaid

\* The server reads a line and begins to tell the room.
LEMMA ReadBlockInv ==
    ASSUME ChatInv, NEW who \in Clients, ReadBlock(who) PROVE ChatInv'
<1> DEFINE h == Block("head", who, 0)
           b == Block("body", who, Head(up[who]))
<1>0. TypeOK /\ ListsInv /\ SayingInv /\ ClientInv /\ SameInv /\ EveryLineSaid
  BY DEF ChatInv
<1>1. /\ Reads(who) /\ up[who] # << >> /\ Head(up[who]) # Part
      /\ Say(<< h, b >>, clients) /\ curr' = who /\ walk' = Tail(walk)
      /\ up' = [up EXCEPT ![who] = Tail(@)]
      /\ UNCHANGED << clients, ready, backlog, conn, down, client >>
  BY DEF ReadBlock
<1>2. /\ spc = "walk" /\ who \in Listed
      /\ Tail(walk) \in Seq(Clients) /\ IsInjective(Tail(walk))
      /\ ToSet(Tail(walk)) = ToSet(walk) \ {who}
  BY <1>0, <1>1, ReadsFacts
<1>3. /\ up[who] \in Seq(Nat) /\ Len(up[who]) \in Nat /\ Head(up[who]) \in Nat
      /\ Tail(up[who]) \in Seq(Nat) /\ Len(Tail(up[who])) = Len(up[who]) - 1
  <2>1. up[who] \in Seq(Nat) /\ Len(up[who]) \in Nat
    BY <1>0, TypeFacts
  <2> QED
    BY <1>1, <2>1, HeadTailProperties
<1>4. /\ h \in Blocks /\ h.kind = "head" /\ b \in Blocks /\ b.kind = "body" /\ b.from = who
      /\ b.n = Head(up[who])
  BY <1>3 DEF Block, Blocks
<1> HIDE DEF h, b
<1>5. /\ << h, b >> \in Seq(Blocks) /\ Len(<< h, b >>) = 2 /\ << h, b >>[2] = b /\ 2 \in 1 .. 2
  BY <1>4
<1>6. /\ log' \in Seq(Blocks) /\ Len(log) \in Nat /\ Len(log') = Len(log) + 2
      /\ LastKind' = "body"
  BY <1>0, <1>1, <1>4, <1>5, SayLog
<1>7. BlocksSaid' = 2 /\ due' = 2 /\ todo' = clients /\ spc' = "write"
  BY <1>1, <1>5, <1>6 DEF BlocksSaid, Say
<1>8. TypeOK'
  <2>1. pos' \in [Clients -> 0 .. Len(log')]
    BY <1>0, <1>1, <1>6 DEF TypeOK, client
  <2>2. /\ ready' \subseteq Clients /\ curr' \in Clients /\ walk' \in Seq(Clients)
        /\ todo' \in Seq(Clients) /\ clients' = clients
        /\ UNCHANGED << backlog, conn, down, cpc, sdReady, sent, broken >>
    BY <1>0, <1>1, <1>2, <1>7 DEF TypeOK, client
  <2>3. up' \in [Clients -> Seq(Nat)] /\ \A c \in Clients : Len(up'[c]) <= UpCap + 1
    <3>1. Len(up[who]) - 1 <= UpCap + 1
      BY <1>0, <1>3, ConstantsAssumption DEF TypeOK
    <3> QED
      BY <1>0, <1>1, <1>3, <3>1 DEF TypeOK
  <2>4. spc' \in {"write"} /\ due' \in 1 .. 2
    BY <1>7
  <2> QED
    BY <1>0, <1>6, <2>1, <2>2, <2>3, <2>4 DEF TypeOK
<1>9. ListsInv'
  BY <1>0, <1>1, <1>2, <1>7 DEF TypeOK, ListsInv, Listed
<1>10. SayingInv'
  BY <1>1, <1>6, <1>7 DEF SayingInv
<1>11. ClientInv'
  <2>1. ASSUME NEW c \in Clients PROVE Len(up'[c]) <= Len(up[c]) /\ (up[c] = << >> => up'[c] = << >>)
    <3>1. CASE c = who
      <4>1. Len(up[who]) - 1 <= Len(up[who])
        BY <1>3
      <4> QED
        BY <1>0, <1>1, <1>3, <3>1, <4>1 DEF TypeOK
    <3>2. CASE c # who
      BY <1>0, <1>1, <3>2, TypeFacts DEF TypeOK
    <3> QED
      BY <3>1, <3>2
  <2>2. \A c \in Clients : Len(up[c]) \in Nat /\ Len(up'[c]) \in Nat
    <3>1. up' \in [Clients -> Seq(Nat)]
      BY <1>8 DEF TypeOK
    <3>2. \A c \in Clients : up'[c] \in Seq(Nat)
      BY <3>1
    <3> QED
      BY <1>0, <3>2, TypeFacts, LenProperties
  <2>3. UNCHANGED << clients, conn, down, cpc, sdReady, sent >> /\ UpCap \in Nat
    BY <1>1, ConstantsAssumption DEF client
  <2> QED
    BY <1>0, <2>1, <2>2, <2>3 DEF ClientInv, Listed
<1>12. SameInv'
  <2>1. /\ todo = << >> /\ clients \in Seq(Clients)
        /\ UNCHANGED << clients, conn, down, pos >>
        /\ \A d \in Listed : conn[d] = "open" => d \in ToSet(clients)
    BY <1>0, <1>1, <1>2 DEF TypeOK, SayingInv, Listed, client
  <2> QED
    BY <1>0, <1>1, <1>5, <1>7, <2>1, SaySame
<1>13. EveryLineSaid'
  BY <1>0, <1>1, <1>4, SayLine DEF client
<1> QED
  BY <1>8, <1>9, <1>10, <1>11, <1>12, <1>13 DEF ChatInv

\* The server writes one block, or finds the client gone.
LEMMA WriteInv ==
    ASSUME ChatInv, Write PROVE ChatInv'
<1> DEFINE who == Head(todo)
           b == NextBlock
           N == Len(log)
<1>0. TypeOK /\ ListsInv /\ SayingInv /\ ClientInv /\ SameInv /\ EveryLineSaid
  BY DEF ChatInv
<1>1. /\ spc = "write" /\ todo # << >> /\ OneLess
      /\ \/ /\ conn[who] = "open" /\ Len(down[who]) < DownCap
            /\ down' = [down EXCEPT ![who] = Append(@, b)]
            /\ UNCHANGED conn
         \/ /\ conn[who] # "open"
            /\ conn' = [conn EXCEPT ![who] = "fin"]
            /\ UNCHANGED down
      /\ UNCHANGED << spc, clients, ready, walk, curr, log, backlog, up, client >>
  BY DEF Write
<1>2. /\ who \in ToSet(todo) /\ who \in Listed /\ who \in Clients /\ Tail(todo) \in Seq(Clients)
      /\ IsInjective(Tail(todo)) /\ ToSet(Tail(todo)) = ToSet(todo) \ {who}
  <2>1. todo \in Seq(Clients) /\ todo # << >> /\ IsInjective(todo)
    BY <1>0, <1>1 DEF TypeOK, ListsInv
  <2>2. ToSet(todo) \subseteq Listed /\ Listed \subseteq Clients
    BY <1>0, TypeFacts DEF ListsInv
  <2> QED
    BY <2>1, <2>2, ListTail
<1>3. /\ N \in Nat /\ due \in 1 .. 2 /\ BlocksSaid \in 1 .. 2 /\ due <= BlocksSaid /\ N >= BlocksSaid
      /\ BlocksSaid' = BlocksSaid /\ LastKind' = LastKind
  <2>1. N \in Nat /\ due \in 1 .. 2
    BY <1>0, TypeFacts DEF TypeOK
  <2>2. due <= BlocksSaid /\ N >= BlocksSaid
    BY <1>0, <1>1 DEF SayingInv
  <2>3. BlocksSaid \in 1 .. 2
    BY DEF BlocksSaid
  <2>4. BlocksSaid' = BlocksSaid /\ LastKind' = LastKind
    BY <1>1 DEF BlocksSaid, LastKind
  <2> QED
    BY <2>1, <2>2, <2>3, <2>4
<1>4. /\ b = log[N - due + 1] /\ b \in Blocks
  <2>1. N - due + 1 \in 1 .. N
    BY <1>3
  <2> QED
    BY <1>0, <2>1, TypeFacts DEF NextBlock
<1> HIDE DEF who, b, N
<1>5. \/ due = 2 /\ due' = 1 /\ todo' = todo
      \/ due = 1 /\ due' = BlocksSaid /\ todo' = Tail(todo)
  BY <1>1, <1>3 DEF OneLess
<1>6. /\ todo' \in Seq(Clients) /\ IsInjective(todo') /\ ToSet(todo') \subseteq ToSet(todo)
      /\ due' \in 1 .. 2 /\ due' <= BlocksSaid
  <2>1. todo \in Seq(Clients) /\ IsInjective(todo)
    BY <1>0 DEF TypeOK, ListsInv
  <2>2. CASE due' = 1 /\ todo' = todo
    BY <1>3, <2>1, <2>2
  <2>3. CASE due' = BlocksSaid /\ todo' = Tail(todo)
    <3>1. due' \in 1 .. 2 /\ due' <= BlocksSaid
      BY <1>3, <2>3
    <3> QED
      BY <1>2, <2>3, <3>1
  <2> QED
    BY <1>5, <2>2, <2>3
<1>7. /\ down[who] \in Seq(Blocks) /\ Append(down[who], b) \in Seq(Blocks)
      /\ Len(down[who]) \in Nat /\ Len(Append(down[who], b)) = Len(down[who]) + 1
      /\ \A i \in 1 .. Len(down[who]) : Append(down[who], b)[i] = down[who][i]
      /\ Append(down[who], b)[Len(down[who]) + 1] = b
      /\ Append(down[who], b) # << >>
  <2>1. down[who] \in Seq(Blocks) /\ Len(down[who]) \in Nat
    BY <1>0, <1>2, TypeFacts
  <2>2. Append(down[who], b) # << >>
    BY <1>4, <2>1, AppendProperties
  <2> QED
    BY <1>4, <2>1, <2>2, AppendProperties
<1>8. conn[who] # "open" => conn[who] \in {"fin", "rst"}
  BY <1>0, <1>2, ConstantsAssumption DEF ListsInv
<1>9. /\ conn' \in [Clients -> {"none", "open", "fin", "rst", "closed"}]
      /\ \A c \in Clients : /\ conn'[c] = "open" <=> conn[c] = "open"
                            /\ conn[c] \in {"fin", "rst"} <=> conn'[c] \in {"fin", "rst"}
                            /\ conn[c] = "none" <=> conn'[c] = "none"
  BY <1>0, <1>1, <1>2, <1>8 DEF TypeOK
<1>10. /\ down' \in [Clients -> Seq(Blocks)] /\ \A c \in Clients : Len(down'[c]) <= DownCap
       /\ \A c \in Clients : \/ down'[c] = down[c]
                             \/ c = who /\ conn[c] = "open" /\ down'[c] = Append(down[c], b)
  <2>1. CASE UNCHANGED down
    BY <1>0, <2>1 DEF TypeOK
  <2>2. CASE /\ conn[who] = "open" /\ Len(down[who]) < DownCap
             /\ down' = [down EXCEPT ![who] = Append(@, b)]
    <3>1. Len(Append(down[who], b)) <= DownCap
      BY <1>7, <2>2, ConstantsAssumption
    <3> QED
      BY <1>0, <1>2, <1>7, <2>2, <3>1 DEF TypeOK
  <2> QED
    BY <1>1, <2>1, <2>2
<1>11. TypeOK'
  <2>1. /\ UNCHANGED << spc, clients, ready, walk, curr, log, backlog, up, cpc, sdReady, sent, pos, broken >>
    BY <1>1 DEF client
  <2> QED
    BY <1>0, <1>6, <1>9, <1>10, <2>1 DEF TypeOK
<1>12. ListsInv'
  <2>1. /\ Listed \subseteq Clients /\ ToSet(backlog) \subseteq Clients /\ curr \in Clients \union {NoClient}
    BY <1>0, TypeFacts DEF TypeOK
  <2>2. \A c \in Listed \union ToSet(backlog) \union {curr} :
           c # NoClient => conn'[c] \in {"open", "fin", "rst"}
    BY <1>0, <1>9, <2>1 DEF ListsInv
  <2> QED
    BY <1>0, <1>1, <1>6, <2>2 DEF ListsInv, Listed
<1>13. SayingInv'
  BY <1>0, <1>1, <1>3, <1>6, <1>9 DEF SayingInv, Listed
<1>14. ClientInv'
  <2>1. UNCHANGED << clients, up, cpc, sdReady, sent >>
    BY <1>1 DEF client
  <2> QED
    BY <1>0, <1>2, <1>7, <1>9, <1>10, <2>1 DEF ClientInv, Listed
<1>15. SameInv'
  <2> SUFFICES ASSUME NEW c \in Listed, conn'[c] = "open" PROVE InStep(c)'
    BY <1>1 DEF SameInv, Listed
  <2>1. c \in Clients /\ conn[c] = "open"
    BY <1>0, <1>9, TypeFacts
  <2>2. /\ pos[c] + Len(down[c]) + Ahead(c) = N
        /\ \A i \in 1 .. Len(down[c]) : down[c][i] = log[pos[c] + i]
    BY <1>0, <2>1 DEF SameInv, InStep, N
  <2>3. pos[c] \in Nat /\ Len(down[c]) \in Nat
    BY <1>0, <2>1, TypeFacts
  <2>4. UNCHANGED << log, pos >>
    BY <1>1 DEF client
  <2>5. CASE c = who
    <3>1. down'[c] = Append(down[c], b)
      BY <1>0, <1>1, <1>2, <2>1, <2>5 DEF TypeOK
    <3>2. Ahead(c) = due
      BY <1>2, <2>5 DEF Ahead, who
    <3>3. Ahead(c)' = due - 1
      <4>1. CASE due = 2 /\ due' = 1 /\ todo' = todo
        BY <1>2, <2>5, <4>1 DEF Ahead, who
      <4>2. CASE due = 1 /\ todo' = Tail(todo)
        <5>1. c \notin ToSet(todo')
          BY <1>2, <2>5, <4>2
        <5> QED
          BY <4>2, <5>1 DEF Ahead
      <4> QED
        BY <1>5, <4>1, <4>2
    <3>4. pos[c] + Len(down[c]) + 1 = N - due + 1 /\ pos[c] + (Len(down[c]) + 1) = N - due + 1
      BY <1>3, <2>2, <2>3, <3>2
    <3>5. pos[c] + (Len(down[c]) + 1) + (due - 1) = N
      BY <1>3, <2>3, <3>4
    <3>6. \A i \in 1 .. Len(down[c]) + 1 : i \in 1 .. Len(down[c]) \/ i = Len(down[c]) + 1
      BY <2>3
    <3>7. \A i \in 1 .. Len(down[c]) + 1 : down'[c][i] = log[pos[c] + i]
      BY <1>4, <1>7, <2>2, <2>5, <3>1, <3>4, <3>6
    <3>8. Len(down'[c]) = Len(down[c]) + 1
      BY <1>7, <2>5, <3>1
    <3> QED
      BY <2>4, <3>3, <3>5, <3>7, <3>8 DEF InStep, N
  <2>6. CASE c # who
    <3>1. down'[c] = down[c]
      BY <1>10, <2>1, <2>6
    <3>2. CASE c \notin ToSet(todo)
      <4>1. Ahead(c) = 0 /\ Ahead(c)' = 0
        BY <1>6, <3>2 DEF Ahead
      <4> QED
        BY <2>2, <2>4, <3>1, <4>1 DEF InStep, N
    <3>3. CASE c \in ToSet(todo)
      <4>1. Ahead(c) = BlocksSaid
        BY <2>6, <3>3 DEF Ahead, who
      <4>2. Ahead(c)' = BlocksSaid
        BY <1>2, <1>3, <1>5, <2>6, <3>3 DEF Ahead, who
      <4> QED
        BY <2>2, <2>4, <3>1, <4>1, <4>2 DEF InStep, N
    <3> QED
      BY <3>2, <3>3
  <2> QED
    BY <2>5, <2>6
<1>16. EveryLineSaid'
  BY <1>0, <1>1, LinesFrame DEF client
<1> QED
  BY <1>11, <1>12, <1>13, <1>14, <1>15, <1>16 DEF ChatInv

\* Everybody has been told a line: the loop over the list goes on.
LEMMA RelayedInv ==
    ASSUME ChatInv, Relayed PROVE ChatInv'
<1>0. TypeOK /\ ListsInv /\ SayingInv /\ ClientInv /\ SameInv /\ EveryLineSaid
  BY DEF ChatInv
<1>1. /\ spc = "write" /\ todo = << >> /\ spc' = "walk" /\ curr' = NoClient
      /\ UNCHANGED << clients, ready, walk, todo, due, log, net, client >>
  BY DEF Relayed, Written
<1>2. NoClient \notin ToSet(backlog)
  BY <1>0, TypeFacts, ConstantsAssumption
<1>3. TypeOK'
  BY <1>0, <1>1 DEF TypeOK, net, client
<1>4. ListsInv'
  BY <1>0, <1>1, <1>2 DEF ListsInv, Listed, net
<1>5. SayingInv'
  BY <1>1 DEF SayingInv
<1>6. ClientInv'
  BY <1>0, <1>1, ClientFrame DEF net, client
<1>7. SameInv'
  BY <1>0, <1>1, SameFrame DEF net, client
<1>8. EveryLineSaid'
  BY <1>0, <1>1, LinesFrame DEF net, client
<1> QED
  BY <1>3, <1>4, <1>5, <1>6, <1>7, <1>8 DEF ChatInv

\* Everybody has been told of a newcomer: it enters the list, and from here on
\* it is told everything.
LEMMA InsertInv ==
    ASSUME ChatInv, Insert PROVE ChatInv'
<1>0. TypeOK /\ ListsInv /\ SayingInv /\ ClientInv /\ SameInv /\ EveryLineSaid
  BY DEF ChatInv
<1>1. /\ spc = "write" /\ todo = << >> /\ LastKind = "login" /\ spc' = "select" /\ curr' = NoClient
      /\ clients' = << curr >> \o clients
      /\ pos' = [pos EXCEPT ![curr] = Len(log)]
      /\ UNCHANGED << ready, walk, todo, due, log, net, cpc, sdReady, sent, broken >>
  BY DEF Insert, Written
<1>2. UNCHANGED << backlog, conn, up, down >>
  BY <1>1 DEF net
<1>3. /\ curr \in Clients /\ curr \notin Listed /\ curr # NoClient /\ Len(log) \in Nat
      /\ NoClient \notin ToSet(backlog) /\ curr \notin ToSet(backlog)
  BY <1>0, <1>1, TypeFacts, ConstantsAssumption DEF SayingInv, ListsInv
<1>4. /\ clients' \in Seq(Clients) /\ IsInjective(clients') /\ Listed' = Listed \union {curr}
  <2>1. clients \in Seq(Clients) /\ IsInjective(clients) /\ curr \notin ToSet(clients)
    BY <1>0, <1>3 DEF TypeOK, Listed
  <2> QED
    BY <1>1, <1>3, <2>1, ListCons DEF Listed
<1>5. pos' \in [Clients -> 0 .. Len(log)]
  BY <1>0, <1>1, <1>3 DEF TypeOK
<1>6. TypeOK'
  BY <1>0, <1>1, <1>2, <1>4, <1>5 DEF TypeOK
<1>7. ListsInv'
  BY <1>0, <1>1, <1>2, <1>3, <1>4 DEF ListsInv
<1>8. SayingInv'
  BY <1>1 DEF SayingInv
<1>9. ClientInv'
  BY <1>0, <1>1, <1>2, <1>4 DEF ClientInv
<1>10. SameInv'
  <2> SUFFICES ASSUME NEW c \in Listed', conn[c] = "open" PROVE InStep(c)'
    BY <1>2 DEF SameInv
  <2>1. Ahead(c) = 0 /\ Ahead(c)' = 0
    BY <1>1 DEF Ahead, ToSet
  <2>2. CASE c = curr
    <3>1. down[curr] = << >>
      BY <1>0, <1>3 DEF ClientInv
    <3>2. pos'[curr] = Len(log)
      BY <1>0, <1>1, <1>3 DEF TypeOK
    <3>3. Len(down'[c]) = 0 /\ pos'[c] = Len(log') /\ Len(log') \in Nat
      BY <1>1, <1>2, <1>3, <2>2, <3>1, <3>2
    <3> QED
      BY <2>1, <3>3 DEF InStep
  <2>3. CASE c # curr
    <3>1. c \in Listed /\ c \in Clients /\ InStep(c)
      BY <1>0, <1>4, <2>3, TypeFacts DEF SameInv
    <3>2. pos'[c] = pos[c]
      BY <1>0, <1>1, <2>3, <3>1 DEF TypeOK
    <3> QED
      BY <1>1, <1>2, <2>1, <3>1, <3>2 DEF InStep
  <2> QED
    BY <2>2, <2>3
<1>11. EveryLineSaid'
  BY <1>0, <1>1, <1>2, LinesFrame
<1> QED
  BY <1>6, <1>7, <1>8, <1>9, <1>10, <1>11 DEF ChatInv

\* Everybody has been told that a client has gone: it leaves the list.
LEMMA DeleteInv ==
    ASSUME ChatInv, Delete PROVE ChatInv'
<1>0. TypeOK /\ ListsInv /\ SayingInv /\ ClientInv /\ SameInv /\ EveryLineSaid
  BY DEF ChatInv
<1>1. /\ spc = "write" /\ todo = << >> /\ LastKind = "logout" /\ spc' = "walk" /\ curr' = NoClient
      /\ clients' = Others(curr)
      /\ conn' = [conn EXCEPT ![curr] = "closed"]
      /\ UNCHANGED << ready, walk, todo, due, log, backlog, up, down, client >>
  BY DEF Delete, Written
<1>2. UNCHANGED << cpc, sdReady, sent, pos, broken >>
  BY <1>1 DEF client
<1>3. /\ curr \in Listed /\ curr \in Clients /\ conn[curr] # "open" /\ curr \notin ToSet(walk)
      /\ curr \notin ToSet(backlog) /\ NoClient \notin ToSet(backlog)
      /\ Listed \subseteq Clients /\ ToSet(backlog) \subseteq Clients
  BY <1>0, <1>1, TypeFacts, ConstantsAssumption DEF SayingInv, ListsInv
<1>4. /\ clients' \in Seq(Clients) /\ IsInjective(clients') /\ Listed' = Listed \ {curr}
  <2>1. clients \in Seq(Clients) /\ IsInjective(clients)
    BY <1>0 DEF TypeOK
  <2>2. Listed' = ToSet(clients')
    BY DEF Listed
  <2> QED
    BY <1>1, <1>3, <2>1, <2>2, OthersList
<1>5. /\ conn' \in [Clients -> {"none", "open", "fin", "rst", "closed"}]
      /\ conn'[curr] = "closed" /\ \A c \in Clients \ {curr} : conn'[c] = conn[c]
  BY <1>0, <1>1, <1>3 DEF TypeOK
<1>6. TypeOK'
  BY <1>0, <1>1, <1>2, <1>4, <1>5 DEF TypeOK
<1>7. ListsInv'
  <2>1. ToSet(todo) = {}
    BY <1>1 DEF ToSet
  <2>2. ToSet(walk) \subseteq Listed' /\ ToSet(backlog) \intersect Listed' = {}
    BY <1>0, <1>3, <1>4 DEF ListsInv
  <2>3. \A c \in Listed' \union ToSet(backlog) : conn'[c] \in {"open", "fin", "rst"}
    BY <1>0, <1>3, <1>4, <1>5, ConstantsAssumption DEF ListsInv
  <2> QED
    BY <1>0, <1>1, <1>3, <2>1, <2>2, <2>3 DEF ListsInv
<1>8. SayingInv'
  BY <1>1 DEF SayingInv
<1>9. ClientInv'
  <2>1. conn[curr] \in {"fin", "rst"}
    BY <1>0, <1>3, ConstantsAssumption DEF ListsInv
  <2> QED
    BY <1>0, <1>1, <1>2, <1>3, <1>4, <1>5, <2>1 DEF ClientInv
<1>10. SameInv'
  <2> SUFFICES ASSUME NEW c \in Listed', conn'[c] = "open" PROVE InStep(c)'
    BY DEF SameInv
  <2>1. Ahead(c) = 0 /\ Ahead(c)' = 0
    BY <1>1 DEF Ahead, ToSet
  <2>2. InStep(c)
    BY <1>0, <1>3, <1>4, <1>5 DEF SameInv
  <2> QED
    BY <1>1, <1>2, <2>1, <2>2 DEF InStep
<1>11. EveryLineSaid'
  BY <1>0, <1>1, <1>2, LinesFrame
<1> QED
  BY <1>6, <1>7, <1>8, <1>9, <1>10, <1>11 DEF ChatInv

-----------------------------------------------------------------------------
(* The steps of a client *)

LEMMA ConnectInv ==
    ASSUME ChatInv, NEW who \in Clients, Connect(who) PROVE ChatInv'
<1>0. TypeOK /\ ListsInv /\ SayingInv /\ ClientInv /\ SameInv /\ EveryLineSaid
  BY DEF ChatInv
<1>1. /\ cpc[who] = "new" /\ cpc' = [cpc EXCEPT ![who] = "select"]
      /\ conn' = [conn EXCEPT ![who] = "open"] /\ backlog' = Append(backlog, who)
      /\ UNCHANGED << server, up, down, sdReady, sent, pos, broken >>
  BY DEF Connect
<1>2. UNCHANGED << spc, clients, ready, walk, todo, due, curr, log >>
  BY <1>1 DEF server
<1>3. /\ conn[who] = "none" /\ up[who] = << >> /\ who # NoClient
      /\ who \notin Listed /\ who \notin ToSet(backlog) /\ who # curr
  <2>1. conn[who] = "none" /\ up[who] = << >> /\ who # NoClient
    BY <1>0, <1>1, ConstantsAssumption DEF ClientInv
  <2> QED
    BY <1>0, <2>1 DEF ListsInv
<1>4. /\ backlog' \in Seq(Clients) /\ IsInjective(backlog')
      /\ ToSet(backlog') = ToSet(backlog) \union {who}
  <2>1. backlog \in Seq(Clients) /\ IsInjective(backlog)
    BY <1>0 DEF TypeOK, ListsInv
  <2> QED
    BY <1>1, <1>3, <2>1, ListAppend
<1>5. /\ conn' \in [Clients -> {"none", "open", "fin", "rst", "closed"}]
      /\ cpc' \in [Clients -> {"new", "select", "send", "recv", "gone"}]
      /\ conn'[who] = "open" /\ cpc'[who] = "select"
      /\ \A c \in Clients \ {who} : conn'[c] = conn[c] /\ cpc'[c] = cpc[c]
  BY <1>0, <1>1 DEF TypeOK
<1>6. TypeOK'
  BY <1>0, <1>1, <1>2, <1>4, <1>5 DEF TypeOK
<1>7. ListsInv'
  <2>1. Listed \subseteq Clients /\ ToSet(backlog) \subseteq Clients /\ curr \in Clients \union {NoClient}
    BY <1>0, TypeFacts DEF TypeOK
  <2>2. Listed' = Listed
    BY <1>2 DEF Listed
  <2> QED
    BY <1>0, <1>2, <1>3, <1>4, <1>5, <2>1, <2>2 DEF ListsInv
<1>8. SayingInv'
  BY <1>0, <1>1, <1>3, <1>5, SayingFrame
<1>9. ClientInv'
  <2>1. down[who] = << >> /\ Len(<< >>) <= UpCap
    BY <1>0, <1>3, ConstantsAssumption DEF ClientInv
  <2>2. Listed' = Listed
    BY <1>2 DEF Listed
  <2> QED
    BY <1>0, <1>1, <1>3, <1>5, <2>1, <2>2 DEF ClientInv
<1>10. SameInv'
  <2>1. Listed \subseteq Clients
    BY <1>0, TypeFacts
  <2>2. \A c \in Listed : conn'[c] = conn[c]
    BY <1>3, <1>5, <2>1
  <2> QED
    BY <1>0, <1>1, <1>2, <2>2 DEF SameInv, Listed, InStep, Ahead, BlocksSaid, LastKind
<1>11. EveryLineSaid'
  BY <1>0, <1>1, <1>2, LinesFrame
<1> QED
  BY <1>6, <1>7, <1>8, <1>9, <1>10, <1>11 DEF ChatInv

\* A client chooses what to do next, or finds the server gone.
LEMMA ChooseInv ==
    ASSUME ChatInv, NEW who \in Clients, Type(who) \/ Wake(who) \/ RemoteClosed(who)
    PROVE  ChatInv'
<1>0. TypeOK /\ ListsInv /\ SayingInv /\ ClientInv /\ SameInv /\ EveryLineSaid
  BY DEF ChatInv
<1>1. /\ UNCHANGED << server, net, sent, pos, broken >>
      /\ cpc[who] \in {"select", "send", "recv"}
      /\ \/ /\ cpc' = [cpc EXCEPT ![who] = "send"] /\ sent[who] < Lines[who]
            /\ sdReady' = [sdReady EXCEPT ![who] = down[who] # << >>]
         \/ cpc' = [cpc EXCEPT ![who] = "recv"] /\ down[who] # << >> /\ sdReady' = sdReady
         \/ cpc' = [cpc EXCEPT ![who] = "gone"] /\ sdReady' = sdReady
  BY DEF Type, Wake, RemoteClosed
<1>2. UNCHANGED << spc, clients, ready, walk, todo, due, curr, log, backlog, conn, up, down >>
  BY <1>1 DEF server, net
<1>3. /\ cpc' \in [Clients -> {"new", "select", "send", "recv", "gone"}]
      /\ cpc'[who] \in {"send", "recv", "gone"}
      /\ \A c \in Clients \ {who} : cpc'[c] = cpc[c]
  BY <1>0, <1>1 DEF TypeOK
<1>4. /\ sdReady' \in [Clients -> BOOLEAN]
      /\ \A c \in Clients \ {who} : sdReady'[c] = sdReady[c]
  BY <1>0, <1>1 DEF TypeOK
<1>5. TypeOK'
  BY <1>0, <1>1, <1>2, <1>3, <1>4 DEF TypeOK
<1>6. ListsInv'
  BY <1>0, <1>2 DEF ListsInv, Listed
<1>7. SayingInv'
  BY <1>0, <1>1, <1>2, SayingFrame
<1>8. ClientInv'
  <2> SUFFICES ASSUME NEW c \in Clients
               PROVE  /\ cpc'[c] = "new" => conn[c] = "none" /\ up[c] = <<>>
                      /\ cpc'[c] \in {"select", "send", "recv"} => conn[c] = "open" /\ Len(up[c]) <= UpCap
                      /\ cpc'[c] = "send" => sent[c] < Lines[c]
                      /\ cpc'[c] = "recv" \/ (cpc'[c] = "send" /\ sdReady'[c]) => down[c] # <<>>
                      /\ down[c] # <<>> => c \in Listed /\ conn[c] = "open"
    BY <1>1, <1>2 DEF ClientInv, Listed
  <2>1. CASE c # who
    BY <1>0, <1>3, <1>4, <2>1 DEF ClientInv
  <2>2. CASE c = who
    <3>1. /\ cpc'[who] = "recv" => down[who] # << >>
          /\ cpc'[who] = "send" => sent[who] < Lines[who]
      BY <1>0, <1>1 DEF TypeOK
    <3>2. cpc'[who] = "send" /\ sdReady'[who] => down[who] # << >>
      BY <1>0, <1>1 DEF TypeOK
    <3> QED
      BY <1>0, <1>1, <1>3, <2>2, <3>1, <3>2 DEF ClientInv
  <2> QED
    BY <2>1, <2>2
<1>9. SameInv'
  BY <1>0, <1>1, <1>2, SameFrame
<1>10. EveryLineSaid'
  BY <1>0, <1>1, <1>2, LinesFrame
<1> QED
  BY <1>5, <1>6, <1>7, <1>8, <1>9, <1>10 DEF ChatInv

\* A client sends its next line.
LEMMA SendInv ==
    ASSUME ChatInv, NEW who \in Clients, Send(who) PROVE ChatInv'
<1> DEFINE u == up[who]
           k == Len(up[who])
           s == sent[who]
<1>0. TypeOK /\ ListsInv /\ SayingInv /\ ClientInv /\ SameInv /\ EveryLineSaid
  BY DEF ChatInv
<1>1. /\ cpc[who] = "send" /\ k < UpCap
      /\ up' = [up EXCEPT ![who] = Append(u, s + 1)]
      /\ sent' = [sent EXCEPT ![who] = s + 1]
      /\ cpc' = [cpc EXCEPT ![who] = IF sdReady[who] THEN "recv" ELSE "select"]
      /\ sdReady' = [sdReady EXCEPT ![who] = FALSE]
      /\ UNCHANGED << server, backlog, conn, down, pos, broken >>
  BY DEF Send
<1>2. UNCHANGED << spc, clients, ready, walk, todo, due, curr, log >>
  BY <1>1 DEF server
<1>3. u \in Seq(Nat) /\ k \in Nat /\ s \in Nat /\ Lines[who] \in Nat /\ UpCap \in Nat
  BY <1>0, TypeFacts, ConstantsAssumption
<1>4. /\ Append(u, s + 1) \in Seq(Nat) /\ Len(Append(u, s + 1)) = k + 1
      /\ \A i \in 1 .. k : Append(u, s + 1)[i] = u[i]
      /\ Append(u, s + 1)[k + 1] = s + 1
  <2>1. s + 1 \in Nat
    BY <1>3
  <2> QED
    BY <1>3, <2>1, AppendProperties
<1>5. s < Lines[who] /\ conn[who] = "open" /\ (sdReady[who] => down[who] # << >>)
  BY <1>0, <1>1 DEF ClientInv
<1>6. /\ up' \in [Clients -> Seq(Nat)] /\ up'[who] = Append(u, s + 1)
      /\ sent' \in [Clients -> Nat] /\ sent'[who] = s + 1
      /\ \A c \in Clients \ {who} : up'[c] = up[c] /\ sent'[c] = sent[c]
  <2> HIDE DEF u, s
  <2>1. s + 1 \in Nat
    BY <1>3
  <2> QED
    BY <1>0, <1>1, <1>4, <2>1 DEF TypeOK
<1>7. /\ cpc' \in [Clients -> {"new", "select", "send", "recv", "gone"}]
      /\ (cpc'[who] = "recv" /\ down[who] # << >>) \/ cpc'[who] = "select"
      /\ \A c \in Clients \ {who} : cpc'[c] = cpc[c]
  BY <1>0, <1>1, <1>5 DEF TypeOK
<1>8. /\ sdReady' \in [Clients -> BOOLEAN]
      /\ \A c \in Clients \ {who} : sdReady'[c] = sdReady[c]
  BY <1>0, <1>1 DEF TypeOK
<1>9. TypeOK'
  <2>1. \A c \in Clients : Len(up'[c]) <= UpCap + 1
    <3>1. Len(up'[who]) <= UpCap + 1
      BY <1>1, <1>3, <1>4, <1>6
    <3>2. \A c \in Clients : Len(up[c]) <= UpCap + 1
      BY <1>0 DEF TypeOK
    <3> QED
      BY <1>6, <3>1, <3>2
  <2>2. \A c \in Clients : sent'[c] <= Lines[c]
    <3>1. s + 1 <= Lines[who]
      BY <1>3, <1>5
    <3> QED
      BY <1>0, <1>6, <3>1 DEF TypeOK
  <2> QED
    BY <1>0, <1>1, <1>2, <1>6, <1>7, <1>8, <2>1, <2>2 DEF TypeOK
<1>10. ListsInv'
  BY <1>0, <1>1, <1>2 DEF ListsInv, Listed
<1>11. SayingInv'
  BY <1>0, <1>1, SayingFrame
<1>12. ClientInv'
  <2>1. Len(up'[who]) <= UpCap
    BY <1>1, <1>3, <1>4, <1>6
  <2>2. Listed' = Listed
    BY <1>2 DEF Listed
  <2> QED
    BY <1>0, <1>1, <1>5, <1>6, <1>7, <1>8, <2>1, <2>2 DEF ClientInv
<1>13. SameInv'
  BY <1>0, <1>1, <1>2, SameFrame
<1>14. EveryLineSaid'
  <2>1. \A c \in Clients : Said(c)' = Said(c)
    BY <1>2 DEF Said
  <2>2. \A c \in Clients \ {who} : Unread(c)' = Unread(c)
    BY <1>6 DEF Unread
  <2>3. /\ Unread(who) = {i \in 1 .. k : u[i] # Part}
        /\ Unread(who)' = {i \in 1 .. k + 1 : up'[who][i] # Part}
    BY <1>4, <1>6 DEF Unread
  <2> HIDE DEF u, k, s
  <2>4. \A i \in 1 .. k : up'[who][i] = u[i]
    BY <1>4, <1>6
  <2>5. up'[who][k + 1] = s + 1 /\ s + 1 # Part
    BY <1>3, <1>4, <1>6 DEF Part
  <2>6. \A i \in 1 .. k + 1 : i \in 1 .. k \/ i = k + 1
    BY <1>3
  <2>7. k + 1 \in 1 .. k + 1 /\ \A i \in 1 .. k : i \in 1 .. k + 1
    BY <1>3
  <2>8. Unread(who)' = Unread(who) \union {k + 1}
    BY <2>3, <2>4, <2>5, <2>6, <2>7
  <2>9. /\ {log[i].n : i \in Said(who)} \union {u[i] : i \in Unread(who)} = 1 .. s
        /\ \A i, j \in Said(who) : i < j => log[i].n < log[j].n
        /\ \A i, j \in Unread(who) : i < j => u[i] < u[j]
        /\ \A i \in Said(who), j \in Unread(who) : log[i].n < u[j]
    BY <1>0 DEF EveryLineSaid, u, s
  <2>10. /\ \A i \in Unread(who) : i \in 1 .. k /\ up'[who][i] = u[i] /\ u[i] \in 1 .. s /\ u[i] < s + 1
         /\ \A i \in Said(who) : log[i].n \in 1 .. s /\ log[i].n < s + 1
    <3>1. \A i \in Unread(who) : i \in 1 .. k /\ up'[who][i] = u[i] /\ u[i] \in 1 .. s
      BY <2>3, <2>4, <2>9
    <3>2. \A i \in Said(who) : log[i].n \in 1 .. s
      BY <2>9
    <3>3. \A x \in 1 .. s : x < s + 1
      BY <1>3
    <3> QED
      BY <3>1, <3>2, <3>3
  <2>11. {log[i].n : i \in Said(who)} \union {up'[who][i] : i \in Unread(who)'} = 1 .. s + 1
    <3>1. {up'[who][i] : i \in Unread(who)'} = {u[i] : i \in Unread(who)} \union {s + 1}
      BY <2>5, <2>8, <2>10
    <3>2. 1 .. s + 1 = (1 .. s) \union {s + 1}
      BY <1>3
    <3> QED
      BY <2>9, <3>1, <3>2
  <2>12. \A i, j \in Unread(who)' : i < j => up'[who][i] < up'[who][j]
    <3>1. ASSUME NEW i \in Unread(who)', NEW j \in Unread(who)', i < j
          PROVE  up'[who][i] < up'[who][j]
      <4>1. i \in Unread(who)
        <5>1. i # k + 1
          BY <1>3, <2>3, <3>1
        <5> QED
          BY <2>8, <5>1
      <4>2. CASE j \in Unread(who)
        BY <2>9, <2>10, <3>1, <4>1, <4>2
      <4>3. CASE j = k + 1
        BY <2>5, <2>10, <4>1, <4>3
      <4> QED
        BY <2>8, <4>2, <4>3
    <3> QED
      BY <3>1
  <2>13. \A i \in Said(who), j \in Unread(who)' : log[i].n < up'[who][j]
    BY <2>5, <2>8, <2>9, <2>10
  <2> DEFINE InOrder(c) ==
               /\ {log[i].n : i \in Said(c)} \union {up'[c][i] : i \in Unread(c)'} = 1 .. sent'[c]
               /\ \A i, j \in Said(c) : i < j => log[i].n < log[j].n
               /\ \A i, j \in Unread(c)' : i < j => up'[c][i] < up'[c][j]
               /\ \A i \in Said(c), j \in Unread(c)' : log[i].n < up'[c][j]
  <2>14. ASSUME NEW c \in Clients PROVE InOrder(c)
    <3>1. CASE c = who
      <4>1. 1 .. sent'[who] = 1 .. s + 1
        BY <1>6
      <4>2. InOrder(who)
        BY <2>9, <2>11, <2>12, <2>13, <4>1, Zenon
      <4> HIDE DEF InOrder
      <4> QED
        BY <3>1, <4>2
    <3>2. CASE c # who
      <4>1. /\ {log[i].n : i \in Said(c)} \union {up[c][i] : i \in Unread(c)} = 1 .. sent[c]
            /\ \A i, j \in Said(c) : i < j => log[i].n < log[j].n
            /\ \A i, j \in Unread(c) : i < j => up[c][i] < up[c][j]
            /\ \A i \in Said(c), j \in Unread(c) : log[i].n < up[c][j]
        BY <1>0 DEF EveryLineSaid
      <4>2. up'[c] = up[c] /\ sent'[c] = sent[c] /\ Unread(c)' = Unread(c)
        BY <1>6, <2>2, <3>2
      <4> QED
        BY <4>1, <4>2
    <3> QED
      BY <3>1, <3>2
  <2> QED
    BY <1>2, <2>1, <2>14 DEF EveryLineSaid
<1> QED
  BY <1>9, <1>10, <1>11, <1>12, <1>13, <1>14 DEF ChatInv

\* A client reads the block that the log has for it.
LEMMA RecvInv ==
    ASSUME ChatInv, NEW who \in Clients, Recv(who) PROVE ChatInv'
<1> DEFINE d == down[who]
<1>0. TypeOK /\ ListsInv /\ SayingInv /\ ClientInv /\ SameInv /\ EveryLineSaid
  BY DEF ChatInv
<1>1. /\ cpc[who] = "recv" /\ down' = [down EXCEPT ![who] = Tail(d)]
      /\ pos' = [pos EXCEPT ![who] = pos[who] + 1]
      /\ cpc' = [cpc EXCEPT ![who] = "select"]
      /\ UNCHANGED << server, backlog, conn, up, sdReady, sent, broken >>
  BY DEF Recv
<1>2. UNCHANGED << spc, clients, ready, walk, todo, due, curr, log >>
  BY <1>1 DEF server
<1>3. d # << >> /\ who \in Listed /\ conn[who] = "open" /\ Len(up[who]) <= UpCap
  BY <1>0, <1>1 DEF ClientInv
<1>4. /\ d \in Seq(Blocks) /\ Len(d) \in Nat /\ Len(d) # 0 /\ pos[who] \in Nat /\ Len(log) \in Nat
      /\ Tail(d) \in Seq(Blocks) /\ Len(Tail(d)) = Len(d) - 1
      /\ \A i \in 1 .. Len(d) - 1 : Tail(d)[i] = d[i + 1]
  <2>1. d \in Seq(Blocks) /\ Len(d) \in Nat /\ pos[who] \in Nat /\ Len(log) \in Nat
    BY <1>0, TypeFacts
  <2> QED
    BY <1>3, <2>1, HeadTailProperties, EmptySeq
<1>5. Ahead(who) \in 0 .. 2 /\ \A c \in Clients : Ahead(c)' = Ahead(c)
  BY <1>0, <1>2 DEF TypeOK, Ahead, BlocksSaid, LastKind
<1>6. /\ pos[who] + Len(d) + Ahead(who) = Len(log)
      /\ \A i \in 1 .. Len(d) : d[i] = log[pos[who] + i]
  BY <1>0, <1>3 DEF SameInv, InStep
<1>7. pos[who] + 1 \in 0 .. Len(log)
  BY <1>4, <1>5, <1>6
<1> HIDE DEF d
<1>8. /\ pos' \in [Clients -> 0 .. Len(log)] /\ pos'[who] = pos[who] + 1
      /\ down' \in [Clients -> Seq(Blocks)] /\ down'[who] = Tail(d)
      /\ cpc' \in [Clients -> {"new", "select", "send", "recv", "gone"}] /\ cpc'[who] = "select"
      /\ \A c \in Clients \ {who} : pos'[c] = pos[c] /\ down'[c] = down[c] /\ cpc'[c] = cpc[c]
  BY <1>0, <1>1, <1>4, <1>7 DEF TypeOK
<1>9. TypeOK'
  <2>1. \A c \in Clients : Len(down'[c]) <= DownCap
    <3>1. Len(d) - 1 <= DownCap
      BY <1>0, <1>4, ConstantsAssumption DEF TypeOK, d
    <3> QED
      BY <1>0, <1>4, <1>8, <3>1 DEF TypeOK
  <2> QED
    BY <1>0, <1>1, <1>2, <1>8, <2>1 DEF TypeOK
<1>10. ListsInv'
  BY <1>0, <1>1, <1>2 DEF ListsInv, Listed
<1>11. SayingInv'
  BY <1>0, <1>1, SayingFrame
<1>12. ClientInv'
  <2>1. Listed' = Listed
    BY <1>2 DEF Listed
  <2> QED
    BY <1>0, <1>1, <1>3, <1>8, <2>1 DEF ClientInv
<1>13. SameInv'
  <2> SUFFICES ASSUME NEW c \in Listed, conn[c] = "open" PROVE InStep(c)'
    BY <1>1, <1>2 DEF SameInv, Listed
  <2>1. c \in Clients /\ InStep(c)
    BY <1>0, TypeFacts DEF SameInv
  <2>2. CASE c = who
    <3>1. (pos[who] + 1) + (Len(d) - 1) + Ahead(who) = Len(log)
      BY <1>4, <1>5, <1>6
    <3>2. \A i \in 1 .. Len(d) - 1 : Tail(d)[i] = log[(pos[who] + 1) + i]
      <4>1. ASSUME NEW i \in 1 .. Len(d) - 1 PROVE Tail(d)[i] = log[(pos[who] + 1) + i]
        <5>1. i + 1 \in 1 .. Len(d) /\ pos[who] + (i + 1) = (pos[who] + 1) + i
          BY <1>4
        <5> QED
          BY <1>4, <1>6, <5>1
      <4> QED
        BY <4>1
    <3> QED
      BY <1>2, <1>4, <1>5, <1>8, <2>1, <2>2, <3>1, <3>2 DEF InStep
  <2>3. CASE c # who
    BY <1>2, <1>5, <1>8, <2>1, <2>3 DEF InStep
  <2> QED
    BY <2>2, <2>3
<1>14. EveryLineSaid'
  BY <1>0, <1>1, <1>2, LinesFrame
<1> QED
  BY <1>9, <1>10, <1>11, <1>12, <1>13, <1>14 DEF ChatInv

\* A client closes its socket, perhaps in the middle of a block.
LEMMA CloseInv ==
    ASSUME ChatInv, NEW who \in Clients, Leave(who) \/ KilledInWrite(who) PROVE ChatInv'
<1>0. TypeOK /\ ListsInv /\ SayingInv /\ ClientInv /\ SameInv /\ EveryLineSaid
  BY DEF ChatInv
<1>1. /\ cpc[who] \in {"select", "send", "recv"} /\ cpc' = [cpc EXCEPT ![who] = "gone"]
      /\ conn' = [conn EXCEPT ![who] = IF down[who] = <<>> THEN "fin" ELSE "rst"]
      /\ down' = [down EXCEPT ![who] = <<>>]
      /\ sdReady' = [sdReady EXCEPT ![who] = FALSE]
      /\ broken' \in {broken, broken \union {who}}
      /\ UNCHANGED << server, backlog, sent, pos >>
      /\ up' = up \/ up' = [up EXCEPT ![who] = Append(@, Part)]
  BY DEF Leave, KilledInWrite, Close
<1>2. UNCHANGED << spc, clients, ready, walk, todo, due, curr, log >>
  BY <1>1 DEF server
<1>3. conn[who] = "open" /\ Len(up[who]) <= UpCap
  BY <1>0, <1>1 DEF ClientInv
<1>4. up[who] \in Seq(Nat) /\ Len(up[who]) \in Nat /\ UpCap \in Nat
  BY <1>0, TypeFacts, ConstantsAssumption
<1>5. /\ Append(up[who], Part) \in Seq(Nat) /\ Len(Append(up[who], Part)) = Len(up[who]) + 1
      /\ \A i \in 1 .. Len(up[who]) : Append(up[who], Part)[i] = up[who][i]
      /\ Append(up[who], Part)[Len(up[who]) + 1] = Part
  <2>1. Part \in Nat
    BY DEF Part
  <2> QED
    BY <1>4, <2>1, AppendProperties
<1>6. /\ up' \in [Clients -> Seq(Nat)] /\ \A c \in Clients : Len(up'[c]) <= UpCap + 1
      /\ up'[who] \in {up[who], Append(up[who], Part)}
      /\ \A c \in Clients \ {who} : up'[c] = up[c]
  <2>1. CASE up' = up
    BY <1>0, <2>1 DEF TypeOK
  <2>2. CASE up' = [up EXCEPT ![who] = Append(@, Part)]
    <3>1. Len(Append(up[who], Part)) <= UpCap + 1
      BY <1>3, <1>4, <1>5
    <3> QED
      BY <1>0, <1>5, <2>2, <3>1 DEF TypeOK
  <2> QED
    BY <1>1, <2>1, <2>2
<1>7. /\ conn' \in [Clients -> {"none", "open", "fin", "rst", "closed"}]
      /\ conn'[who] \in {"fin", "rst"}
      /\ cpc' \in [Clients -> {"new", "select", "send", "recv", "gone"}] /\ cpc'[who] = "gone"
      /\ \A c \in Clients \ {who} : conn'[c] = conn[c] /\ cpc'[c] = cpc[c]
  BY <1>0, <1>1 DEF TypeOK
<1>8. /\ down' \in [Clients -> Seq(Blocks)] /\ down'[who] = << >> /\ Len(<< >>) = 0
      /\ \A c \in Clients \ {who} : down'[c] = down[c]
  <2>1. << >> \in Seq(Blocks) /\ Len(<< >>) = 0
    OBVIOUS
  <2> QED
    BY <1>0, <1>1, <2>1 DEF TypeOK
<1>9. /\ sdReady' \in [Clients -> BOOLEAN]
      /\ \A c \in Clients \ {who} : sdReady'[c] = sdReady[c]
  BY <1>0, <1>1 DEF TypeOK
<1>10. TypeOK'
  <2>1. \A c \in Clients : Len(down'[c]) <= DownCap
    <3>1. 0 <= DownCap
      BY ConstantsAssumption
    <3>2. Len(down'[who]) <= DownCap
      BY <1>8, <3>1
    <3>3. \A c \in Clients \ {who} : Len(down'[c]) <= DownCap
      BY <1>0, <1>8 DEF TypeOK
    <3> QED
      BY <3>2, <3>3
  <2>2. broken' \subseteq Clients
    BY <1>0, <1>1 DEF TypeOK
  <2> QED
    BY <1>0, <1>1, <1>2, <1>6, <1>7, <1>8, <1>9, <2>1, <2>2 DEF TypeOK
<1>11. ListsInv'
  <2>1. /\ Listed \subseteq Clients /\ ToSet(backlog) \subseteq Clients /\ curr \in Clients \union {NoClient}
    BY <1>0, TypeFacts DEF TypeOK
  <2>2. Listed' = Listed
    BY <1>2 DEF Listed
  <2> QED
    BY <1>0, <1>1, <1>2, <1>7, <2>1, <2>2 DEF ListsInv
<1>12. SayingInv'
  BY <1>0, <1>1, <1>7, SayingFrame
<1>13. ClientInv'
  <2>1. Listed' = Listed
    BY <1>2 DEF Listed
  <2> QED
    BY <1>0, <1>1, <1>6, <1>7, <1>8, <1>9, <2>1 DEF ClientInv
<1>14. SameInv'
  <2> SUFFICES ASSUME NEW c \in Listed, conn'[c] = "open" PROVE InStep(c)'
    BY <1>2 DEF SameInv, Listed
  <2>1. c \in Clients /\ c # who
    BY <1>0, <1>7, TypeFacts
  <2>2. InStep(c)
    BY <1>0, <1>7, <2>1 DEF SameInv
  <2> QED
    BY <1>1, <1>2, <1>8, <2>1, <2>2 DEF InStep, Ahead, BlocksSaid, LastKind
<1>15. EveryLineSaid'
  <2>1. \A c \in Clients : Said(c)' = Said(c)
    BY <1>2 DEF Said
  <2>2. \A c \in Clients \ {who} : Unread(c)' = Unread(c) /\ up'[c] = up[c]
    BY <1>6 DEF Unread
  <2>3. Unread(who)' = Unread(who) /\ \A i \in Unread(who) : up'[who][i] = up[who][i]
    <3>1. CASE up'[who] = up[who]
      BY <3>1 DEF Unread
    <3>2. CASE up'[who] = Append(up[who], Part)
      <4> DEFINE k == Len(up[who])
      <4>1. /\ Unread(who) = {i \in 1 .. k : up[who][i] # Part}
            /\ Unread(who)' = {i \in 1 .. k + 1 : up'[who][i] # Part}
        BY <1>5, <3>2 DEF Unread
      <4>2. /\ \A i \in 1 .. k + 1 : i \in 1 .. k \/ i = k + 1
            /\ \A i \in 1 .. k : i \in 1 .. k + 1
        BY <1>4
      <4>3. up'[who][k + 1] = Part /\ \A i \in 1 .. k : up'[who][i] = up[who][i]
        BY <1>5, <3>2
      <4> HIDE DEF k
      <4> QED
        BY <4>1, <4>2, <4>3
    <3> QED
      BY <1>6, <3>1, <3>2
  <2>4. \A c \in Clients : Unread(c)' = Unread(c) /\ \A i \in Unread(c) : up'[c][i] = up[c][i]
    BY <2>2, <2>3
  <2> QED
    BY <1>0, <1>1, <1>2, <2>1, <2>4 DEF EveryLineSaid
<1> QED
  BY <1>10, <1>11, <1>12, <1>13, <1>14, <1>15 DEF ChatInv

-----------------------------------------------------------------------------
(* The theorems *)

\* Nobody is there and nothing is said.
LEMMA InitInv == Init => ChatInv
<1> SUFFICES ASSUME Init PROVE ChatInv
  OBVIOUS
<1>1. ToSet(<< >>) = {} /\ Len(<< >>) = 0 /\ IsInjective(<< >>)
  BY DEF ToSet, IsInjective
<1>2. \A c \in Clients : up[c] = << >> /\ down[c] = << >> /\ cpc[c] = "new" /\ conn[c] = "none"
                         /\ ~sdReady[c] /\ sent[c] = 0
  BY DEF Init
<1>3. TypeOK
  <2>1. << >> \in Seq(Clients) /\ << >> \in Seq(Blocks) /\ << >> \in Seq(Nat)
    OBVIOUS
  <2>2. pos \in [Clients -> 0 .. Len(log)]
    BY <1>1 DEF Init
  <2>3. /\ \A c \in Clients : Len(up[c]) <= UpCap + 1 /\ Len(down[c]) <= DownCap
        /\ \A c \in Clients : sent[c] <= Lines[c]
    <3>1. 0 <= UpCap + 1 /\ 0 <= DownCap /\ \A c \in Clients : 0 <= Lines[c]
      BY ConstantsAssumption
    <3> QED
      BY <1>1, <1>2, <3>1
  <2> QED
    BY <1>1, <2>1, <2>2, <2>3 DEF Init, TypeOK
<1>4. ListsInv
  BY <1>1 DEF Init, ListsInv, Listed
<1>5. SayingInv
  BY DEF Init, SayingInv
<1>6. ClientInv
  BY <1>2 DEF ClientInv
<1>7. SameInv
  BY <1>1 DEF Init, SameInv, Listed
<1>8. EveryLineSaid
  <2>1. ASSUME NEW c \in Clients PROVE Said(c) = {} /\ Unread(c) = {} /\ 1 .. sent[c] = {}
    BY <1>1, <1>2 DEF Init, Said, Unread
  <2> QED
    BY <2>1 DEF EveryLineSaid
<1> QED
  BY <1>3, <1>4, <1>5, <1>6, <1>7, <1>8 DEF ChatInv

\* Every step of the server and of a client keeps the invariant.
LEMMA StepInv == ChatInv /\ [Next]_vars => ChatInv'
<1> SUFFICES ASSUME ChatInv, [Next]_vars PROVE ChatInv'
  OBVIOUS
<1>1. CASE Server
  BY <1>1, AcceptInv, MoveInv, WriteInv, RelayedInv, InsertInv, DeleteInv, ReadBlockInv, ReadEndInv
     DEF Server
<1>2. CASE Timeout
  BY <1>2, MoveInv
<1>3. CASE \E c \in Clients : Client(c)
  BY <1>3, ConnectInv, ChooseInv, SendInv, RecvInv, CloseInv DEF Client
<1>4. CASE UNCHANGED vars
  <2>1. UNCHANGED << server, net, client >>
    BY <1>4 DEF vars
  <2>2. /\ UNCHANGED << spc, clients, ready, walk, todo, due, curr, log >>
        /\ UNCHANGED << backlog, conn, up, down >>
        /\ UNCHANGED << cpc, sdReady, sent, pos, broken >>
    BY <2>1 DEF server, net, client
  <2>3. TypeOK /\ ListsInv /\ SayingInv /\ ClientInv /\ SameInv /\ EveryLineSaid
    BY DEF ChatInv
  <2>4. TypeOK'
    BY <2>2, <2>3 DEF TypeOK
  <2>5. ListsInv'
    BY <2>2, <2>3 DEF ListsInv, Listed
  <2>6. SayingInv'
    BY <2>1, <2>2, <2>3, SayingFrame
  <2>7. ClientInv' /\ SameInv' /\ EveryLineSaid'
    BY <2>2, <2>3, ClientFrame, SameFrame, LinesFrame
  <2> QED
    BY <2>4, <2>5, <2>6, <2>7 DEF ChatInv
<1> QED
  BY <1>1, <1>2, <1>3, <1>4 DEF Next

\* The lists, the sockets and what the server is about are in step in every
\* state, whoever comes, leaves or is killed.
THEOREM ChatInvariance == Spec => []ChatInv
BY InitInv, StepInv, PTL DEF Spec

\* Every variable keeps to its type; no socket holds more than fits, nobody is
\* twice in the list, and no user sends more than was typed.
THEOREM ChatTypeCorrect == Spec => []TypeOK
<1>1. ChatInv => TypeOK
  BY DEF ChatInv
<1> QED
  BY <1>1, ChatInvariance, PTL

\* A client in the room is told everything said since it came in, once and in
\* the order in which all are told (server.c:150-224).
THEOREM RoomInStep == Spec => []SameForAll
<1>1. ChatInv => SameForAll
  <2> SUFFICES ASSUME ChatInv, NEW c \in Listed, conn[c] = "open"
               PROVE  down[c] = SubSeq(log, pos[c] + 1, Len(log) - Ahead(c))
                      /\ pos[c] + Len(down[c]) + Ahead(c) = Len(log)
    BY DEF SameForAll
  <2>1. TypeOK /\ InStep(c)
    BY DEF ChatInv, SameInv
  <2>2. c \in Clients /\ log \in Seq(Blocks) /\ down[c] \in Seq(Blocks) /\ pos[c] \in Nat
    BY <2>1, TypeFacts DEF TypeOK
  <2>3. Ahead(c) \in Nat
    BY <2>1 DEF TypeOK, Ahead, BlocksSaid
  <2> QED
    <3>1. /\ pos[c] + Len(down[c]) + Ahead(c) = Len(log)
          /\ \A i \in 1 .. Len(down[c]) : down[c][i] = log[pos[c] + i]
      BY <2>1 DEF InStep
    <3> DEFINE a == Ahead(c)
               d == down[c]
               p == pos[c]
    <3>2. /\ d \in Seq(Blocks) /\ p \in Nat /\ a \in Nat /\ p + Len(d) + a = Len(log)
          /\ \A i \in 1 .. Len(d) : d[i] = log[p + i]
      BY <2>2, <2>3, <3>1
    <3> HIDE DEF a, d, p
    <3>3. d = SubSeq(log, p + 1, Len(log) - a)
      BY <2>2, <3>2, PieceOf
    <3> QED
      BY <3>1, <3>3 DEF a, d, p
<1> QED
  BY <1>1, ChatInvariance, PTL

\* A line that a client sends is said in the room once, in order and under the
\* name of its sender, or is still on its way (server.c:205-224, client.c:170-184).
THEOREM LinesSaid == Spec => []EveryLineSaid
<1>1. ChatInv => EveryLineSaid
  BY DEF ChatInv
<1> QED
  BY <1>1, ChatInvariance, PTL
=============================================================================
