----------------------------- MODULE SyncProofs -----------------------------
(***************************************************************************)
(* What holds of Sync for every set of writers, every number of edits and  *)
(* every number of drops: its types, and that the replicas of a quiet room *)
(* are alike.                                                              *)
(*                                                                         *)
(* An edit has one author, who has it for good.  So replicas differ only   *)
(* where a client lacks an edit its author has, and then something is owed *)
(* on the way between these two: a request, an update, or the handshake of *)
(* a connection that nobody has answered (Debt).  That a debt is never     *)
(* lost but paid rests on the order of the frames: whoever knows of its    *)
(* own commitment knows of every key whose frames reach it, so a request   *)
(* is refused only by a client that has yet to ask (InOrder, Handshakes).  *)
(***************************************************************************)
EXTENDS Sync, FiniteSetTheorems, WellFoundedInduction, TLAPS

-----------------------------------------------------------------------------
(* Sequences, frames and vectors.                                          *)

\* What a queue holds when a frame joins it, leaves it or is cut off it.
LEMMA Seqs ==
    ASSUME NEW S, NEW s \in Seq(S)
    PROVE  /\ \A f \in ToSet(s) : f \in S
           /\ \A f \in S : /\ Append(s, f) \in Seq(S) /\ ToSet(Append(s, f)) = ToSet(s) \cup {f}
                           /\ Len(Append(s, f)) = Len(s) + 1 /\ Append(s, f)[Len(s) + 1] = f
                           /\ \A i \in 1..Len(s) : Append(s, f)[i] = s[i]
           /\ \A t \in Seq(S) : s \o t \in Seq(S) /\ ToSet(s \o t) = ToSet(s) \cup ToSet(t)
           /\ s # <<>> =>
                /\ Tail(s) \in Seq(S) /\ Head(s) \in S /\ Head(s) = s[1] /\ Len(s) \in Nat \ {0}
                /\ ToSet(s) = ToSet(Tail(s)) \cup {Head(s)} /\ Len(Tail(s)) = Len(s) - 1
                /\ \A i \in 1..(Len(s) - 1) : Tail(s)[i] = s[i + 1]
           /\ \A k \in 0..Len(s) :
                /\ SubSeq(s, 1, k) \in Seq(S) /\ ToSet(SubSeq(s, 1, k)) \subseteq ToSet(s)
                /\ Len(SubSeq(s, 1, k)) = k /\ \A i \in 1..k : SubSeq(s, 1, k)[i] = s[i]
           /\ \A f \in ToSet(s) : \E i \in 1..Len(s) : f = s[i]
           /\ \A i \in 1..Len(s) : s[i] \in ToSet(s)
<1>1. \A f \in ToSet(s) : f \in S
  BY DEF ToSet
<1>2. ASSUME NEW f \in S
      PROVE  /\ Append(s, f) \in Seq(S) /\ ToSet(Append(s, f)) = ToSet(s) \cup {f}
             /\ Len(Append(s, f)) = Len(s) + 1 /\ Append(s, f)[Len(s) + 1] = f
             /\ \A i \in 1..Len(s) : Append(s, f)[i] = s[i]
  <2>1. /\ Append(s, f) \in Seq(S) /\ Len(Append(s, f)) = Len(s) + 1
        /\ Append(s, f)[Len(s) + 1] = f /\ \A i \in 1..Len(s) : Append(s, f)[i] = s[i]
        /\ DOMAIN s = 1..Len(s) /\ DOMAIN Append(s, f) = 1..(Len(s) + 1) /\ Len(s) \in Nat
    OBVIOUS
  <2> QED BY <2>1 DEF ToSet
<1>3. ASSUME NEW t \in Seq(S)
      PROVE  s \o t \in Seq(S) /\ ToSet(s \o t) = ToSet(s) \cup ToSet(t)
  <2>1. /\ s \o t \in Seq(S) /\ Len(s \o t) = Len(s) + Len(t) /\ Len(s) \in Nat /\ Len(t) \in Nat
        /\ \A i \in 1..Len(s) : (s \o t)[i] = s[i]
        /\ \A i \in 1..Len(t) : (s \o t)[Len(s) + i] = t[i]
        /\ DOMAIN s = 1..Len(s) /\ DOMAIN t = 1..Len(t) /\ DOMAIN (s \o t) = 1..(Len(s) + Len(t))
    OBVIOUS
  <2>2. ASSUME NEW i \in 1..(Len(s) + Len(t))
        PROVE  (s \o t)[i] \in ToSet(s) \cup ToSet(t)
    <3>1. CASE i \in 1..Len(s)
      BY <2>1, <3>1 DEF ToSet
    <3>2. CASE i \notin 1..Len(s)
      <4>1. i - Len(s) \in 1..Len(t) /\ i = Len(s) + (i - Len(s))
        BY <2>1, <3>2
      <4>2. (s \o t)[i] = t[i - Len(s)]
        BY <2>1, <4>1
      <4> QED BY <2>1, <4>1, <4>2 DEF ToSet
    <3> QED BY <3>1, <3>2
  <2>3. ASSUME NEW i \in 1..Len(s) PROVE s[i] \in ToSet(s \o t)
    BY <2>1 DEF ToSet
  <2>4. ASSUME NEW i \in 1..Len(t) PROVE t[i] \in ToSet(s \o t)
    <3>1. Len(s) + i \in 1..(Len(s) + Len(t))
      BY <2>1
    <3> QED BY <2>1, <3>1 DEF ToSet
  <2> QED BY <2>1, <2>2, <2>3, <2>4 DEF ToSet
<1>4. ASSUME s # <<>>
      PROVE  /\ Tail(s) \in Seq(S) /\ Head(s) \in S /\ Head(s) = s[1] /\ Len(s) \in Nat \ {0}
             /\ ToSet(s) = ToSet(Tail(s)) \cup {Head(s)} /\ Len(Tail(s)) = Len(s) - 1
             /\ \A i \in 1..(Len(s) - 1) : Tail(s)[i] = s[i + 1]
  <2>1. /\ Tail(s) \in Seq(S) /\ Head(s) \in S /\ Head(s) = s[1] /\ Len(s) \in Nat \ {0}
        /\ Len(Tail(s)) = Len(s) - 1 /\ \A i \in 1..(Len(s) - 1) : Tail(s)[i] = s[i + 1]
        /\ DOMAIN s = 1..Len(s) /\ DOMAIN Tail(s) = 1..(Len(s) - 1)
    BY <1>4
  <2>2. ASSUME NEW i \in 1..Len(s) PROVE s[i] \in ToSet(Tail(s)) \cup {Head(s)}
    <3>1. CASE i = 1
      BY <2>1, <3>1
    <3>2. CASE i # 1
      <4>1. i - 1 \in 1..(Len(s) - 1) /\ i = (i - 1) + 1
        BY <2>1, <3>2
      <4>2. Tail(s)[i - 1] = s[i]
        BY <2>1, <4>1
      <4> QED BY <2>1, <4>1, <4>2 DEF ToSet
    <3> QED BY <3>1, <3>2
  <2>3. ASSUME NEW i \in 1..(Len(s) - 1) PROVE Tail(s)[i] \in ToSet(s)
    <3>1. i + 1 \in 1..Len(s)
      BY <2>1
    <3> QED BY <2>1, <3>1 DEF ToSet
  <2>4. s[1] \in ToSet(s)
    BY <2>1 DEF ToSet
  <2> QED BY <2>1, <2>2, <2>3, <2>4 DEF ToSet
<1>5. ASSUME NEW k \in 0..Len(s)
      PROVE  /\ SubSeq(s, 1, k) \in Seq(S) /\ ToSet(SubSeq(s, 1, k)) \subseteq ToSet(s)
             /\ Len(SubSeq(s, 1, k)) = k /\ \A i \in 1..k : SubSeq(s, 1, k)[i] = s[i]
  <2>1. /\ SubSeq(s, 1, k) \in Seq(S) /\ Len(SubSeq(s, 1, k)) = k
        /\ \A i \in 1..k : SubSeq(s, 1, k)[i] = s[i]
        /\ DOMAIN s = 1..Len(s) /\ DOMAIN SubSeq(s, 1, k) = 1..k
    OBVIOUS
  <2> QED BY <2>1 DEF ToSet
<1>6. /\ \A f \in ToSet(s) : \E i \in 1..Len(s) : f = s[i]
      /\ \A i \in 1..Len(s) : s[i] \in ToSet(s)
  BY DEF ToSet
<1> QED BY <1>1, <1>2, <1>3, <1>4, <1>5, <1>6

\* Of two queues joined.
LEMMA Joined ==
    ASSUME NEW S, NEW s \in Seq(S), NEW t \in Seq(S)
    PROVE  s \o t \in Seq(S) /\ ToSet(s \o t) = ToSet(s) \cup ToSet(t)
<1>1. \A u \in Seq(S) : s \o u \in Seq(S) /\ ToSet(s \o u) = ToSet(s) \cup ToSet(u)
  BY Seqs
<1> QED BY <1>1

\* What frames, keys and edits are.
LEMMA Frames ==
    /\ \A f \in Said : /\ f.from \in Numbered /\ f.what \in {"announcement", "update", "step1"}
                       /\ f.what = "update" => f.edits \in SUBSET Numbered
                       /\ f.what = "step1" => f.vector \in [Clients -> Nat]
    /\ \A f \in State : f.what = "state" /\ f.edition \in Nat /\ f.keys \in SUBSET Numbered
    /\ \A f \in Said \cup State : IF f.what = "state" THEN f \in State ELSE f \in Said
    /\ \A k \in Numbered : k[1] \in Clients /\ k[2] \in Nat \ {0} /\ k = <<k[1], k[2]>>
    /\ \A c \in Clients, n \in Nat \ {0} : <<c, n>> \in Numbered
BY DEF Said, State, Numbered

\* The greatest of a set of numbers up to a bound is one of them.
LEMMA MaxIn ==
    ASSUME NEW N \in Nat, NEW S \in SUBSET (0..N), S # {}
    PROVE  Max(S) \in S
<1> DEFINE T == {t \in Nat : \E n \in S : t = N - n}
           R == OpToRel(<, Nat)
<1>1. T \subseteq Nat /\ T # {}
  <2>1. PICK n \in S : TRUE
    OBVIOUS
  <2>2. n \in 0..N /\ N - n \in Nat
    BY <2>1
  <2> QED BY <2>2
<1>2. \A y, x \in Nat : y < x => <<y, x>> \in R
  BY DEF OpToRel
<1>3. IsWellFoundedOn(R, Nat)
  BY NatLessThanWellFounded
<1> HIDE DEF R, T
<1>4. PICK x \in T : \A y \in T : ~ (<<y, x>> \in R)
  <2>1. \E x \in T : \A y \in T : ~ (<<y, x>> \in R)
    BY <1>1, <1>3, WFMin
  <2> QED BY <2>1
<1>5. PICK m \in S : x = N - m
  BY DEF T
<1>6. ASSUME NEW n \in S PROVE m >= n
  <2>1. n \in 0..N /\ N - n \in Nat /\ x \in Nat
    BY <1>1
  <2>3. N - n \in T
    BY <2>1 DEF T
  <2>2. ~(N - n < x)
    BY <1>2, <1>4, <2>1, <2>3
  <2> QED BY <1>5, <2>1, <2>2
<1> QED BY <1>6 DEF Max

\* A state vector is below every edit its replica does not have.
LEMMA Vectors ==
    ASSUME NEW d \in SUBSET Numbered
    PROVE  /\ Vector(d) \in [Clients -> Nat]
           /\ \A e \in Numbered : e \notin d => Vector(d)[e[1]] < e[2]
<1> DEFINE S(c) == {n \in 0..MaxEdits : \A k \in 1..n : <<c, k>> \in d}
<1>1. ASSUME NEW c \in Clients
      PROVE  Max(S(c)) \in 0..MaxEdits /\ \A k \in 1..Max(S(c)) : <<c, k>> \in d
  <2>1. 0 \in S(c) /\ S(c) \in SUBSET (0..MaxEdits) /\ MaxEdits \in Nat
    BY SyncAssumption
  <2>2. Max(S(c)) \in S(c)
    BY <2>1, MaxIn
  <2> QED BY <2>2
<1>2. Vector(d) = [c \in Clients |-> Max(S(c))]
  BY DEF Vector
<1> HIDE DEF S
<1>3. MaxEdits \in Nat
  BY SyncAssumption
<1>4. Vector(d) \in [Clients -> Nat]
  BY <1>1, <1>2, <1>3
<1>5. ASSUME NEW e \in Numbered, e \notin d PROVE Vector(d)[e[1]] < e[2]
  <2>1. e[1] \in Clients /\ e[2] \in Nat \ {0} /\ e = <<e[1], e[2]>>
    BY Frames
  <2>2. Vector(d)[e[1]] = Max(S(e[1])) /\ Max(S(e[1])) \in Nat
    BY <1>1, <1>2, <1>3, <2>1
  <2>3. e[2] \notin 1..Max(S(e[1]))
    BY <1>1, <1>5, <2>1
  <2> QED BY <2>1, <2>2, <2>3
<1> QED BY <1>4, <1>5

-----------------------------------------------------------------------------
(* The invariant.                                                          *)

IsState(f) == f.what = "state"

\* Whether a client knows of a key when it has processed the i - 1 first frames of a queue.
Told(kn, q, i, k) ==
    k \in kn.keys \/ \E j \in 1..(i - 1) : IsState(q[j]) /\ k \in q[j].keys

\* States arrive in the order of their editions, and each commits all that the one before did.
Rising(kn, q, h) ==
    /\ kn.edition <= h.edition /\ kn.keys \subseteq h.keys
    /\ \A i \in 1..Len(q) : IsState(q[i]) =>
          /\ kn.edition < q[i].edition /\ q[i].edition <= h.edition
          /\ kn.keys \subseteq q[i].keys /\ q[i].keys \subseteq h.keys
          /\ \A j \in (i + 1)..Len(q) : IsState(q[j]) =>
                q[i].edition < q[j].edition /\ q[i].keys \subseteq q[j].keys

\* From its own commitment on, a client knows of every key whose frames reach it.
Introduced(kn, q, me, keys) ==
    /\ \A i \in 1..Len(q) : ~IsState(q[i]) /\ Told(kn, q, i, me) => Told(kn, q, i, q[i].from)
    /\ Told(kn, q, Len(q) + 1, me) => \A k \in keys : Told(kn, q, Len(q) + 1, k)

InOrder ==
    \A c \in Clients : /\ Rising(known[c], inbox[c], host)
                       /\ up[c] => Introduced(known[c], inbox[c], Key(c), host.keys)

\* No key is of a connection to come, and a frame that is not an announcement is of a
\* committed key.
Keyed ==
    /\ \A k \in host.keys \cup host.heard : k[2] <= conn[k[1]]
    /\ \A c \in Clients :
          /\ answered[c] \subseteq host.keys
          /\ ~up[c] => out[c] = <<>>
          /\ \A f \in ToSet(out[c]) : /\ ~IsState(f) /\ f.from = Key(c)
                                      /\ f.what # "announcement" => f.from \in host.keys
          /\ \A f \in ToSet(inbox[c]) : ~IsState(f) => f.from \in host.keys

\* Whoever has an edit, or carries it, its author has it; and all sets of edits are finite.
Authored ==
    \A c \in Clients :
       /\ IsFiniteSet(docs[c]) /\ heldBack[c] \subseteq docs[c]
       /\ \A e \in docs[c] : e \in docs[e[1]]
       /\ \A f \in ToSet(out[c]) \cup ToSet(inbox[c]) : f.what = "update" =>
             IsFiniteSet(f.edits) /\ \A e \in f.edits : e \in docs[e[1]]

\* A connection has asked once it is committed, and nobody has heard of one that has not.
Handshakes ==
    \A c \in Clients :
       /\ up[c] /\ handshaken[c] => Key(c) \in known[c].keys
       /\ ~handshaken[c] => \A d \in Clients :
             /\ Key(c) \notin answered[d]
             /\ \A f \in ToSet(out[d]) \cup ToSet(inbox[d]) : f.what = "step1" => f.from # Key(c)

\* A request that lacks an edit, an update that carries it, and the request of a connection.
Lacks(f, e)  == f.what = "step1" /\ f.vector[e[1]] < e[2]
Brings(f, e) == f.what = "update" /\ e \in f.edits
Asks(f, c)   == f.what = "step1" /\ f.from = Key(c)

\* What will bring an edit of c to d: a request d has yet to make or that is on its way to c, an
\* update on its way to d, or the request of c that d has to answer with one of its own.
Debt(c, d, e) ==
    \/ ~up[d] \/ Owes(d) \/ ~up[c]
    \/ \E f \in ToSet(out[d]) \cup ToSet(inbox[c]) : Lacks(f, e)
    \/ \E f \in ToSet(out[c]) \cup ToSet(inbox[d]) : Brings(f, e)
    \/ /\ Key(c) \notin answered[d]
       /\ ~handshaken[c] \/ \E f \in ToSet(out[c]) \cup ToSet(inbox[d]) : Asks(f, c)

Owed == \A c, d \in Clients : \A e \in docs[c] : e[1] = c /\ e \notin docs[d] => Debt(c, d, e)

Inv == ReplicasTypeOK /\ InOrder /\ Keyed /\ Authored /\ Handshakes /\ Owed

-----------------------------------------------------------------------------
(* What a queue says of the keys as it grows and shrinks.                  *)

\* The state a client holds when it has processed a frame.
Holds(kn, f) == IF IsState(f) THEN [edition |-> f.edition, keys |-> f.keys] ELSE kn

Known == [edition : Nat, keys : SUBSET Numbered]

\* A frame of a committed key is appended,
LEMMA Arrives ==
    ASSUME NEW kn \in Known, NEW q \in Seq(Said \cup State), NEW h, h.keys \subseteq Numbered,
           Rising(kn, q, h), NEW f \in Said, f.from \in h.keys, NEW me, NEW alive \in BOOLEAN,
           alive => Introduced(kn, q, me, h.keys)
    PROVE  Rising(kn, Append(q, f), h) /\ (alive => Introduced(kn, Append(q, f), me, h.keys))
<1> DEFINE p == Append(q, f)
<1>1. /\ Len(q) \in Nat /\ Len(p) = Len(q) + 1 /\ p[Len(q) + 1] = f
      /\ \A i \in 1..Len(q) : p[i] = q[i]
  BY Seqs
<1>2. ~IsState(f)
  BY Frames DEF IsState
<1> HIDE DEF p
<1>3. Rising(kn, p, h)
  BY <1>1, <1>2 DEF Rising
<1>4. ASSUME NEW i \in 1..(Len(q) + 1), NEW k PROVE Told(kn, p, i, k) <=> Told(kn, q, i, k)
  BY <1>1 DEF Told
<1>5. ASSUME NEW k PROVE Told(kn, p, Len(p) + 1, k) <=> Told(kn, q, Len(q) + 1, k)
  <2>1. \A j \in 1..((Len(p) + 1) - 1) : j \in 1..((Len(q) + 1) - 1) \/ j = Len(q) + 1
    BY <1>1
  <2> QED BY <1>1, <1>2, <2>1 DEF Told
<1>6. ASSUME alive PROVE Introduced(kn, p, me, h.keys)
  <2>1. ASSUME NEW i \in 1..Len(p), ~IsState(p[i]), Told(kn, p, i, me)
        PROVE  Told(kn, p, i, p[i].from)
    <3>1. CASE i \in 1..Len(q)
      BY <1>1, <1>4, <1>6, <2>1, <3>1 DEF Introduced
    <3>2. CASE i = Len(q) + 1
      BY <1>1, <1>4, <1>6, <2>1, <3>2 DEF Introduced
    <3> QED BY <1>1, <3>1, <3>2
  <2> QED BY <1>5, <1>6, <2>1 DEF Introduced
<1> QED BY <1>3, <1>6 DEF p

\* a state of the host is,
LEMMA Published ==
    ASSUME NEW kn \in Known, NEW q \in Seq(Said \cup State), NEW h, NEW g,
           h.edition \in Nat, g.edition = h.edition + 1, h.keys \subseteq g.keys,
           Rising(kn, q, h), NEW f \in State, f.edition = g.edition, f.keys = g.keys, NEW me,
           NEW alive \in BOOLEAN, alive => Introduced(kn, q, me, h.keys)
    PROVE  /\ Rising(kn, q, g)
           /\ Rising(kn, Append(q, f), g) /\ (alive => Introduced(kn, Append(q, f), me, g.keys))
<1> DEFINE p == Append(q, f)
<1>1. /\ Len(q) \in Nat /\ Len(p) = Len(q) + 1 /\ p[Len(q) + 1] = f
      /\ \A i \in 1..Len(q) : p[i] = q[i] /\ q[i] \in Said \cup State
  BY Seqs
<1>2. IsState(f) /\ kn.edition \in Nat
  BY Frames DEF IsState, Known
<1> HIDE DEF p
<1>3. \A i \in 1..Len(q) : IsState(q[i]) => q[i].edition \in Nat
  BY <1>1, Frames DEF IsState
<1>4. Rising(kn, q, g)
  BY <1>2, <1>3 DEF Rising
<1>5. Rising(kn, p, g)
  <2>1. ASSUME NEW i \in 1..Len(p), IsState(p[i])
        PROVE  /\ kn.edition < p[i].edition /\ p[i].edition <= g.edition
               /\ kn.keys \subseteq p[i].keys /\ p[i].keys \subseteq g.keys
               /\ \A j \in (i + 1)..Len(p) : IsState(p[j]) =>
                     p[i].edition < p[j].edition /\ p[i].keys \subseteq p[j].keys
    <3>1. CASE i = Len(q) + 1
      BY <1>1, <1>2, <3>1 DEF Rising
    <3>2. CASE i \in 1..Len(q)
      <4>1. p[i] = q[i] /\ q[i].edition <= h.edition /\ q[i].edition \in Nat /\ q[i].keys \subseteq h.keys
        BY <1>1, <1>3, <2>1, <3>2 DEF Rising
      <4>2. ASSUME NEW j \in (i + 1)..Len(p), IsState(p[j])
            PROVE  p[i].edition < p[j].edition /\ p[i].keys \subseteq p[j].keys
        <5>1. CASE j = Len(q) + 1
          BY <1>1, <4>1, <5>1
        <5>2. CASE j # Len(q) + 1
          <6>1. j \in (i + 1)..Len(q) /\ j \in 1..Len(q) /\ p[j] = q[j]
            BY <1>1, <3>2, <5>2
          <6> QED BY <2>1, <3>2, <4>1, <4>2, <6>1 DEF Rising
        <5> QED BY <5>1, <5>2
      <4> QED BY <1>4, <2>1, <3>2, <4>1, <4>2 DEF Rising
    <3> QED BY <1>1, <3>1, <3>2
  <2> QED BY <1>4, <2>1 DEF Rising
<1>6. ASSUME NEW i \in 1..(Len(q) + 1), NEW k PROVE Told(kn, p, i, k) <=> Told(kn, q, i, k)
  BY <1>1 DEF Told
<1>7. ASSUME NEW k \in g.keys PROVE Told(kn, p, Len(p) + 1, k)
  <2>1. Len(q) + 1 \in 1..((Len(p) + 1) - 1)
    BY <1>1
  <2> QED BY <1>1, <1>2, <2>1 DEF Told
<1>8. ASSUME alive PROVE Introduced(kn, p, me, g.keys)
  <2>1. ASSUME NEW i \in 1..Len(p), ~IsState(p[i]), Told(kn, p, i, me)
        PROVE  Told(kn, p, i, p[i].from)
    <3>1. i \in 1..Len(q)
      BY <1>1, <1>2, <2>1
    <3> QED BY <1>1, <1>6, <1>8, <2>1, <3>1 DEF Introduced
  <2> QED BY <1>7, <2>1 DEF Introduced
<1> QED BY <1>4, <1>5, <1>8 DEF p

\* a frame is read off,
LEMMA ReadOff ==
    ASSUME NEW kn \in Known, NEW q \in Seq(Said \cup State), q # <<>>, NEW h, Rising(kn, q, h),
           NEW me, NEW alive \in BOOLEAN, alive => Introduced(kn, q, me, h.keys)
    PROVE  /\ Holds(kn, Head(q)) \in Known /\ kn.keys \subseteq Holds(kn, Head(q)).keys
           /\ Rising(Holds(kn, Head(q)), Tail(q), h)
           /\ alive => Introduced(Holds(kn, Head(q)), Tail(q), me, h.keys)
           /\ IsState(Head(q)) => kn.edition < Head(q).edition
           /\ alive /\ ~IsState(Head(q)) /\ me \in kn.keys => Head(q).from \in kn.keys
<1> DEFINE p == Tail(q)
           b == Head(q)
           to == Holds(kn, b)
<1>0. to = IF IsState(b) THEN [edition |-> b.edition, keys |-> b.keys] ELSE kn
  BY DEF Holds
<1>1. /\ Len(q) \in Nat \ {0} /\ Len(p) = Len(q) - 1 /\ b = q[1] /\ b \in Said \cup State
      /\ \A i \in 1..Len(p) : p[i] = q[i + 1]
  BY Seqs
<1> HIDE DEF p, b, to
<1>2. IsState(b) => b.edition \in Nat /\ b.keys \subseteq Numbered
  BY <1>1, Frames DEF IsState
<1>3. to \in Known
  BY <1>0, <1>2 DEF Known
<1>4. /\ 1 \in 1..Len(q) /\ \A i \in 1..Len(p) : i + 1 \in 1..Len(q) /\ i + 1 \in (1 + 1)..Len(q)
  BY <1>1
<1>5. kn.keys \subseteq to.keys /\ (IsState(b) => kn.edition < b.edition)
  BY <1>0, <1>1, <1>4 DEF Rising
<1>6. Rising(to, p, h)
  <2>1. to.edition <= h.edition /\ to.keys \subseteq h.keys
    BY <1>0, <1>1, <1>4 DEF Rising
  <2>2. ASSUME NEW i \in 1..Len(p), IsState(p[i])
        PROVE  /\ to.edition < p[i].edition /\ p[i].edition <= h.edition
               /\ to.keys \subseteq p[i].keys /\ p[i].keys \subseteq h.keys
               /\ \A j \in (i + 1)..Len(p) : IsState(p[j]) =>
                     p[i].edition < p[j].edition /\ p[i].keys \subseteq p[j].keys
    <3>1. p[i] = q[i + 1] /\ i + 1 \in 1..Len(q) /\ i + 1 \in (1 + 1)..Len(q)
      BY <1>1, <1>4
    <3>2. to.edition < p[i].edition /\ to.keys \subseteq p[i].keys
      <4>1. CASE IsState(b)
        BY <1>0, <1>1, <1>4, <2>2, <3>1, <4>1 DEF Rising
      <4>2. CASE ~IsState(b)
        BY <1>0, <2>2, <3>1, <4>2 DEF Rising
      <4> QED BY <4>1, <4>2
    <3>3. ASSUME NEW j \in (i + 1)..Len(p), IsState(p[j])
          PROVE  p[i].edition < p[j].edition /\ p[i].keys \subseteq p[j].keys
      <4>1. j \in 1..Len(p) /\ j + 1 \in ((i + 1) + 1)..Len(q) /\ p[j] = q[j + 1]
        BY <1>1
      <4> QED BY <2>2, <3>1, <3>3, <4>1 DEF Rising
    <3> QED BY <2>2, <3>1, <3>2, <3>3 DEF Rising
  <2> QED BY <2>1, <2>2 DEF Rising
<1>7. ASSUME NEW i \in 1..(Len(p) + 1), NEW k
      PROVE  Told(to, p, i, k) <=> Told(kn, q, i + 1, k)
  <2>1. ASSUME Told(to, p, i, k) PROVE Told(kn, q, i + 1, k)
    <3>1. CASE k \in to.keys
      <4>1. CASE IsState(b)
        BY <1>0, <1>1, <3>1, <4>1, 1 \in 1..((i + 1) - 1) DEF Told
      <4>2. CASE ~IsState(b)
        BY <1>0, <3>1, <4>2 DEF Told
      <4> QED BY <4>1, <4>2
    <3>2. CASE k \notin to.keys
      <4>1. PICK j \in 1..(i - 1) : IsState(p[j]) /\ k \in p[j].keys
        BY <2>1, <3>2 DEF Told
      <4>2. j \in 1..Len(p) /\ j + 1 \in 1..((i + 1) - 1)
        BY <1>1
      <4> QED BY <1>1, <4>1, <4>2 DEF Told
    <3> QED BY <3>1, <3>2
  <2>2. ASSUME Told(kn, q, i + 1, k) PROVE Told(to, p, i, k)
    <3>1. CASE k \in kn.keys
      BY <1>5, <3>1 DEF Told
    <3>2. CASE k \notin kn.keys
      <4>1. PICK j \in 1..((i + 1) - 1) : IsState(q[j]) /\ k \in q[j].keys
        BY <2>2, <3>2 DEF Told
      <4>2. CASE j = 1
        BY <1>0, <1>1, <4>1, <4>2 DEF Told
      <4>3. CASE j # 1
        <5>1. j - 1 \in 1..(i - 1) /\ j - 1 \in 1..Len(p) /\ (j - 1) + 1 = j
          BY <1>1, <4>3
        <5>2. p[j - 1] = q[j]
          BY <1>1, <5>1
        <5> QED BY <4>1, <5>1, <5>2 DEF Told
      <4> QED BY <4>2, <4>3
    <3> QED BY <3>1, <3>2
  <2> QED BY <2>1, <2>2
<1>8. ASSUME alive PROVE Introduced(to, p, me, h.keys)
  <2>1. ASSUME NEW i \in 1..Len(p), ~IsState(p[i]), Told(to, p, i, me)
        PROVE  Told(to, p, i, p[i].from)
    <3>1. i \in 1..(Len(p) + 1) /\ i + 1 \in 1..Len(q) /\ p[i] = q[i + 1]
      BY <1>1
    <3> QED BY <1>7, <1>8, <2>1, <3>1 DEF Introduced
  <2>2. Len(p) + 1 \in 1..(Len(p) + 1) /\ (Len(p) + 1) + 1 = Len(q) + 1
    BY <1>1
  <2> QED BY <1>7, <1>8, <2>1, <2>2 DEF Introduced
<1>9. ASSUME alive, ~IsState(b), me \in kn.keys PROVE b.from \in kn.keys
  <2>1. Told(kn, q, 1, b.from)
    BY <1>1, <1>4, <1>9 DEF Introduced, Told
  <2> QED BY <2>1 DEF Told
<1> QED BY <1>3, <1>5, <1>6, <1>8, <1>9 DEF p, b, to

\* and the end of it is lost.
LEMMA CutShort ==
    ASSUME NEW kn \in Known, NEW q \in Seq(Said \cup State), NEW n \in 0..Len(q), NEW h, Rising(kn, q, h)
    PROVE  Rising(kn, SubSeq(q, 1, n), h)
<1> DEFINE p == SubSeq(q, 1, n)
<1>1. Len(p) = n /\ n <= Len(q) /\ Len(q) \in Nat /\ \A i \in 1..n : p[i] = q[i] /\ i \in 1..Len(q)
  BY Seqs
<1> HIDE DEF p
<1>2. Rising(kn, p, h)
  BY <1>1 DEF Rising
<1> QED BY <1>2 DEF p

-----------------------------------------------------------------------------
(* Types.                                                                  *)

\* What a client says.
LEMMA Says ==
    ASSUME ReplicasTypeOK, NEW c \in Clients
    PROVE  /\ Key(c) \in Numbered /\ Key(c)[1] = c /\ Key(c)[2] = conn[c]
           /\ Frame(c, "announcement") \in Said /\ ~IsState(Frame(c, "announcement"))
           /\ Frame(c, "announcement").from = Key(c) /\ Frame(c, "announcement").what = "announcement"
           /\ Step1(c, docs[c]) \in Said /\ Step1(c, docs[c]).what = "step1"
           /\ Step1(c, docs[c]).from = Key(c) /\ Step1(c, docs[c]).vector = Vector(docs[c])
           /\ \A E \in SUBSET Numbered : /\ Update(c, E) \in Said /\ Update(c, E).what = "update"
                                         /\ Update(c, E).from = Key(c) /\ Update(c, E).edits = E
<1>1. Key(c) \in Numbered /\ Key(c)[1] = c /\ Key(c)[2] = conn[c]
  BY DEF Key, Numbered, ReplicasTypeOK
<1>2. docs[c] \in SUBSET Numbered /\ Vector(docs[c]) \in [Clients -> Nat]
  BY Vectors DEF ReplicasTypeOK
<1>3. /\ Frame(c, "announcement") \in Said /\ ~IsState(Frame(c, "announcement"))
      /\ Frame(c, "announcement").from = Key(c) /\ Frame(c, "announcement").what = "announcement"
  BY <1>1 DEF Frame, Said, IsState
<1>4. /\ Step1(c, docs[c]) \in Said /\ Step1(c, docs[c]).what = "step1"
      /\ Step1(c, docs[c]).from = Key(c) /\ Step1(c, docs[c]).vector = Vector(docs[c])
  BY <1>1, <1>2 DEF Step1, Said
<1>5. ASSUME NEW E \in SUBSET Numbered
      PROVE  /\ Update(c, E) \in Said /\ Update(c, E).what = "update"
             /\ Update(c, E).from = Key(c) /\ Update(c, E).edits = E
  BY <1>1 DEF Update, Said
<1> QED BY <1>1, <1>3, <1>4, <1>5

\* A client's next edit has a number.
LEMMA Numbers ==
    ASSUME ReplicasTypeOK, Authored, NEW c \in Clients
    PROVE  Made(c) \in Nat /\ <<c, Made(c) + 1>> \in Numbered
<1>1. IsFiniteSet({e \in docs[c] : e[1] = c})
  BY FS_Subset DEF Authored
<1>2. Made(c) \in Nat
  BY <1>1, FS_CardinalityType DEF Made
<1> QED BY <1>2 DEF Numbered

\* Every step keeps the types.
LEMMA TypeStep ==
    ASSUME ReplicasTypeOK, Authored, [SyncNext]_syncVars
    PROVE  ReplicasTypeOK'
<1>1. ASSUME HostPublishes PROVE ReplicasTypeOK'
  <2> DEFINE f == [what |-> "state", edition |-> host.edition + 1, keys |-> host.keys \cup host.heard]
  <2>1. /\ f \in State
        /\ host' \in [edition : Nat, keys : SUBSET Numbered, heard : SUBSET Numbered, owes : BOOLEAN]
    BY <1>1 DEF HostPublishes, State, ReplicasTypeOK
  <2>2. inbox' = [d \in Clients |-> IF up[d] /\ d # "host" THEN Append(inbox[d], f) ELSE inbox[d]]
    BY <1>1 DEF HostPublishes, Broadcast
  <2> HIDE DEF f
  <2>3. ASSUME NEW d \in Clients
        PROVE  inbox[d] \in Seq(Said \cup State) /\ Append(inbox[d], f) \in Seq(Said \cup State)
    BY <2>1 DEF ReplicasTypeOK
  <2>4. inbox' \in [Clients -> Seq(Said \cup State)]
    BY <2>2, <2>3
  <2> QED BY <1>1, <2>1, <2>4 DEF HostPublishes, session, texts, asks, ReplicasTypeOK
<1>2. ASSUME NEW c \in Clients, Reannounce(c) PROVE ReplicasTypeOK'
  <2>1. Append(out[c], Frame(c, "announcement")) \in Seq(Said)
    BY Says, Seqs DEF ReplicasTypeOK
  <2>2. out' \in [Clients -> Seq(Said)]
    BY <1>2, <2>1 DEF Reannounce, ReplicasTypeOK
  <2> QED BY <1>2, <2>2 DEF Reannounce, texts, asks, ReplicasTypeOK
<1>3. ASSUME NEW c \in Clients, PublishEdit(c) PROVE ReplicasTypeOK'
  <2> DEFINE e == <<c, Made(c) + 1>>
  <2>1. e \in Numbered /\ {e} \in SUBSET Numbered
    BY Numbers
  <2>2. docs' = [docs EXCEPT ![c] = @ \cup {e}]
    BY <1>3 DEF PublishEdit
  <2>3. \/ out' = [out EXCEPT ![c] = Append(@, Update(c, {e}))] /\ UNCHANGED heldBack
        \/ heldBack' = [heldBack EXCEPT ![c] = @ \cup {e}] /\ UNCHANGED out
    BY <1>3 DEF PublishEdit
  <2>4. UNCHANGED <<session, asks, inbox, host, drops>>
    BY <1>3 DEF PublishEdit
  <2> HIDE DEF e
  <2>5. Append(out[c], Update(c, {e})) \in Seq(Said)
    BY <2>1, Says, Seqs DEF ReplicasTypeOK
  <2>6. out' \in [Clients -> Seq(Said)]
    BY <2>3, <2>5 DEF ReplicasTypeOK
  <2>8. docs[c] \cup {e} \in SUBSET Numbered /\ heldBack[c] \cup {e} \in SUBSET Numbered
    BY <2>1 DEF ReplicasTypeOK
  <2>7. docs' \in [Clients -> SUBSET Numbered] /\ heldBack' \in [Clients -> SUBSET Numbered]
    <3>1. docs' \in [Clients -> SUBSET Numbered]
      BY <2>2, <2>8 DEF ReplicasTypeOK
    <3>2. heldBack' \in [Clients -> SUBSET Numbered]
      BY <2>3, <2>8 DEF ReplicasTypeOK
    <3> QED BY <3>1, <3>2
  <2> QED BY <2>4, <2>6, <2>7 DEF session, asks, ReplicasTypeOK
<1>4. ASSUME NEW c \in Clients, Resyncs(c) PROVE ReplicasTypeOK'
  <2>1. Append(out[c], Step1(c, docs[c])) \in Seq(Said)
    BY Says, Seqs DEF ReplicasTypeOK
  <2>2. out' \in [Clients -> Seq(Said)]
    BY <1>4, <2>1 DEF Resyncs, ReplicasTypeOK
  <2> QED BY <1>4, <2>2 DEF Resyncs, Asked, session, texts, ReplicasTypeOK
<1>5. ASSUME NEW c \in Clients, Deliver(c) PROVE ReplicasTypeOK'
  <2> DEFINE f == Head(inbox[c])
  <2>1. f \in Said \cup State /\ Tail(inbox[c]) \in Seq(Said \cup State)
    BY <1>5 DEF Deliver, ReplicasTypeOK
  <2>2. inbox' \in [Clients -> Seq(Said \cup State)] /\ UNCHANGED <<up, conn, announced, host, drops>>
    BY <1>5, <2>1 DEF Deliver, ReplicasTypeOK
  <2>3. CASE f.what = "state" /\ f.edition > known[c].edition /\ ApplyState(c, f)
    <3>1. f.edition \in Nat /\ f.keys \in SUBSET Numbered
      BY <2>1, <2>3, Frames
    <3>2. known' \in [Clients -> [edition : Nat, keys : SUBSET Numbered]]
      BY <2>3, <3>1 DEF ApplyState, ReplicasTypeOK
    <3>3. out' \in [Clients -> Seq(Said)] /\ heldBack' \in [Clients -> SUBSET Numbered]
      <4> DEFINE request == IF handshaken[c] THEN <<>> ELSE <<Step1(c, docs[c])>>
                 flush == IF heldBack[c] = {} THEN <<>> ELSE <<Update(c, heldBack[c])>>
      <4>1. out[c] \in Seq(Said) /\ heldBack[c] \in SUBSET Numbered
        BY DEF ReplicasTypeOK
      <4>2. request \in Seq(Said) /\ flush \in Seq(Said)
        BY <4>1, Says
      <4>3. \/ out' = [out EXCEPT ![c] = @ \o request \o flush] /\ heldBack' = [heldBack EXCEPT ![c] = {}]
            \/ UNCHANGED <<out, heldBack>>
        BY <2>3 DEF ApplyState
      <4> HIDE DEF request, flush
      <4>4. out[c] \o request \o flush \in Seq(Said)
        BY <4>1, <4>2
      <4>5. out' \in [Clients -> Seq(Said)]
        BY <4>3, <4>4, ZenonT(30) DEF ReplicasTypeOK
      <4>6. heldBack' \in [Clients -> SUBSET Numbered]
        BY <4>3, {} \in SUBSET Numbered DEF ReplicasTypeOK
      <4> QED BY <4>5, <4>6
    <3>4. /\ handshaken' \in [Clients -> BOOLEAN] /\ refused' \in [Clients -> BOOLEAN]
          /\ pending' \in [Clients -> SUBSET Numbered] /\ UNCHANGED <<docs, answered>>
      BY <2>3 DEF ApplyState, Asked, ReplicasTypeOK
    <3> QED BY <2>2, <3>2, <3>3, <3>4 DEF ReplicasTypeOK
  <2>4. CASE f.what = "step1" /\ f.from \in known[c].keys /\ ApplyStep1(c, f)
    <3>1. f.from \in Numbered
      BY <2>1, <2>4, Frames
    <3>2. answered' \in [Clients -> SUBSET Numbered] /\ pending' \in [Clients -> SUBSET Numbered]
      <4>1. answered[c] \cup {f.from} \in SUBSET Numbered /\ pending[c] \cup {f.from} \in SUBSET Numbered
        BY <3>1 DEF ReplicasTypeOK
      <4>2. /\ answered' = [answered EXCEPT ![c] = @ \cup {f.from}] \/ UNCHANGED answered
            /\ pending' = [pending EXCEPT ![c] = @ \cup {f.from}] \/ UNCHANGED pending
        BY <2>4 DEF ApplyStep1, Arms
      <4> HIDE DEF f
      <4>3. answered' \in [Clients -> SUBSET Numbered]
        BY <4>1, <4>2 DEF ReplicasTypeOK
      <4>4. pending' \in [Clients -> SUBSET Numbered]
        BY <4>1, <4>2 DEF ReplicasTypeOK
      <4> QED BY <4>3, <4>4
    <3>3. Beyond(docs[c], f.vector) \in SUBSET Numbered
      BY DEF Beyond, ReplicasTypeOK
    <3>4. Append(out[c], Update(c, Beyond(docs[c], f.vector))) \in Seq(Said)
      BY <3>3, Says, Seqs DEF ReplicasTypeOK
    <3>5. out' \in [Clients -> Seq(Said)] /\ UNCHANGED <<known, texts, handshaken, refused>>
      BY <2>4, <3>4 DEF ApplyStep1, ReplicasTypeOK
    <3> QED BY <2>2, <3>2, <3>5 DEF texts, ReplicasTypeOK
  <2>5. CASE f.what = "update" /\ f.from \in known[c].keys /\ ApplyUpdate(c, f)
    <3>1. f.edits \in SUBSET Numbered
      BY <2>1, <2>5, Frames
    <3> QED BY <2>2, <2>5, <3>1 DEF ApplyUpdate, asks, ReplicasTypeOK
  <2>6. CASE /\ refused' = [refused EXCEPT ![c] = TRUE]
             /\ UNCHANGED <<known, texts, handshaken, answered, pending, out>>
    BY <2>2, <2>6 DEF texts, ReplicasTypeOK
  <2>7. CASE UNCHANGED <<known, texts, asks, out>>
    BY <2>2, <2>7 DEF texts, asks, ReplicasTypeOK
  <2> HIDE DEF f
  <2> QED BY <1>5, <2>3, <2>4, <2>5, <2>6, <2>7 DEF Deliver, f
<1>6. ASSUME NEW c \in Clients, Drop(c) PROVE ReplicasTypeOK'
  <2>1. PICK k \in 0..Len(inbox[c]) : inbox' = [inbox EXCEPT ![c] = SubSeq(@, 1, k)]
    BY <1>6 DEF Drop
  <2>2. SubSeq(inbox[c], 1, k) \in Seq(Said \cup State)
    BY Seqs DEF ReplicasTypeOK
  <2>3. inbox' \in [Clients -> Seq(Said \cup State)]
    BY <2>1, <2>2 DEF ReplicasTypeOK
  <2> QED BY <1>6, <2>3 DEF Drop, texts, asks, ReplicasTypeOK
<1>7. ASSUME NEW c \in Clients, Reconnects(c) PROVE ReplicasTypeOK'
  <2>1. conn' \in [Clients -> Nat \ {0}] /\ up' \in [Clients -> BOOLEAN]
    <3>1. conn[c] + 1 \in Nat \ {0}
      BY DEF ReplicasTypeOK
    <3> QED BY <1>7, <3>1 DEF Reconnects, ReplicasTypeOK
  <2>2. handshaken' \in [Clients -> BOOLEAN] /\ refused' \in [Clients -> BOOLEAN]
    BY <1>7 DEF Reconnects, Cleared, ReplicasTypeOK
  <2>3. answered' \in [Clients -> SUBSET Numbered] /\ pending' \in [Clients -> SUBSET Numbered]
    <3>1. answered' = [answered EXCEPT ![c] = {}] /\ pending' = [pending EXCEPT ![c] = {}]
      BY <1>7 DEF Reconnects, Cleared
    <3> QED BY <3>1, {} \in SUBSET Numbered DEF ReplicasTypeOK
  <2>4. host' \in [edition : Nat, keys : SUBSET Numbered, heard : SUBSET Numbered, owes : BOOLEAN]
    BY <1>7 DEF Reconnects, ReplicasTypeOK
  <2> QED BY <1>7, <2>1, <2>2, <2>3, <2>4 DEF Reconnects, texts, traffic, ReplicasTypeOK
<1>8. ASSUME NEW c \in Clients, DrainOutbound(c) PROVE ReplicasTypeOK'
  <2> DEFINE f == Head(out[c])
  <2>1. f \in Said /\ Tail(out[c]) \in Seq(Said) /\ f.from \in Numbered
    BY <1>8, Frames DEF DrainOutbound, ReplicasTypeOK
  <2>2. \/ host' = [host EXCEPT !.heard = @ \cup {f.from}, !.owes = TRUE] /\ UNCHANGED inbox
        \/ /\ inbox' = [d \in Clients |-> IF up[d] /\ d # c THEN Append(inbox[d], f) ELSE inbox[d]]
           /\ UNCHANGED host
    BY <1>8 DEF DrainOutbound, Broadcast
  <2>3. out' = [out EXCEPT ![c] = Tail(@)] /\ UNCHANGED <<session, texts, asks, drops>>
    BY <1>8 DEF DrainOutbound
  <2> HIDE DEF f
  <2>4. out' \in [Clients -> Seq(Said)]
    BY <2>1, <2>3 DEF ReplicasTypeOK
  <2>5. ASSUME NEW d \in Clients
        PROVE  inbox[d] \in Seq(Said \cup State) /\ Append(inbox[d], f) \in Seq(Said \cup State)
    BY <2>1 DEF ReplicasTypeOK
  <2>6. inbox' \in [Clients -> Seq(Said \cup State)]
    BY <2>2, <2>5 DEF ReplicasTypeOK
  <2>7. host' \in [edition : Nat, keys : SUBSET Numbered, heard : SUBSET Numbered, owes : BOOLEAN]
    <3>1. /\ host.edition \in Nat /\ host.keys \in SUBSET Numbered
          /\ host.heard \cup {f.from} \in SUBSET Numbered
      BY <2>1 DEF ReplicasTypeOK
    <3> QED BY <2>2, <3>1 DEF ReplicasTypeOK
  <2> QED BY <2>3, <2>4, <2>6, <2>7 DEF session, texts, asks, ReplicasTypeOK
<1>9. CASE UNCHANGED syncVars
  BY <1>9 DEF syncVars, session, texts, asks, traffic, ReplicasTypeOK
<1> QED BY <1>1, <1>2, <1>3, <1>4, <1>5, <1>6, <1>7, <1>8, <1>9 DEF SyncNext

-----------------------------------------------------------------------------
(* The order of the frames.                                                *)

\* A frame that is processed is a state above the one held, or one of a client.
LEMMA Reads ==
    ASSUME ReplicasTypeOK, InOrder, NEW c \in Clients, Deliver(c)
    PROVE  /\ inbox[c] # <<>> /\ inbox[c] \in Seq(Said \cup State) /\ Head(inbox[c]) \in Said \cup State
           /\ inbox' = [inbox EXCEPT ![c] = Tail(@)]
           /\ known' = [known EXCEPT ![c] = Holds(known[c], Head(inbox[c]))]
           /\ known[c] \in Known /\ known[c].keys \subseteq Holds(known[c], Head(inbox[c])).keys
           /\ Holds(known[c], Head(inbox[c])) \in Known
           /\ Rising(Holds(known[c], Head(inbox[c])), Tail(inbox[c]), host)
           /\ up[c] => Introduced(Holds(known[c], Head(inbox[c])), Tail(inbox[c]), Key(c), host.keys)
           /\ up[c] /\ ~IsState(Head(inbox[c])) /\ Key(c) \in known[c].keys =>
                 Head(inbox[c]).from \in known[c].keys
           /\ IsState(Head(inbox[c])) => ApplyState(c, Head(inbox[c]))
<1> DEFINE f == Head(inbox[c])
           to == Holds(known[c], f)
<1>1. /\ inbox[c] # <<>> /\ inbox[c] \in Seq(Said \cup State) /\ f \in Said \cup State
      /\ inbox' = [inbox EXCEPT ![c] = Tail(@)]
  BY Seqs DEF Deliver, ReplicasTypeOK
<1>2. known[c] \in Known /\ up[c] \in BOOLEAN /\ Rising(known[c], inbox[c], host)
  BY DEF ReplicasTypeOK, Known, InOrder
<1>3. up[c] => Introduced(known[c], inbox[c], Key(c), host.keys)
  BY DEF InOrder
<1> HIDE DEF to
<1>5. /\ to \in Known /\ known[c].keys \subseteq to.keys
      /\ Rising(to, Tail(inbox[c]), host)
      /\ up[c] => Introduced(to, Tail(inbox[c]), Key(c), host.keys)
      /\ IsState(f) => known[c].edition < f.edition
      /\ up[c] /\ ~IsState(f) /\ Key(c) \in known[c].keys => f.from \in known[c].keys
  BY <1>1, <1>2, <1>3, ReadOff DEF to
<1>6. IsState(f) => f.edition \in Nat /\ known[c].edition \in Nat
  BY <1>1, <1>2, Frames DEF IsState, Known
<1>7. IsState(f) => ApplyState(c, f)
  BY <1>5, <1>6 DEF Deliver, IsState
<1>8. known' = [known EXCEPT ![c] = to]
  <2>1. CASE IsState(f)
    BY <1>7, <2>1 DEF ApplyState, to, Holds
  <2>2. CASE ~IsState(f)
    <3>1. UNCHANGED known /\ to = known[c]
      BY <2>2 DEF Deliver, IsState, ApplyStep1, ApplyUpdate, to, Holds
    <3> QED BY <3>1 DEF ReplicasTypeOK
  <2> QED BY <2>1, <2>2
<1> QED BY <1>1, <1>2, <1>5, <1>7, <1>8 DEF to

\* Every step keeps the order.
LEMMA InOrderStep ==
    ASSUME Inv, [SyncNext]_syncVars
    PROVE  InOrder'
<1>1. ASSUME UNCHANGED <<up, conn, known, inbox, host>> PROVE InOrder'
  BY <1>1 DEF Inv, InOrder, Key
<1>2. ASSUME NEW c \in Clients
      PROVE  /\ known[c] \in Known /\ inbox[c] \in Seq(Said \cup State) /\ up[c] \in BOOLEAN
             /\ Rising(known[c], inbox[c], host)
             /\ up[c] => Introduced(known[c], inbox[c], Key(c), host.keys)
  BY DEF Inv, ReplicasTypeOK, Known, InOrder
<1>3. host.keys \subseteq Numbered /\ host.edition \in Nat /\ host.heard \subseteq Numbered
  BY DEF Inv, ReplicasTypeOK
<1>4. CASE HostPublishes
  <2> DEFINE f == [what |-> "state", edition |-> host.edition + 1, keys |-> host.keys \cup host.heard]
  <2>1. /\ f \in State /\ f.edition = host'.edition /\ f.keys = host'.keys
        /\ host'.edition = host.edition + 1 /\ host.keys \subseteq host'.keys
    BY <1>3, <1>4 DEF HostPublishes, State
  <2>2. /\ inbox' = [d \in Clients |-> IF up[d] /\ d # "host" THEN Append(inbox[d], f) ELSE inbox[d]]
        /\ UNCHANGED <<up, conn, known>>
    BY <1>4 DEF HostPublishes, Broadcast, session
  <2> HIDE DEF f
  <2>3. ASSUME NEW c \in Clients
        PROVE  /\ Rising(known[c], inbox'[c], host')
               /\ up[c] => Introduced(known[c], inbox'[c], Key(c), host'.keys)
    <3>1. /\ Rising(known[c], inbox[c], host') /\ Rising(known[c], Append(inbox[c], f), host')
          /\ up[c] => Introduced(known[c], Append(inbox[c], f), Key(c), host'.keys)
      BY <1>2, <1>3, <2>1, Published
    <3>2. inbox'[c] = IF up[c] THEN Append(inbox[c], f) ELSE inbox[c]
      BY <2>2, SyncAssumption
    <3> QED BY <3>1, <3>2
  <2> QED BY <2>2, <2>3 DEF InOrder, Key
<1>5. CASE \E c \in Clients : Reannounce(c) \/ PublishEdit(c) \/ Resyncs(c)
  BY <1>1, <1>5 DEF Reannounce, PublishEdit, Resyncs, session
<1>6. ASSUME NEW c \in Clients, Deliver(c) PROVE InOrder'
  <2>1. UNCHANGED <<up, conn, host>>
    BY <1>6 DEF Deliver
  <2>2. ASSUME NEW d \in Clients, d # c PROVE known'[d] = known[d] /\ inbox'[d] = inbox[d]
    BY <1>6, <2>2, Reads, ZenonT(30) DEF Inv, ReplicasTypeOK
  <2>3. /\ Rising(known'[c], inbox'[c], host)
        /\ up[c] => Introduced(known'[c], inbox'[c], Key(c), host.keys)
    <3>1. known'[c] = Holds(known[c], Head(inbox[c])) /\ inbox'[c] = Tail(inbox[c])
      BY <1>6, Reads DEF Inv, ReplicasTypeOK
    <3> QED BY <1>6, <3>1, Reads DEF Inv
  <2>4. ASSUME NEW d \in Clients
        PROVE  /\ Rising(known'[d], inbox'[d], host)
               /\ up[d] => Introduced(known'[d], inbox'[d], Key(d), host.keys)
    BY <1>2, <2>2, <2>3
  <2> QED BY <2>1, <2>4 DEF InOrder, Key
<1>7. ASSUME NEW c \in Clients, Drop(c) PROVE InOrder'
  <2>1. UNCHANGED <<conn, known, host>> /\ up' = [up EXCEPT ![c] = FALSE]
    BY <1>7 DEF Drop
  <2>2. PICK k \in 0..Len(inbox[c]) : inbox' = [inbox EXCEPT ![c] = SubSeq(@, 1, k)]
    BY <1>7 DEF Drop
  <2>3. Rising(known[c], SubSeq(inbox[c], 1, k), host)
    BY <1>2, CutShort
  <2>4. ASSUME NEW d \in Clients
        PROVE  /\ Rising(known[d], inbox'[d], host)
               /\ up'[d] => Introduced(known[d], inbox'[d], Key(d), host.keys)
    <3>1. CASE d = c
      BY <2>1, <2>2, <2>3, <3>1 DEF Inv, ReplicasTypeOK
    <3>2. CASE d # c
      BY <1>2, <2>1, <2>2, <3>2 DEF Inv, ReplicasTypeOK
    <3> QED BY <3>1, <3>2
  <2> QED BY <2>1, <2>4 DEF InOrder, Key
<1>8. ASSUME NEW c \in Clients, Reconnects(c) PROVE InOrder'
  <2>1. /\ UNCHANGED <<known, inbox>> /\ up' = [up EXCEPT ![c] = TRUE]
        /\ conn' = [conn EXCEPT ![c] = @ + 1] /\ host'.edition = host.edition /\ host'.keys = host.keys
    BY <1>8 DEF Reconnects, traffic, Inv, ReplicasTypeOK
  <2>2. Key(c)' = <<c, conn[c] + 1>> /\ \A d \in Clients : d # c => Key(d)' = Key(d)
    BY <2>1 DEF Key, Inv, ReplicasTypeOK
  <2>3. Key(c)' \notin host.keys
    BY <2>2 DEF Inv, Keyed, ReplicasTypeOK
  <2>4. \A i \in 1..(Len(inbox[c]) + 1) : ~Told(known[c], inbox[c], i, Key(c)')
    <3>1. Len(inbox[c]) \in Nat
      BY <1>2
    <3> HIDE DEF Key
    <3> QED BY <1>2, <2>3, <3>1 DEF Told, Rising
  <2>5. Introduced(known[c], inbox[c], Key(c)', host.keys)
    <3>1. Len(inbox[c]) \in Nat
      BY <1>2
    <3> QED BY <2>4, <3>1 DEF Introduced
  <2>6. ASSUME NEW d \in Clients
        PROVE  /\ Rising(known[d], inbox[d], host')
               /\ up'[d] => Introduced(known[d], inbox[d], Key(d)', host'.keys)
    <3>1. Rising(known[d], inbox[d], host')
      BY <1>2, <2>1 DEF Rising
    <3>2. CASE d = c
      BY <2>1, <2>5, <3>1, <3>2
    <3>3. CASE d # c
      BY <1>2, <2>1, <2>2, <3>1, <3>3 DEF Inv, ReplicasTypeOK
    <3> QED BY <3>2, <3>3
  <2> QED BY <2>1, <2>6 DEF InOrder
<1>9. ASSUME NEW c \in Clients, DrainOutbound(c) PROVE InOrder'
  <2> DEFINE f == Head(out[c])
  <2>1. f \in Said /\ f \in ToSet(out[c])
    BY <1>9, Seqs DEF DrainOutbound, Inv, ReplicasTypeOK
  <2>2. UNCHANGED <<up, conn, known>>
    BY <1>9 DEF DrainOutbound, session
  <2>3. CASE f.what = "announcement"
    <3>1. UNCHANGED inbox /\ host'.edition = host.edition /\ host'.keys = host.keys
      BY <1>9, <2>3 DEF DrainOutbound, Inv, ReplicasTypeOK
    <3>2. \A d \in Clients : Rising(known[d], inbox[d], host')
      BY <1>2, <3>1 DEF Rising
    <3> QED BY <1>2, <2>2, <3>1, <3>2 DEF InOrder, Key
  <2>4. CASE f.what # "announcement"
    <3>1. /\ inbox' = [d \in Clients |-> IF up[d] /\ d # c THEN Append(inbox[d], f) ELSE inbox[d]]
          /\ UNCHANGED host
      BY <1>9, <2>4 DEF DrainOutbound, Broadcast
    <3>2. f.from \in host.keys
      BY <2>1, <2>4 DEF Inv, Keyed
    <3> HIDE DEF f
    <3>3. ASSUME NEW d \in Clients
          PROVE  /\ Rising(known[d], inbox'[d], host)
                 /\ up[d] => Introduced(known[d], inbox'[d], Key(d), host.keys)
      <4>1. /\ Rising(known[d], Append(inbox[d], f), host)
            /\ up[d] => Introduced(known[d], Append(inbox[d], f), Key(d), host.keys)
        BY <1>2, <1>3, <2>1, <3>2, Arrives
      <4> QED BY <1>2, <3>1, <4>1
    <3> QED BY <2>2, <3>1, <3>3 DEF InOrder, Key
  <2> QED BY <2>3, <2>4
<1>10. CASE UNCHANGED syncVars
  BY <1>1, <1>10 DEF syncVars, session, traffic
<1> QED BY <1>4, <1>5, <1>6, <1>7, <1>8, <1>9, <1>10 DEF SyncNext

-----------------------------------------------------------------------------
(* What a client puts in its queue.                                        *)

\* A frame that was not in the queue of a client before.
Fresh(c, f) ==
    /\ f \in Said /\ f.from = Key(c)
    /\ f.what # "announcement" => Key(c) \in host.keys
    /\ f.what = "step1" => handshaken'[c]
    /\ f.what = "update" => IsFiniteSet(f.edits) /\ f.edits \subseteq docs'[c]

\* What a client queues is of its own key, and, announcements aside, of a committed one.
LEMMA Sends ==
    ASSUME Inv, NEW c \in Clients, Reannounce(c) \/ PublishEdit(c) \/ Resyncs(c) \/ Deliver(c)
    PROVE  /\ UNCHANGED <<up, conn, host>> /\ \A d \in Clients : d # c => out'[d] = out[d]
           /\ out'[c] = out[c] \/ up[c]
           /\ ToSet(out[c]) \subseteq ToSet(out'[c])
           /\ \A f \in ToSet(out'[c]) : f \in ToSet(out[c]) \/ Fresh(c, f)
<1>1. /\ out[c] \in Seq(Said) /\ docs[c] \in SUBSET Numbered /\ heldBack[c] \in SUBSET Numbered
      /\ IsFiniteSet(docs[c]) /\ heldBack[c] \subseteq docs[c] /\ known[c].keys \subseteq host.keys
      /\ out \in [Clients -> Seq(Said)] /\ handshaken \in [Clients -> BOOLEAN]
      /\ docs \in [Clients -> SUBSET Numbered]
  BY DEF Inv, ReplicasTypeOK, Authored, InOrder, Rising
<1>2. ASSUME NEW f \in Said, out' = [out EXCEPT ![c] = Append(@, f)], Fresh(c, f)
      PROVE  /\ \A d \in Clients : d # c => out'[d] = out[d]
             /\ ToSet(out[c]) \subseteq ToSet(out'[c])
             /\ \A g \in ToSet(out'[c]) : g \in ToSet(out[c]) \/ Fresh(c, g)
  <2>1. out'[c] = Append(out[c], f) /\ \A d \in Clients : d # c => out'[d] = out[d]
    BY <1>1, <1>2
  <2>2. ToSet(Append(out[c], f)) = ToSet(out[c]) \cup {f}
    BY <1>1, Seqs
  <2> HIDE DEF Fresh
  <2> QED BY <1>2, <2>1, <2>2
<1>3. CASE Reannounce(c)
  <2>1. /\ Frame(c, "announcement") \in Said /\ Fresh(c, Frame(c, "announcement"))
        /\ out' = [out EXCEPT ![c] = Append(@, Frame(c, "announcement"))]
        /\ UNCHANGED <<up, conn, host>> /\ up[c]
    BY <1>3, Says DEF Reannounce, Fresh, Inv
  <2> QED BY <1>2, <2>1
<1>4. CASE PublishEdit(c)
  <2> DEFINE e == <<c, Made(c) + 1>>
  <2>1. e \in Numbered /\ UNCHANGED <<up, conn, host>> /\ docs' = [docs EXCEPT ![c] = @ \cup {e}]
    BY <1>4, Numbers DEF Inv, PublishEdit, session
  <2>2. CASE CanPublish(c)
    <3>1. out' = [out EXCEPT ![c] = Append(@, Update(c, {e}))]
      BY <1>4, <2>2 DEF PublishEdit
    <3> HIDE DEF e
    <3>2. IsFiniteSet({e}) /\ e \in docs'[c]
      BY <1>1, <2>1, FS_Singleton
    <3>3. /\ Update(c, {e}) \in Said /\ Update(c, {e}).what = "update"
          /\ Update(c, {e}).from = Key(c) /\ Update(c, {e}).edits = {e}
      BY <2>1, Says DEF Inv
    <3>4. Fresh(c, Update(c, {e})) /\ up[c]
      BY <1>1, <2>2, <3>2, <3>3 DEF Fresh, CanPublish
    <3> QED BY <1>2, <2>1, <3>1, <3>3, <3>4
  <2>3. CASE ~CanPublish(c)
    BY <1>4, <2>1, <2>3 DEF PublishEdit
  <2> QED BY <2>2, <2>3
<1>5. CASE Resyncs(c)
  <2>1. /\ out' = [out EXCEPT ![c] = Append(@, Step1(c, docs[c]))] /\ handshaken'[c]
        /\ UNCHANGED <<up, conn, host>> /\ up[c] /\ Key(c) \in host.keys
    BY <1>1, <1>5 DEF Resyncs, Asked, CanPublish, session
  <2>2. Step1(c, docs[c]) \in Said /\ Fresh(c, Step1(c, docs[c]))
    BY <2>1, Says DEF Fresh, Inv
  <2> QED BY <1>2, <2>1, <2>2
<1>6. CASE Deliver(c)
  <2> DEFINE f == Head(inbox[c])
  <2>1. UNCHANGED <<up, conn, host>>
    BY <1>6 DEF Deliver
  <2>2. CASE IsState(f) /\ up[c] /\ Key(c) \in f.keys
    <3> DEFINE request == IF handshaken[c] THEN <<>> ELSE <<Step1(c, docs[c])>>
               flush == IF heldBack[c] = {} THEN <<>> ELSE <<Update(c, heldBack[c])>>
    <3>1. /\ out' = [out EXCEPT ![c] = @ \o request \o flush] /\ (~handshaken[c] => handshaken'[c])
          /\ UNCHANGED docs
      <4>1. ApplyState(c, f)
        BY <1>6, <2>2, Reads DEF Inv
      <4> HIDE DEF f
      <4>2. out' = [out EXCEPT ![c] = @ \o request \o flush] /\ UNCHANGED docs
        BY <2>2, <4>1 DEF ApplyState
      <4>3. ~handshaken[c] => handshaken' = [handshaken EXCEPT ![c] = TRUE]
        BY <2>2, <4>1 DEF ApplyState, Asked
      <4> QED BY <1>1, <4>2, <4>3
    <3>2. f.keys \subseteq host.keys
      BY <1>6, <2>1, <2>2, Reads DEF Inv, Holds, Rising
    <3>3. \A g \in ToSet(request) : Fresh(c, g)
      BY <2>2, <3>1, <3>2, Says DEF Fresh, Inv, ToSet
    <3>4. \A g \in ToSet(flush) : Fresh(c, g)
      <4>1. IsFiniteSet(heldBack[c]) /\ heldBack[c] \subseteq docs'[c]
        BY <1>1, <3>1, FS_Subset
      <4>2. Fresh(c, Update(c, heldBack[c]))
        BY <1>1, <2>2, <3>2, <4>1, Says DEF Fresh, Inv
      <4> QED BY <4>2 DEF ToSet
    <3>5. request \in Seq(Said) /\ flush \in Seq(Said)
      BY <1>1, Says DEF Inv
    <3> HIDE DEF request, flush
    <3>6. /\ out[c] \o request \in Seq(Said)
          /\ ToSet(out[c] \o request \o flush) = ToSet(out[c]) \cup ToSet(request) \cup ToSet(flush)
      <4>1. out[c] \o request \in Seq(Said) /\ ToSet(out[c] \o request) = ToSet(out[c]) \cup ToSet(request)
        BY <1>1, <3>5, Joined
      <4> DEFINE q == out[c] \o request
      <4> HIDE DEF q
      <4>2. q \in Seq(Said)
        BY <4>1 DEF q
      <4>3. ToSet(q \o flush) = ToSet(q) \cup ToSet(flush)
        BY <3>5, <4>2, Joined
      <4> QED BY <4>1, <4>3 DEF q
    <3>7. out'[c] = out[c] \o request \o flush /\ \A d \in Clients : d # c => out'[d] = out[d]
      BY <1>1, <3>1
    <3> HIDE DEF f
    <3> QED BY <2>1, <2>2, <3>3, <3>4, <3>6, <3>7
  <2>3. CASE f.what = "step1" /\ ApplyStep1(c, f) /\ CanPublish(c)
    <3>1. /\ out' = [out EXCEPT ![c] = Append(@, Update(c, Beyond(docs[c], f.vector)))]
          /\ UNCHANGED docs
      BY <2>3 DEF ApplyStep1, texts
    <3>2. /\ IsFiniteSet(Beyond(docs[c], f.vector)) /\ Beyond(docs[c], f.vector) \in SUBSET Numbered
          /\ Beyond(docs[c], f.vector) \subseteq docs[c]
      BY <1>1, FS_Subset DEF Beyond
    <3> HIDE DEF f
    <3>3. /\ Update(c, Beyond(docs[c], f.vector)) \in Said
          /\ Fresh(c, Update(c, Beyond(docs[c], f.vector)))
      BY <1>1, <2>3, <3>1, <3>2, Says DEF Fresh, Inv, CanPublish
    <3> QED BY <1>2, <2>1, <2>3, <3>1, <3>3 DEF CanPublish
  <2>4. CASE UNCHANGED out
    BY <2>1, <2>4
  <2>5. \/ IsState(f) /\ up[c] /\ Key(c) \in f.keys
        \/ f.what = "step1" /\ ApplyStep1(c, f) /\ CanPublish(c)
        \/ UNCHANGED out
    <3>1. CASE IsState(f)
      BY <1>6, <3>1, Reads DEF ApplyState, Inv
    <3>2. CASE ~IsState(f)
      BY <1>6, <3>2 DEF Deliver, IsState, ApplyStep1, ApplyUpdate
    <3> QED BY <3>1, <3>2
  <2> QED BY <2>2, <2>3, <2>4, <2>5
<1> QED BY <1>3, <1>4, <1>5, <1>6

\* What is on its way to a client and what is queued for its socket, after each of the other steps.
LEMMA Receives ==
    ASSUME ReplicasTypeOK, InOrder, NEW c \in Clients, Reannounce(c) \/ PublishEdit(c) \/ Resyncs(c) \/ Deliver(c)
    PROVE  \A d \in Clients : ToSet(inbox'[d]) \subseteq ToSet(inbox[d])
<1>1. CASE Reannounce(c) \/ PublishEdit(c) \/ Resyncs(c)
  BY <1>1 DEF Reannounce, PublishEdit, Resyncs
<1>2. CASE Deliver(c)
  <2>1. ToSet(Tail(inbox[c])) \subseteq ToSet(inbox[c])
    BY <1>2, Reads, Seqs
  <2>2. inbox' = [inbox EXCEPT ![c] = Tail(@)]
    BY <1>2, Reads
  <2>3. \A d \in Clients : inbox'[d] = IF d = c THEN Tail(inbox[c]) ELSE inbox[d]
    BY <2>2 DEF ReplicasTypeOK
  <2> QED BY <2>1, <2>3
<1> QED BY <1>1, <1>2

\* The server passes the head of a queue on to everybody else, or tells the host.
LEMMA Drains ==
    ASSUME ReplicasTypeOK, NEW c \in Clients, DrainOutbound(c)
    PROVE  /\ up[c] /\ UNCHANGED <<session, texts, asks>> /\ host'.keys = host.keys
           /\ Head(out[c]) \in Said /\ ~IsState(Head(out[c]))
           /\ ToSet(out[c]) = ToSet(out'[c]) \cup {Head(out[c])}
           /\ \A d \in Clients : d # c => out'[d] = out[d]
           /\ Head(out[c]).what = "announcement" =>
                 UNCHANGED inbox /\ host'.heard = host.heard \cup {Head(out[c]).from}
           /\ Head(out[c]).what # "announcement" =>
                 /\ UNCHANGED host
                 /\ \A d \in Clients : ToSet(inbox'[d]) =
                       IF up[d] /\ d # c THEN ToSet(inbox[d]) \cup {Head(out[c])} ELSE ToSet(inbox[d])
<1> DEFINE f == Head(out[c])
<1>1. /\ out[c] # <<>> /\ out[c] \in Seq(Said) /\ up[c] /\ UNCHANGED <<session, texts, asks>>
      /\ out' = [out EXCEPT ![c] = Tail(@)]
  BY DEF DrainOutbound, ReplicasTypeOK
<1>2. f \in Said /\ ToSet(out[c]) = ToSet(Tail(out[c])) \cup {f}
  BY <1>1, Seqs
<1>3. ~IsState(f)
  BY <1>2, Frames DEF IsState
<1>4. out'[c] = Tail(out[c]) /\ \A d \in Clients : d # c => out'[d] = out[d]
  BY <1>1 DEF ReplicasTypeOK
<1>5. CASE f.what = "announcement"
  <2>1. UNCHANGED inbox /\ host'.heard = host.heard \cup {f.from} /\ host'.keys = host.keys
    BY <1>5 DEF DrainOutbound, ReplicasTypeOK
  <2> HIDE DEF f
  <2> QED BY <1>1, <1>2, <1>3, <1>4, <1>5, <2>1 DEF f
<1>6. CASE f.what # "announcement"
  <2>1. /\ inbox' = [d \in Clients |-> IF up[d] /\ d # c THEN Append(inbox[d], f) ELSE inbox[d]]
        /\ UNCHANGED host
    BY <1>6 DEF DrainOutbound, Broadcast
  <2>2. ASSUME NEW d \in Clients PROVE ToSet(Append(inbox[d], f)) = ToSet(inbox[d]) \cup {f}
    <3>1. inbox[d] \in Seq(Said \cup State) /\ f \in Said \cup State
      BY <1>2 DEF ReplicasTypeOK
    <3> HIDE DEF f
    <3> QED BY <3>1, Seqs
  <2> HIDE DEF f
  <2>3. ASSUME NEW d \in Clients
        PROVE  ToSet(inbox'[d]) = IF up[d] /\ d # c THEN ToSet(inbox[d]) \cup {f} ELSE ToSet(inbox[d])
    BY <2>1, <2>2
  <2> QED BY <1>1, <1>2, <1>3, <1>4, <1>6, <2>1, <2>3 DEF f
<1> QED BY <1>5, <1>6

\* A drop empties the queue and cuts off what was on its way.
LEMMA Drops ==
    ASSUME ReplicasTypeOK, NEW c \in Clients, Drop(c)
    PROVE  /\ up[c] /\ up'[c] = FALSE /\ \A d \in Clients : d # c => up'[d] = up[d]
           /\ UNCHANGED <<conn, known, announced, texts, asks, host>>
           /\ ToSet(out'[c]) = {} /\ out'[c] = <<>> /\ ToSet(inbox'[c]) \subseteq ToSet(inbox[c])
           /\ \A d \in Clients : d # c => out'[d] = out[d] /\ inbox'[d] = inbox[d]
<1>1. PICK k \in 0..Len(inbox[c]) : inbox' = [inbox EXCEPT ![c] = SubSeq(@, 1, k)]
  BY DEF Drop
<1>2. ToSet(SubSeq(inbox[c], 1, k)) \subseteq ToSet(inbox[c])
  BY Seqs DEF ReplicasTypeOK
<1>3. inbox'[c] = SubSeq(inbox[c], 1, k) /\ \A d \in Clients : d # c => inbox'[d] = inbox[d]
  BY <1>1 DEF ReplicasTypeOK
<1>4. ToSet(out'[c]) = {} /\ out'[c] = <<>> /\ \A d \in Clients : d # c => out'[d] = out[d]
  BY DEF Drop, ReplicasTypeOK, ToSet
<1> QED BY <1>2, <1>3, <1>4 DEF Drop, ReplicasTypeOK

\* A publication adds a state to what is on its way to those who are up.
LEMMA Publishes ==
    ASSUME ReplicasTypeOK, HostPublishes
    PROVE  /\ UNCHANGED <<session, texts, asks, out>> /\ host'.heard = {}
           /\ host'.keys = host.keys \cup host.heard
           /\ \A d \in Clients : /\ ToSet(inbox[d]) \subseteq ToSet(inbox'[d])
                                 /\ \A f \in ToSet(inbox'[d]) : f \in ToSet(inbox[d]) \/ IsState(f)
<1> DEFINE f == [what |-> "state", edition |-> host.edition + 1, keys |-> host.keys \cup host.heard]
<1>1. f \in State /\ IsState(f)
  BY DEF State, IsState, ReplicasTypeOK
<1>2. inbox' = [d \in Clients |-> IF up[d] /\ d # "host" THEN Append(inbox[d], f) ELSE inbox[d]]
  BY DEF HostPublishes, Broadcast
<1> HIDE DEF f
<1>3. ASSUME NEW d \in Clients PROVE ToSet(Append(inbox[d], f)) = ToSet(inbox[d]) \cup {f}
  <2>1. inbox[d] \in Seq(Said \cup State) /\ f \in Said \cup State
    BY <1>1 DEF ReplicasTypeOK
  <2> QED BY <2>1, Seqs
<1>4. ASSUME NEW d \in Clients
      PROVE  /\ ToSet(inbox[d]) \subseteq ToSet(inbox'[d])
             /\ \A g \in ToSet(inbox'[d]) : g \in ToSet(inbox[d]) \/ IsState(g)
  BY <1>1, <1>2, <1>3
<1> QED BY <1>4 DEF HostPublishes

\* A re-seat has a new key, and a handshake to make.
LEMMA Reseats ==
    ASSUME ReplicasTypeOK, NEW c \in Clients, Reconnects(c)
    PROVE  /\ ~up[c] /\ up'[c] /\ ~handshaken'[c] /\ answered'[c] = {} /\ pending'[c] = {}
           /\ conn'[c] = conn[c] + 1 /\ Key(c)' = <<c, conn[c] + 1>>
           /\ \A d \in Clients : d # c =>
                 /\ up'[d] = up[d] /\ conn'[d] = conn[d] /\ Key(d)' = Key(d) /\ handshaken'[d] = handshaken[d]
                 /\ refused'[d] = refused[d] /\ answered'[d] = answered[d] /\ pending'[d] = pending[d]
           /\ host'.keys = host.keys /\ host'.heard = host.heard /\ UNCHANGED <<known, announced, texts, traffic>>
<1>1. conn' = [conn EXCEPT ![c] = @ + 1] /\ conn'[c] = conn[c] + 1
  BY DEF Reconnects, ReplicasTypeOK
<1> QED BY <1>1 DEF Reconnects, Cleared, ReplicasTypeOK, Key

-----------------------------------------------------------------------------
(* The keys.                                                               *)

\* Every step keeps the keys of the frames.
LEMMA KeyedStep ==
    ASSUME Inv, [SyncNext]_syncVars
    PROVE  Keyed'
<1>1. /\ \A k \in host.keys \cup host.heard : k[2] <= conn[k[1]]
      /\ host.keys \subseteq Numbered /\ host.heard \subseteq Numbered
      /\ conn \in [Clients -> Nat \ {0}] /\ up \in [Clients -> BOOLEAN]
      /\ answered \in [Clients -> SUBSET Numbered]
  BY DEF Inv, Keyed, ReplicasTypeOK
<1>2. ASSUME NEW c \in Clients
      PROVE  /\ answered[c] \subseteq host.keys /\ (~up[c] => out[c] = <<>>)
             /\ \A f \in ToSet(out[c]) : /\ ~IsState(f) /\ f.from = Key(c)
                                         /\ f.what # "announcement" => f.from \in host.keys
             /\ \A f \in ToSet(inbox[c]) : ~IsState(f) => f.from \in host.keys
  BY DEF Inv, Keyed
<1>3. ASSUME NEW c \in Clients, Reannounce(c) \/ PublishEdit(c) \/ Resyncs(c) \/ Deliver(c) PROVE Keyed'
  <2>1. UNCHANGED <<up, conn, host>> /\ \A d \in Clients : d # c => out'[d] = out[d]
    BY <1>3, Sends
  <2>2. out'[c] = out[c] \/ up[c]
    BY <1>3, Sends
  <2>3. ASSUME NEW f \in ToSet(out'[c])
        PROVE  ~IsState(f) /\ f.from = Key(c) /\ (f.what # "announcement" => f.from \in host.keys)
    <3>1. CASE f \in ToSet(out[c])
      BY <1>2, <3>1
    <3>2. CASE Fresh(c, f)
      BY <3>2, Frames DEF Fresh, IsState
    <3> QED BY <1>3, <3>1, <3>2, Sends
  <2>4. \A d \in Clients : answered'[d] \subseteq host.keys
    <3>1. CASE UNCHANGED answered
      BY <1>2, <3>1
    <3>3. CASE Deliver(c) /\ ~IsState(Head(inbox[c])) /\ Arms(c, Head(inbox[c]).from)
      <4>1. Head(inbox[c]) \in ToSet(inbox[c])
        BY <3>3, Reads, Seqs DEF Inv
      <4>2. Head(inbox[c]).from \in host.keys
        BY <1>2, <3>3, <4>1
      <4> QED BY <1>1, <1>2, <3>3, <4>2, SMTT(30) DEF Arms
    <3>4. CASE Deliver(c) /\ IsState(Head(inbox[c]))
      <4>1. UNCHANGED answered
        BY <3>4, Reads DEF ApplyState, Inv
      <4> QED BY <1>2, <4>1
    <3> QED BY <1>3, <3>1, <3>3, <3>4
         DEF Reannounce, PublishEdit, Resyncs, Asked, Deliver, IsState, ApplyStep1, ApplyUpdate, asks
  <2>5. \A d \in Clients : \A f \in ToSet(inbox'[d]) : ~IsState(f) => f.from \in host.keys
    BY <1>2, <1>3, Receives DEF Inv
  <2>6. ASSUME NEW d \in Clients
        PROVE  /\ answered'[d] \subseteq host.keys /\ (~up[d] => out'[d] = <<>>)
               /\ \A f \in ToSet(out'[d]) : /\ ~IsState(f) /\ f.from = Key(d)
                                            /\ f.what # "announcement" => f.from \in host.keys
               /\ \A f \in ToSet(inbox'[d]) : ~IsState(f) => f.from \in host.keys
    <3>1. CASE d = c
      BY <1>2, <2>2, <2>3, <2>4, <2>5, <3>1
    <3>2. CASE d # c
      BY <1>2, <2>1, <2>4, <2>5, <3>2
    <3> QED BY <3>1, <3>2
  <2> QED BY <1>1, <2>1, <2>6 DEF Keyed, Key
<1>4. ASSUME NEW c \in Clients, DrainOutbound(c) PROVE Keyed'
  <2> DEFINE f == Head(out[c])
  <2>1. f.from = Key(c) /\ f.from \in Numbered /\ Key(c)[1] = c /\ Key(c)[2] = conn[c]
    <3>1. f \in ToSet(out[c])
      BY <1>4, Drains DEF Inv
    <3>2. f.from = Key(c)
      BY <1>2, <3>1
    <3> QED BY <3>2, Says DEF Inv
  <2>2. UNCHANGED <<up, conn, answered>> /\ host'.keys = host.keys /\ ~IsState(f)
    BY <1>4, Drains DEF Inv, session, asks
  <2>3. \A d \in Clients : /\ ToSet(out'[d]) \subseteq ToSet(out[d])
                           /\ ~up[d] => out'[d] = <<>>
    BY <1>2, <1>4, Drains DEF Inv
  <2>4. \A k \in host'.keys \cup host'.heard : k[2] <= conn[k[1]]
    <3>1. host'.heard \subseteq host.heard \cup {Key(c)}
      BY <1>4, <2>1, Drains DEF Inv
    <3> QED BY <1>1, <2>1, <2>2, <3>1
  <2>5. \A d \in Clients : \A g \in ToSet(inbox'[d]) : ~IsState(g) => g.from \in host.keys
    <3>1. CASE f.what = "announcement"
      BY <1>2, <1>4, <3>1, Drains DEF Inv
    <3>2. CASE f.what # "announcement"
      <4>1. f.from \in host.keys
        BY <1>2, <1>4, <3>2, Drains DEF Inv
      <4>2. \A d \in Clients : ToSet(inbox'[d]) \subseteq ToSet(inbox[d]) \cup {f}
        BY <1>4, <3>2, Drains DEF Inv
      <4> HIDE DEF f
      <4> QED BY <1>2, <4>1, <4>2
    <3> QED BY <3>1, <3>2
  <2> QED BY <1>2, <2>2, <2>3, <2>4, <2>5 DEF Keyed, Key
<1>5. ASSUME NEW c \in Clients, Drop(c) PROVE Keyed'
  <2>1. \A d \in Clients : /\ ToSet(out'[d]) \subseteq ToSet(out[d]) /\ (~up'[d] => out'[d] = <<>>)
                           /\ ToSet(inbox'[d]) \subseteq ToSet(inbox[d])
    BY <1>2, <1>5, Drops DEF Inv
  <2>2. UNCHANGED <<conn, host, answered>>
    BY <1>5, Drops DEF Inv, asks
  <2> QED BY <1>1, <1>2, <2>1, <2>2 DEF Keyed, Key
<1>6. CASE HostPublishes
  <2>1. UNCHANGED <<up, conn, answered, out>>
    BY <1>6, Publishes DEF Inv, session, asks
  <2> QED BY <1>1, <1>2, <1>6, <2>1, Publishes DEF Inv, Keyed, Key
<1>7. ASSUME NEW c \in Clients, Reconnects(c) PROVE Keyed'
  <2>1. \A k \in host'.keys \cup host'.heard : k[2] <= conn'[k[1]]
    <3>1. ASSUME NEW d \in Clients PROVE conn[d] <= conn'[d] /\ conn[d] \in Nat /\ conn'[d] \in Nat
      BY <1>1, <1>7, Reseats DEF Inv
    <3>2. ASSUME NEW k \in host.keys \cup host.heard PROVE k[2] <= conn'[k[1]]
      <4>1. k[1] \in Clients /\ k[2] \in Nat /\ k[2] <= conn[k[1]]
        BY <1>1, Frames
      <4> QED BY <3>1, <4>1
    <3> QED BY <1>7, <3>2, Reseats DEF Inv
  <2>2. ASSUME NEW d \in Clients
        PROVE  /\ answered'[d] \subseteq host.keys /\ (~up'[d] => out'[d] = <<>>)
               /\ \A f \in ToSet(out'[d]) : /\ ~IsState(f) /\ f.from = Key(d)'
                                            /\ f.what # "announcement" => f.from \in host.keys
               /\ \A f \in ToSet(inbox'[d]) : ~IsState(f) => f.from \in host.keys
    <3>0. UNCHANGED <<out, inbox>>
      BY <1>7, Reseats DEF Inv, traffic
    <3>1. CASE d = c
      <4>1. out[c] = <<>> /\ ToSet(out[c]) = {}
        BY <1>2, <1>7, Reseats DEF Inv, ToSet
      <4> QED BY <1>2, <1>7, <3>0, <3>1, <4>1, Reseats DEF Inv
    <3>2. CASE d # c
      BY <1>2, <1>7, <3>0, <3>2, Reseats DEF Inv
    <3> QED BY <3>1, <3>2
  <2>3. host'.keys = host.keys
    BY <1>7, Reseats DEF Inv
  <2> QED BY <2>1, <2>2, <2>3 DEF Keyed
<1>8. CASE UNCHANGED syncVars
  BY <1>1, <1>2, <1>8 DEF syncVars, session, asks, traffic, Keyed, Key
<1> QED BY <1>3, <1>4, <1>5, <1>6, <1>7, <1>8 DEF SyncNext

-----------------------------------------------------------------------------
(* The edits.                                                              *)

\* No replica forgets an edit.
LEMMA Grows ==
    ASSUME ReplicasTypeOK, [SyncNext]_syncVars, NEW d \in Clients
    PROVE  docs[d] \subseteq docs'[d]
<1>1. ASSUME NEW c \in Clients, PublishEdit(c) PROVE docs[d] \subseteq docs'[d]
  BY <1>1 DEF PublishEdit, ReplicasTypeOK
<1>2. ASSUME NEW c \in Clients, Deliver(c) PROVE docs[d] \subseteq docs'[d]
  <2> DEFINE f == Head(inbox[c])
  <2>1. UNCHANGED docs \/ ApplyUpdate(c, f)
    BY <1>2 DEF Deliver, ApplyState, ApplyStep1, texts
  <2> HIDE DEF f
  <2>2. docs \in [Clients -> SUBSET Numbered]
    BY DEF ReplicasTypeOK
  <2>3. CASE docs' = [docs EXCEPT ![c] = @ \cup f.edits]
    BY <2>2, <2>3
  <2> QED BY <2>1, <2>3 DEF ApplyUpdate
<1>3. CASE UNCHANGED docs
  BY <1>3
<1> QED BY <1>1, <1>2, <1>3
     DEF SyncNext, HostPublishes, Reannounce, Resyncs, Drop, Reconnects, DrainOutbound, syncVars, texts

\* Every step keeps an edit where its author has it.
LEMMA AuthoredStep ==
    ASSUME Inv, [SyncNext]_syncVars
    PROVE  Authored'
<1>1. ASSUME NEW d \in Clients
      PROVE  /\ IsFiniteSet(docs[d]) /\ heldBack[d] \subseteq docs[d] /\ docs[d] \subseteq docs'[d]
             /\ \A e \in docs[d] : e \in docs[e[1]] /\ e \in Numbered
             /\ \A f \in ToSet(out[d]) \cup ToSet(inbox[d]) : f.what = "update" =>
                   IsFiniteSet(f.edits) /\ \A e \in f.edits : e \in docs[e[1]]
  BY Grows DEF Inv, Authored, ReplicasTypeOK
<1>2. \A e \in Numbered : e[1] \in Clients /\ (e \in docs[e[1]] => e \in docs'[e[1]])
  BY <1>1, Frames
<1>3. docs \in [Clients -> SUBSET Numbered] /\ heldBack \in [Clients -> SUBSET Numbered]
  BY DEF Inv, ReplicasTypeOK
\* A carrier that was there before stays one.
<1>4. ASSUME NEW d \in Clients, NEW f \in ToSet(out[d]) \cup ToSet(inbox[d]), f.what = "update"
      PROVE  IsFiniteSet(f.edits) /\ \A e \in f.edits : e \in docs'[e[1]]
  <2>1. f \in Said \cup State /\ f.edits \subseteq Numbered
    <3>1. f \in Said \cup State
      <4>1. ToSet(out[d]) \subseteq Said /\ ToSet(inbox[d]) \subseteq Said \cup State
        BY Seqs DEF Inv, ReplicasTypeOK
      <4> QED BY <4>1
    <3> QED BY <1>4, <3>1, Frames
  <2> QED BY <1>1, <1>2, <1>4, <2>1
<1>5. ASSUME UNCHANGED texts,
             \A d \in Clients : \A f \in ToSet(out'[d]) \cup ToSet(inbox'[d]) : f.what = "update" =>
                \E b \in Clients : f \in ToSet(out[b]) \cup ToSet(inbox[b])
      PROVE  Authored'
  BY <1>1, <1>4, <1>5 DEF Authored, texts
<1>6. ASSUME NEW c \in Clients, Reannounce(c) \/ PublishEdit(c) \/ Resyncs(c) \/ Deliver(c) PROVE Authored'
  <2>1. ASSUME NEW d \in Clients
        PROVE  /\ IsFiniteSet(docs'[d]) /\ heldBack'[d] \subseteq docs'[d]
               /\ \A e \in docs'[d] : e \in Numbered /\ e \in docs'[e[1]]
    <3>1. CASE PublishEdit(c)
      <4> DEFINE e == <<c, Made(c) + 1>>
      <4>1. /\ docs' = [docs EXCEPT ![c] = @ \cup {e}] /\ e \in Numbered
            /\ UNCHANGED heldBack \/ heldBack' = [heldBack EXCEPT ![c] = @ \cup {e}]
        BY <3>1, Numbers DEF PublishEdit, Inv
      <4>2. e[1] = c
        OBVIOUS
      <4> HIDE DEF e
      <4>3. e \in docs'[c] /\ IsFiniteSet(docs[d] \cup {e})
        <5>1. e \in docs'[c]
          BY <1>3, <4>1
        <5> QED BY <1>1, <5>1, FS_AddElement
      <4>4. docs'[d] \subseteq docs[d] \cup {e} /\ heldBack'[d] \subseteq heldBack[d] \cup {e}
        BY <1>3, <4>1
      <4>5. e \in heldBack'[d] => e \in heldBack[d] \/ d = c
        BY <1>3, <4>1
      <4>6. heldBack'[d] \subseteq docs'[d]
        BY <1>1, <4>3, <4>4, <4>5
      <4>7. IsFiniteSet(docs'[d])
        BY <4>3, <4>4, FS_Subset
      <4> QED BY <1>1, <1>2, <4>1, <4>2, <4>3, <4>4, <4>6, <4>7
    <3>2. CASE Deliver(c) /\ ApplyUpdate(c, Head(inbox[c])) /\ Head(inbox[c]).what = "update"
      <4> DEFINE f == Head(inbox[c])
      <4>1. f \in ToSet(inbox[c]) /\ f \in Said \cup State
        BY <3>2, Reads, Seqs DEF Inv
      <4>2. f.edits \subseteq Numbered
        BY <3>2, <4>1, Frames
      <4>3. docs' = [docs EXCEPT ![c] = @ \cup f.edits] /\ UNCHANGED heldBack
        BY <3>2 DEF ApplyUpdate
      <4>4. IsFiniteSet(f.edits) /\ \A e \in f.edits : e \in docs'[e[1]]
        BY <1>4, <3>2, <4>1
      <4> HIDE DEF f
      <4>5. docs'[d] = docs[d] \/ docs'[d] = docs[d] \cup f.edits
        BY <1>3, <4>3
      <4>6. IsFiniteSet(docs'[d])
        <5>1. IsFiniteSet(docs[d]) /\ IsFiniteSet(f.edits)
          BY <1>1, <4>4
        <5>2. IsFiniteSet(docs[d] \cup f.edits)
          BY <5>1, FS_Union
        <5> QED BY <4>5, <5>1, <5>2
      <4> QED BY <1>1, <1>2, <4>2, <4>3, <4>4, <4>5, <4>6
    <3>3. CASE UNCHANGED docs /\ heldBack'[d] \subseteq heldBack[d]
      BY <1>1, <3>3
    <3>4. CASE Deliver(c)
      <4>1. CASE IsState(Head(inbox[c]))
        <5>1. UNCHANGED docs /\ (UNCHANGED heldBack \/ heldBack' = [heldBack EXCEPT ![c] = {}])
          BY <3>4, <4>1, Reads DEF ApplyState, Inv
        <5> QED BY <1>3, <3>3, <5>1
      <4>2. CASE ~IsState(Head(inbox[c]))
        <5>1. \/ ApplyUpdate(c, Head(inbox[c])) /\ Head(inbox[c]).what = "update"
              \/ UNCHANGED texts
          BY <3>4, <4>2 DEF Deliver, IsState, ApplyStep1
        <5> QED BY <3>2, <3>3, <3>4, <5>1 DEF texts
      <4> QED BY <4>1, <4>2
    <3> QED BY <1>6, <3>1, <3>3, <3>4 DEF Reannounce, Resyncs, texts
  <2>2. ASSUME NEW d \in Clients, NEW f \in ToSet(out'[d]) \cup ToSet(inbox'[d]), f.what = "update"
        PROVE  IsFiniteSet(f.edits) /\ \A e \in f.edits : e \in docs'[e[1]]
    <3>1. CASE f \in ToSet(out[d]) \cup ToSet(inbox[d])
      BY <1>4, <2>2, <3>1
    <3>2. CASE Fresh(c, f)
      <4>1. IsFiniteSet(f.edits) /\ f.edits \subseteq docs'[c]
        BY <2>2, <3>2 DEF Fresh
      <4> QED BY <2>1, <4>1
    <3>3. (f \in ToSet(out'[c]) /\ d = c) \/ f \in ToSet(out[d]) \cup ToSet(inbox[d])
      BY <1>6, <2>2, Sends, Receives DEF Inv
    <3> QED BY <1>6, <3>1, <3>2, <3>3, Sends
  <2> QED BY <2>1, <2>2 DEF Authored
<1>7. ASSUME NEW c \in Clients, DrainOutbound(c) PROVE Authored'
  <2>1. ASSUME NEW d \in Clients
        PROVE  /\ ToSet(out'[d]) \subseteq ToSet(out[d])
               /\ ToSet(inbox'[d]) \subseteq ToSet(inbox[d]) \cup ToSet(out[c])
    BY <1>7, Drains DEF Inv
  <2> QED BY <1>5, <1>7, <2>1, Drains DEF Inv
<1>8. ASSUME NEW c \in Clients, Drop(c) PROVE Authored'
  <2>1. ASSUME NEW d \in Clients
        PROVE  ToSet(out'[d]) \subseteq ToSet(out[d]) /\ ToSet(inbox'[d]) \subseteq ToSet(inbox[d])
    BY <1>8, Drops DEF Inv
  <2> QED BY <1>5, <1>8, <2>1, Drops DEF Inv
<1>9. CASE HostPublishes
  BY <1>5, <1>9, Publishes DEF Inv, IsState
<1>10. ASSUME NEW c \in Clients, Reconnects(c) PROVE Authored'
  BY <1>5, <1>10, Reseats DEF Inv, traffic
<1>11. CASE UNCHANGED syncVars
  BY <1>5, <1>11 DEF syncVars, traffic
<1> QED BY <1>6, <1>7, <1>8, <1>9, <1>10, <1>11 DEF SyncNext

-----------------------------------------------------------------------------
(* The handshakes.                                                         *)

\* Every step keeps the handshakes.
LEMMA HandshakesStep ==
    ASSUME Inv, [SyncNext]_syncVars
    PROVE  Handshakes'
<1>1. ASSUME NEW c \in Clients
      PROVE  /\ up[c] /\ handshaken[c] => Key(c) \in known[c].keys
             /\ ~handshaken[c] => \A d \in Clients :
                   /\ Key(c) \notin answered[d]
                   /\ \A f \in ToSet(out[d]) \cup ToSet(inbox[d]) : f.what = "step1" => f.from # Key(c)
  BY DEF Inv, Handshakes
<1>2. /\ handshaken \in [Clients -> BOOLEAN] /\ answered \in [Clients -> SUBSET Numbered]
      /\ up \in [Clients -> BOOLEAN]
  BY DEF Inv, ReplicasTypeOK
<1>3. ASSUME UNCHANGED <<conn, known, handshaken, answered>>,
             \A d \in Clients :
                /\ up'[d] => up[d]
                /\ \A f \in ToSet(out'[d]) \cup ToSet(inbox'[d]) : f.what = "step1" =>
                      \E b \in Clients : f \in ToSet(out[b]) \cup ToSet(inbox[b])
      PROVE  Handshakes'
  BY <1>1, <1>3 DEF Handshakes, Key
<1>4. ASSUME NEW c \in Clients, Reannounce(c) \/ PublishEdit(c) \/ Resyncs(c) \/ Deliver(c) PROVE Handshakes'
  <2>1. UNCHANGED <<up, conn, host>> /\ \A d \in Clients : Key(d)' = Key(d)
    BY <1>4, Sends DEF Key
  <2>2. /\ \A d \in Clients : d # c => handshaken'[d] = handshaken[d] /\ known'[d] = known[d]
        /\ handshaken[c] => handshaken'[c]
        /\ known[c].keys \subseteq known'[c].keys
        /\ up[c] /\ handshaken'[c] /\ ~handshaken[c] => Key(c) \in known'[c].keys
    <3>1. CASE Reannounce(c) \/ PublishEdit(c)
      BY <3>1 DEF Reannounce, PublishEdit, session, asks
    <3>2. CASE Resyncs(c)
      BY <1>2, <3>2 DEF Resyncs, Asked, CanPublish, session
    <3>3. CASE Deliver(c)
      <4>1. known' = [known EXCEPT ![c] = Holds(known[c], Head(inbox[c]))]
        BY <3>3, Reads DEF Inv
      <4>2. known'[c] = Holds(known[c], Head(inbox[c])) /\ \A d \in Clients : d # c => known'[d] = known[d]
        BY <4>1 DEF Inv, ReplicasTypeOK
      <4>3. known[c].keys \subseteq known'[c].keys
        BY <3>3, <4>2, Reads DEF Inv
      <4>4. CASE IsState(Head(inbox[c]))
        <5>1. /\ UNCHANGED handshaken \/ handshaken' = [handshaken EXCEPT ![c] = TRUE]
              /\ UNCHANGED handshaken \/ Key(c) \in Head(inbox[c]).keys
          BY <3>3, <4>4, Reads DEF ApplyState, Asked, Inv
        <5> QED BY <1>2, <4>2, <4>3, <4>4, <5>1 DEF Holds
      <4>5. CASE ~IsState(Head(inbox[c]))
        <5>1. UNCHANGED handshaken
          BY <3>3, <4>5 DEF Deliver, IsState, ApplyStep1, ApplyUpdate, asks
        <5> QED BY <4>2, <4>3, <5>1
      <4> QED BY <4>4, <4>5
    <3> QED BY <1>4, <3>1, <3>2, <3>3
  <2>3. ASSUME NEW d \in Clients, ~handshaken'[d]
        PROVE  \A b \in Clients :
                  /\ Key(d) \notin answered'[b]
                  /\ \A f \in ToSet(out'[b]) \cup ToSet(inbox'[b]) : f.what = "step1" => f.from # Key(d)
    <3>1. ~handshaken[d]
      BY <2>2, <2>3
    <3>2. ASSUME NEW b \in Clients PROVE Key(d) \notin answered'[b]
      <4>1. CASE answered'[b] \subseteq answered[b]
        BY <1>1, <3>1, <4>1
      <4>2. CASE Deliver(c) /\ Head(inbox[c]).what = "step1" /\ Arms(c, Head(inbox[c]).from)
        <5>1. Head(inbox[c]) \in ToSet(inbox[c])
          BY <4>2, Reads, Seqs DEF Inv
        <5>2. Head(inbox[c]).from # Key(d)
          BY <1>1, <3>1, <4>2, <5>1
        <5>3. answered'[b] \subseteq answered[b] \cup {Head(inbox[c]).from}
          BY <1>2, <4>2 DEF Arms
        <5> QED BY <1>1, <3>1, <5>2, <5>3
      <4>3. CASE UNCHANGED answered
        BY <4>1, <4>3
      <4>4. CASE Deliver(c)
        <5>1. CASE IsState(Head(inbox[c]))
          <6>1. UNCHANGED answered
            BY <4>4, <5>1, Reads DEF ApplyState, Inv
          <6> QED BY <4>3, <6>1
        <5>2. CASE ~IsState(Head(inbox[c]))
          <6>1. \/ Head(inbox[c]).what = "step1" /\ Arms(c, Head(inbox[c]).from)
                \/ UNCHANGED answered
            BY <4>4, <5>2 DEF Deliver, IsState, ApplyStep1, ApplyUpdate, asks
          <6> QED BY <4>2, <4>3, <4>4, <6>1
        <5> QED BY <5>1, <5>2
      <4> QED BY <1>4, <4>3, <4>4 DEF Reannounce, PublishEdit, Resyncs, Asked, asks
    <3>3. ASSUME NEW b \in Clients, NEW f \in ToSet(out'[b]) \cup ToSet(inbox'[b]), f.what = "step1"
          PROVE  f.from # Key(d)
      <4>1. CASE f \in ToSet(out[b]) \cup ToSet(inbox[b])
        BY <1>1, <3>1, <3>3, <4>1
      <4>2. CASE b = c /\ Fresh(c, f)
        <5>1. f.from = Key(c) /\ handshaken'[c]
          BY <3>3, <4>2 DEF Fresh
        <5>2. Key(d) # Key(c)
          BY <2>3, <5>1 DEF Key
        <5> QED BY <5>1, <5>2
      <4>3. f \in ToSet(out[b]) \cup ToSet(inbox[b]) \/ (b = c /\ Fresh(c, f))
        BY <1>4, <3>3, Sends, Receives DEF Inv
      <4> QED BY <4>1, <4>2, <4>3
    <3> QED BY <3>2, <3>3
  <2>4. ASSUME NEW d \in Clients, up[d], handshaken'[d] PROVE Key(d) \in known'[d].keys
    BY <1>1, <2>2, <2>4
  <2> QED BY <2>1, <2>3, <2>4 DEF Handshakes
<1>5. ASSUME NEW c \in Clients, DrainOutbound(c) PROVE Handshakes'
  <2>1. ASSUME NEW d \in Clients
        PROVE  /\ ToSet(out'[d]) \subseteq ToSet(out[d])
               /\ ToSet(inbox'[d]) \subseteq ToSet(inbox[d]) \cup ToSet(out[c])
    BY <1>5, Drains DEF Inv
  <2>2. UNCHANGED <<session, asks>>
    BY <1>5, Drains DEF Inv
  <2> QED BY <1>3, <2>1, <2>2 DEF session, asks
<1>6. ASSUME NEW c \in Clients, Drop(c) PROVE Handshakes'
  <2>1. ASSUME NEW d \in Clients
        PROVE  /\ ToSet(out'[d]) \subseteq ToSet(out[d]) /\ ToSet(inbox'[d]) \subseteq ToSet(inbox[d])
               /\ up'[d] => up[d]
    BY <1>6, Drops DEF Inv
  <2>2. UNCHANGED <<conn, known, asks>>
    BY <1>6, Drops DEF Inv
  <2> QED BY <1>3, <2>1, <2>2 DEF asks
<1>7. CASE HostPublishes
  <2>1. UNCHANGED <<session, asks, out>>
    BY <1>7, Publishes DEF Inv
  <2> QED BY <1>3, <1>7, <2>1, Publishes DEF Inv, IsState, session, asks
<1>8. ASSUME NEW c \in Clients, Reconnects(c) PROVE Handshakes'
  <2>1. UNCHANGED <<known, out, inbox>>
    BY <1>8, Reseats DEF Inv, traffic
  <2>2. Key(c)' \notin host.keys
    <3>1. \A k \in host.keys : k[1] = c => k[2] <= conn[c]
      BY DEF Inv, Keyed
    <3>2. Key(c)' = <<c, conn[c] + 1>> /\ conn[c] \in Nat
      BY <1>8, Reseats DEF Inv, ReplicasTypeOK
    <3> QED BY <3>1, <3>2
  <2>3. ASSUME NEW d \in Clients
        PROVE  /\ answered'[d] \subseteq answered[d] /\ answered[d] \subseteq host.keys
               /\ \A f \in ToSet(out[d]) \cup ToSet(inbox[d]) : f.what = "step1" => f.from \in host.keys
    <3>1. answered'[d] \subseteq answered[d]
      BY <1>8, Reseats DEF Inv
    <3> QED BY <3>1 DEF Inv, Keyed, IsState
  <2>4. ASSUME NEW d \in Clients
        PROVE  /\ up'[d] /\ handshaken'[d] => Key(d)' \in known'[d].keys
               /\ ~handshaken'[d] => \A b \in Clients :
                     /\ Key(d)' \notin answered'[b]
                     /\ \A f \in ToSet(out'[b]) \cup ToSet(inbox'[b]) : f.what = "step1" => f.from # Key(d)'
    <3>1. CASE d = c
      BY <1>8, <2>1, <2>2, <2>3, <3>1, Reseats DEF Inv
    <3>2. CASE d # c
      <4>1. up'[d] = up[d] /\ handshaken'[d] = handshaken[d] /\ Key(d)' = Key(d)
        BY <1>8, <3>2, Reseats DEF Inv
      <4> QED BY <1>1, <2>1, <2>3, <4>1
    <3> QED BY <3>1, <3>2
  <2> QED BY <2>4 DEF Handshakes
<1>9. CASE UNCHANGED syncVars
  BY <1>3, <1>9 DEF syncVars, session, asks, traffic
<1> QED BY <1>4, <1>5, <1>6, <1>7, <1>8, <1>9 DEF SyncNext

-----------------------------------------------------------------------------
(* What is owed.                                                           *)

\* A debt stays while what it rests on does.
LEMMA Kept ==
    ASSUME NEW c \in Clients, NEW d \in Clients, NEW e, Debt(c, d, e),
           up'[c] = up[c], up'[d] = up[d], Key(c)' = Key(c), Owes(d) => Owes(d)',
           ~handshaken[c] => ~handshaken'[c] \/ \E f \in ToSet(out'[c]) : Asks(f, c),
           Key(c) \in answered'[d] => Key(c) \in answered[d],
           \A f \in ToSet(out[d]) \cup ToSet(inbox[c]) :
              Lacks(f, e) => f \in ToSet(out'[d]) \cup ToSet(inbox'[c]),
           \A f \in ToSet(out[c]) \cup ToSet(inbox[d]) :
              Brings(f, e) \/ (Asks(f, c) /\ Key(c) \notin answered[d]) =>
                 f \in ToSet(out'[c]) \cup ToSet(inbox'[d])
    PROVE  Debt(c, d, e)'
<1>1. \A f : Asks(f, c)' <=> Asks(f, c)
  BY DEF Asks
<1>2. CASE ~up[d] \/ Owes(d) \/ ~up[c]
  BY <1>2 DEF Debt
<1>3. CASE \E f \in ToSet(out[d]) \cup ToSet(inbox[c]) : Lacks(f, e)
  BY <1>3 DEF Debt
<1>4. CASE \E f \in ToSet(out[c]) \cup ToSet(inbox[d]) : Brings(f, e)
  BY <1>4 DEF Debt
<1>5. CASE /\ Key(c) \notin answered[d]
           /\ ~handshaken[c] \/ \E f \in ToSet(out[c]) \cup ToSet(inbox[d]) : Asks(f, c)
  BY <1>1, <1>5 DEF Debt
<1> HIDE DEF Debt
<1> QED BY <1>2, <1>3, <1>4, <1>5 DEF Debt

\* A client that may not publish is down, or has yet to make its handshake and nobody has
\* answered it.
LEMMA Silent ==
    ASSUME Inv, NEW c \in Clients, ~CanPublish(c)
    PROVE  ~up[c] \/ (~handshaken[c] /\ \A d \in Clients : Key(c) \notin answered[d])
BY DEF Inv, Handshakes, CanPublish, ReplicasTypeOK

\* One that asks for what it lacks lacks all the edits it does not have.
LEMMA Missing ==
    ASSUME Inv, NEW d \in Clients, NEW e \in Numbered, e \notin docs[d]
    PROVE  Lacks(Step1(d, docs[d]), e)
<1>1. docs[d] \in SUBSET Numbered
  BY DEF Inv, ReplicasTypeOK
<1>2. Vector(docs[d])[e[1]] < e[2]
  BY <1>1, Vectors
<1> QED BY <1>2, Says DEF Lacks, Inv

\* A client has asked: its request is queued.
LEMMA Requests ==
    ASSUME Inv, NEW x \in Clients, Resyncs(x) \/ Deliver(x)
    PROVE  /\ \A d \in Clients : d # x =>
                 /\ handshaken'[d] = handshaken[d] /\ refused'[d] = refused[d]
                 /\ pending'[d] = pending[d] /\ answered'[d] = answered[d]
           /\ \/ /\ handshaken'[x] = handshaken[x]
                 /\ Owes(x) => Owes(x)'
              \/ Step1(x, docs[x]) \in ToSet(out'[x])
<1>1. /\ handshaken \in [Clients -> BOOLEAN] /\ refused \in [Clients -> BOOLEAN]
      /\ answered \in [Clients -> SUBSET Numbered] /\ pending \in [Clients -> SUBSET Numbered]
      /\ out \in [Clients -> Seq(Said)] /\ out[x] \in Seq(Said)
  BY DEF Inv, ReplicasTypeOK
<1>2. Step1(x, docs[x]) \in Said
  BY Says DEF Inv
<1>3. CASE Resyncs(x)
  <2>1. out'[x] = Append(out[x], Step1(x, docs[x]))
    BY <1>1, <1>3 DEF Resyncs
  <2>2. Step1(x, docs[x]) \in ToSet(out'[x])
    BY <1>1, <1>2, <2>1, Seqs
  <2> QED BY <1>1, <1>3, <2>2 DEF Resyncs, Asked
<1>4. CASE Deliver(x)
  <2> DEFINE f == Head(inbox[x])
  <2>1. CASE IsState(f)
    <3>1. ApplyState(x, f)
      BY <1>4, <2>1, Reads DEF Inv
    <3> HIDE DEF f
    <3>2. CASE up[x] /\ Key(x) \in f.keys /\ ~handshaken[x]
      <4> DEFINE flush == IF heldBack[x] = {} THEN <<>> ELSE <<Update(x, heldBack[x])>>
      <4>1. Asked(x) /\ UNCHANGED answered
        BY <3>1, <3>2 DEF ApplyState
      <4>2. out'[x] = out[x] \o <<Step1(x, docs[x])>> \o flush
        BY <1>1, <3>1, <3>2 DEF ApplyState
      <4>3. flush \in Seq(Said) /\ <<Step1(x, docs[x])>> \in Seq(Said)
        BY <1>2, Says, SMTT(30) DEF Inv, ReplicasTypeOK
      <4> DEFINE r == <<Step1(x, docs[x])>>
                 q == out[x] \o r
      <4>4. Step1(x, docs[x]) \in ToSet(r)
        BY DEF ToSet
      <4>5. r \in Seq(Said) /\ out'[x] = q \o flush
        BY <4>2, <4>3
      <4> HIDE DEF flush, r
      <4>6. q \in Seq(Said) /\ ToSet(q) = ToSet(out[x]) \cup ToSet(r)
        BY <1>1, <4>5, Joined
      <4> HIDE DEF q
      <4>7. ToSet(q \o flush) = ToSet(q) \cup ToSet(flush)
        BY <4>3, <4>6, Joined
      <4> QED BY <1>1, <4>1, <4>4, <4>5, <4>6, <4>7 DEF Asked
    <3>3. CASE ~(up[x] /\ Key(x) \in f.keys /\ ~handshaken[x])
      <4>1. UNCHANGED <<handshaken, refused, pending, answered>>
        BY <3>1, <3>3 DEF ApplyState
      <4> QED BY <4>1 DEF Owes
    <3> QED BY <3>2, <3>3
  <2>2. CASE f.what # "state" /\ f.from \notin known[x].keys
    <3>1. /\ refused' = [refused EXCEPT ![x] = TRUE]
          /\ UNCHANGED <<handshaken, answered, pending>>
      BY <1>4, <2>2 DEF Deliver
    <3> QED BY <1>1, <3>1 DEF Owes
  <2>3. CASE f.what = "step1" /\ f.from \in known[x].keys
    <3>1. Arms(x, f.from) /\ UNCHANGED <<handshaken, refused>>
      BY <1>4, <2>3 DEF Deliver, ApplyStep1
    <3> HIDE DEF f
    <3>2. \A d \in Clients : d # x => pending'[d] = pending[d] /\ answered'[d] = answered[d]
      BY <1>1, <3>1 DEF Arms
    <3>3. pending[x] \subseteq pending'[x]
      BY <1>1, <3>1 DEF Arms
    <3> QED BY <3>1, <3>2, <3>3 DEF Owes
  <2>4. CASE f.what = "update" /\ f.from \in known[x].keys
    <3>1. UNCHANGED asks
      BY <1>4, <2>4 DEF Deliver, ApplyUpdate
    <3> QED BY <3>1 DEF asks, Owes
  <2> HIDE DEF f
  <2> QED BY <1>4, <2>1, <2>2, <2>3, <2>4 DEF Deliver, f, IsState
<1> QED BY <1>3, <1>4

\* The debt of an author to a client that lacks one of its edits, over the processing of a frame.
LEMMA OwedDelivered ==
    ASSUME Inv, NEW x \in Clients, Deliver(x),
           NEW c \in Clients, NEW d \in Clients, c # d, NEW e \in Numbered, e[1] = c,
           e \in docs[c], e \notin docs[d], e \notin docs'[d], Debt(c, d, e)
    PROVE  Debt(c, d, e)'
<1> DEFINE f == Head(inbox[x])
<1>1. /\ f \in Said \cup State /\ ToSet(inbox[x]) = ToSet(inbox'[x]) \cup {f}
      /\ \A b \in Clients : b # x => inbox'[b] = inbox[b]
  <2>1. inbox' = [inbox EXCEPT ![x] = Tail(@)] /\ inbox[x] \in Seq(Said \cup State) /\ inbox[x] # <<>>
    BY Reads DEF Inv
  <2>2. inbox'[x] = Tail(inbox[x]) /\ \A b \in Clients : b # x => inbox'[b] = inbox[b]
    BY <2>1 DEF Inv, ReplicasTypeOK
  <2> QED BY <2>1, <2>2, Seqs
<1>2. \A b \in Clients : up'[b] = up[b] /\ Key(b)' = Key(b) /\ ToSet(out[b]) \subseteq ToSet(out'[b])
  BY Sends DEF Key
<1>3. \A b \in Clients : b # x => /\ handshaken'[b] = handshaken[b] /\ answered'[b] = answered[b]
                                  /\ Owes(b) => Owes(b)'
  BY Requests DEF Owes
<1>4. \/ handshaken'[x] = handshaken[x] /\ (Owes(x) => Owes(x)')
      \/ Step1(x, docs[x]) \in ToSet(out'[x])
  BY Requests
<1>5. IsState(f) => ~Lacks(f, e) /\ ~Brings(f, e) /\ ~Asks(f, c) /\ UNCHANGED answered
  BY Reads DEF IsState, Lacks, Brings, Asks, ApplyState, Inv
<1>6. CASE x # c /\ x # d
  BY <1>1, <1>2, <1>3, <1>6, Kept
<1>7. CASE x = d
  <2>1. CASE Step1(d, docs[d]) \in ToSet(out'[d])
    BY <2>1, Missing DEF Debt
  <2>2. CASE handshaken'[d] = handshaken[d] /\ (Owes(d) => Owes(d)')
    <3>1. ASSUME Key(c) \in answered'[d] => Key(c) \in answered[d],
                 ~Brings(f, e), Asks(f, c) => Key(c) \in answered[d]
          PROVE  Debt(c, d, e)'
      <4> HIDE DEF f
      <4>1. \A g \in ToSet(out[d]) \cup ToSet(inbox[c]) :
               Lacks(g, e) => g \in ToSet(out'[d]) \cup ToSet(inbox'[c])
        BY <1>1, <1>2, <1>7
      <4>2. \A g \in ToSet(out[c]) \cup ToSet(inbox[d]) :
               Brings(g, e) \/ (Asks(g, c) /\ Key(c) \notin answered[d]) =>
                  g \in ToSet(out'[c]) \cup ToSet(inbox'[d])
        BY <1>1, <1>2, <1>7, <3>1
      <4>3. ~handshaken[c] => ~handshaken'[c]
        BY <1>3, <1>7
      <4> QED BY <1>2, <2>2, <3>1, <4>1, <4>2, <4>3, Kept
    <3>2. CASE IsState(f)
      BY <1>5, <3>1, <3>2
    <3>3. CASE f.what # "state" /\ f.from \notin known[d].keys
      <4>1. refused' = [refused EXCEPT ![d] = TRUE]
        BY <1>7, <3>3 DEF Deliver
      <4>2. Owes(d)'
        BY <4>1 DEF Owes, Inv, ReplicasTypeOK
      <4> QED BY <4>2 DEF Debt
    <3>4. CASE f.what = "step1" /\ f.from \in known[d].keys
      <4>1. Arms(d, f.from)
        BY <1>7, <3>4 DEF Deliver, ApplyStep1
      <4>2. ~Brings(f, e)
        BY <3>4 DEF Brings
      <4>3. CASE f.from = Key(c) /\ Key(c) \notin answered[d]
        <5>1. pending'[d] # {}
          <6>1. pending' = [pending EXCEPT ![d] = @ \cup {f.from}]
            BY <4>1, <4>3 DEF Arms
          <6> HIDE DEF f
          <6>2. pending \in [Clients -> SUBSET Numbered]
            BY DEF Inv, ReplicasTypeOK
          <6>3. f.from \in pending'[d]
            BY <6>1, <6>2
          <6> QED BY <6>3
        <5>2. Owes(d)'
          BY <5>1 DEF Owes
        <5> QED BY <5>2 DEF Debt
      <4>4. CASE ~(f.from = Key(c) /\ Key(c) \notin answered[d])
        <5>1. Key(c) \in answered'[d] => Key(c) \in answered[d]
          BY <4>1, <4>4, SMTT(30) DEF Arms, Inv, ReplicasTypeOK
        <5> QED BY <3>1, <4>2, <4>4, <5>1 DEF Asks
      <4> QED BY <4>3, <4>4
    <3>5. CASE f.what = "update" /\ f.from \in known[d].keys
      <4>1. docs'[d] = docs[d] \cup f.edits /\ UNCHANGED answered
        BY <1>7, <3>5 DEF Deliver, ApplyUpdate, asks, Inv, ReplicasTypeOK
      <4>2. ~Brings(f, e) /\ ~Asks(f, c)
        BY <3>5, <4>1 DEF Brings, Asks
      <4> QED BY <3>1, <4>1, <4>2
    <3> HIDE DEF f
    <3> QED BY <1>7, <3>2, <3>3, <3>4, <3>5 DEF Deliver, f, IsState
  <2> QED BY <1>4, <1>7, <2>1, <2>2
<1>8. CASE x = c
  <2>1. CASE ~Lacks(f, e)
    <3> HIDE DEF f
    <3>1. \A g \in ToSet(out[d]) \cup ToSet(inbox[c]) :
             Lacks(g, e) => g \in ToSet(out'[d]) \cup ToSet(inbox'[c])
      BY <1>1, <1>2, <1>8, <2>1
    <3>2. ~handshaken[c] => ~handshaken'[c] \/ \E g \in ToSet(out'[c]) : Asks(g, c)
      BY <1>4, <1>8, Says DEF Asks, Inv
    <3>3. \A g \in ToSet(out[c]) \cup ToSet(inbox[d]) : g \in ToSet(out'[c]) \cup ToSet(inbox'[d])
      BY <1>1, <1>2, <1>8
    <3> QED BY <1>2, <1>3, <1>8, <3>1, <3>2, <3>3, Kept
  <2>2. CASE Lacks(f, e)
    <3>1. f.what = "step1" /\ e[2] > f.vector[e[1]] /\ ~IsState(f)
      <4>1. f.what = "step1" /\ f.vector[e[1]] < e[2]
        BY <2>2 DEF Lacks
      <4>2. f \in Said /\ f.vector \in [Clients -> Nat] /\ ~IsState(f)
        BY <1>1, <4>1, Frames DEF IsState
      <4> QED BY <4>1, <4>2, Frames
    <3>2. CASE CanPublish(c) /\ f.from \in known[c].keys
      <4> DEFINE E == Beyond(docs[c], f.vector)
      <4>1. out'[c] = Append(out[c], Update(c, E)) /\ out[c] \in Seq(Said)
        BY <1>8, <3>1, <3>2 DEF Deliver, ApplyStep1, Inv, ReplicasTypeOK
      <4>2. e \in E /\ E \in SUBSET Numbered
        BY <3>1 DEF Beyond, Inv, ReplicasTypeOK
      <4> HIDE DEF E, f
      <4>3. Update(c, E) \in Said /\ Brings(Update(c, E), e)
        BY <4>2, Says DEF Brings, Inv
      <4>4. Update(c, E) \in ToSet(out'[c])
        BY <4>1, <4>3, Seqs
      <4> QED BY <4>3, <4>4 DEF Debt
    <3>3. CASE ~CanPublish(c) \/ f.from \notin known[c].keys
      <4>1. ~CanPublish(c)
        BY <1>8, <3>1, <3>3, Reads DEF CanPublish, Inv
      <4>2. UNCHANGED handshaken
        BY <1>8, <3>1 DEF Deliver, ApplyStep1
      <4>3. ~up[c] \/ (~handshaken[c] /\ Key(c) \notin answered[d])
        BY <4>1, Silent
      <4>4. ~up'[c] \/ (~handshaken'[c] /\ Key(c)' \notin answered'[d])
        BY <1>2, <1>3, <1>8, <4>2, <4>3
      <4> QED BY <4>4 DEF Debt
    <3> QED BY <3>2, <3>3
  <2> QED BY <2>1, <2>2
<1> QED BY <1>6, <1>7, <1>8

\* Every step keeps what is owed.
LEMMA OwedStep ==
    ASSUME Inv, [SyncNext]_syncVars
    PROVE  Owed'
<1> SUFFICES ASSUME NEW c \in Clients, NEW d \in Clients, NEW e \in docs'[c], e[1] = c, e \notin docs'[d]
             PROVE  Debt(c, d, e)'
  BY DEF Owed
<1>1. e \in Numbered /\ c # d
  BY TypeStep DEF Inv, ReplicasTypeOK
<1>2. e \notin docs[d]
  BY Grows DEF Inv
<1>3. CASE e \notin docs[c]
  <2>1. ASSUME NEW x \in Clients, PublishEdit(x) PROVE Debt(c, d, e)'
    <3> DEFINE n == <<x, Made(x) + 1>>
    <3>1. docs' = [docs EXCEPT ![x] = @ \cup {n}] /\ n \in Numbered /\ UNCHANGED <<session, asks>>
      BY <2>1, Numbers DEF PublishEdit, Inv
    <3>2. x = c /\ e = n
      <4> HIDE DEF n
      <4> QED BY <1>3, <3>1 DEF Inv, ReplicasTypeOK
    <3>3. CASE CanPublish(c)
      <4>1. out'[c] = Append(out[c], Update(c, {e})) /\ out[c] \in Seq(Said)
        BY <2>1, <3>2, <3>3 DEF PublishEdit, Inv, ReplicasTypeOK
      <4>2. Update(c, {e}) \in Said /\ Brings(Update(c, {e}), e)
        BY <1>1, Says DEF Brings, Inv
      <4>3. Update(c, {e}) \in ToSet(out'[c])
        BY <4>1, <4>2, Seqs
      <4> QED BY <4>2, <4>3 DEF Debt
    <3>4. CASE ~CanPublish(c)
      <4>1. ~up[c] \/ (~handshaken[c] /\ Key(c) \notin answered[d])
        BY <3>4, Silent
      <4> QED BY <3>1, <4>1 DEF Debt, Key, session, asks
    <3> QED BY <3>3, <3>4
  <2>2. ASSUME NEW x \in Clients, Deliver(x) PROVE FALSE
    <3> DEFINE f == Head(inbox[x])
    <3>1. f \in ToSet(inbox[x]) /\ f \in Said \cup State
      BY <2>2, Reads, Seqs DEF Inv
    <3>2. f.what = "update" => \A g \in f.edits : g \in docs[g[1]]
      BY <3>1 DEF Inv, Authored
    <3>3. UNCHANGED docs \/ (f.what = "update" /\ docs' = [docs EXCEPT ![x] = @ \cup f.edits])
      BY <2>2 DEF Deliver, ApplyState, ApplyStep1, ApplyUpdate, texts
    <3> HIDE DEF f
    <3>4. e \in f.edits /\ f.what = "update"
      <4>1. docs \in [Clients -> SUBSET Numbered] /\ docs'[c] # docs[c]
        BY <1>3 DEF Inv, ReplicasTypeOK
      <4>2. f.what = "update" /\ docs' = [docs EXCEPT ![x] = @ \cup f.edits]
        BY <3>3, <4>1
      <4> QED BY <1>3, <4>1, <4>2
    <3> QED BY <1>3, <3>2, <3>4
  <2>3. CASE UNCHANGED docs
    BY <1>3, <2>3
  <2> QED BY <2>1, <2>2, <2>3
       DEF SyncNext, HostPublishes, Reannounce, Resyncs, Drop, Reconnects, DrainOutbound, syncVars, texts
<1>4. CASE e \in docs[c]
  <2>1. Debt(c, d, e)
    BY <1>2, <1>4 DEF Inv, Owed
  \* A step that neither takes a frame away nor changes what is asked.
  <2>2. ASSUME UNCHANGED <<up, conn, asks>>,
               \A b \in Clients : ToSet(out[b]) \subseteq ToSet(out'[b]) /\ ToSet(inbox[b]) \subseteq ToSet(inbox'[b])
        PROVE  Debt(c, d, e)'
    <3>1. Key(c)' = Key(c) /\ Owes(d)' = Owes(d)
      BY <2>2 DEF Key, Owes, asks
    <3> QED BY <2>1, <2>2, <3>1, Kept DEF asks
  <2>3. ASSUME NEW x \in Clients, Reannounce(x) \/ PublishEdit(x) PROVE Debt(c, d, e)'
    <3>1. \A b \in Clients : ToSet(out[b]) \subseteq ToSet(out'[b])
      BY <2>3, Sends
    <3> QED BY <2>2, <2>3, <3>1 DEF Reannounce, PublishEdit, session
  <2>4. ASSUME NEW x \in Clients, Resyncs(x) PROVE Debt(c, d, e)'
    <3>1. \A b \in Clients : up'[b] = up[b] /\ Key(b)' = Key(b) /\ ToSet(out[b]) \subseteq ToSet(out'[b])
      BY <2>4, Sends DEF Key
    <3>2. UNCHANGED <<inbox, answered>>
      BY <2>4 DEF Resyncs
    <3>3. CASE Step1(d, docs[d]) \in ToSet(out'[d])
      BY <1>1, <1>2, <3>3, Missing DEF Debt
    <3>4. CASE Step1(d, docs[d]) \notin ToSet(out'[d])
      <4>1. Owes(d) => Owes(d)'
        BY <2>4, <3>4, Requests DEF Owes
      <4>2. ~handshaken[c] => ~handshaken'[c] \/ \E g \in ToSet(out'[c]) : Asks(g, c)
        <5>1. handshaken'[c] = handshaken[c] \/ Step1(c, docs[c]) \in ToSet(out'[c])
          BY <2>4, Requests
        <5> QED BY <5>1, Says DEF Asks, Inv
      <4>3. /\ \A g \in ToSet(out[d]) \cup ToSet(inbox[c]) : g \in ToSet(out'[d]) \cup ToSet(inbox'[c])
            /\ \A g \in ToSet(out[c]) \cup ToSet(inbox[d]) : g \in ToSet(out'[c]) \cup ToSet(inbox'[d])
        BY <3>1, <3>2
      <4> QED BY <2>1, <3>1, <3>2, <4>1, <4>2, <4>3, Kept
    <3> QED BY <3>3, <3>4
  <2>5. ASSUME NEW x \in Clients, Deliver(x) PROVE Debt(c, d, e)'
    BY <1>1, <1>2, <1>4, <2>1, <2>5, OwedDelivered
  <2>6. ASSUME NEW x \in Clients, Drop(x) PROVE Debt(c, d, e)'
    <3>1. CASE x = c \/ x = d
      BY <2>6, <3>1, Drops DEF Debt, Inv
    <3>2. CASE x # c /\ x # d
      <4>1. /\ up'[c] = up[c] /\ up'[d] = up[d] /\ out'[c] = out[c] /\ out'[d] = out[d]
            /\ inbox'[c] = inbox[c] /\ inbox'[d] = inbox[d] /\ UNCHANGED <<conn, asks>>
        BY <2>6, <3>2, Drops DEF Inv
      <4>2. Key(c)' = Key(c) /\ Owes(d)' = Owes(d)
        BY <4>1 DEF Key, Owes, asks
      <4> QED BY <2>1, <4>1, <4>2, Kept DEF asks
    <3> QED BY <3>1, <3>2
  <2>7. ASSUME NEW x \in Clients, Reconnects(x) PROVE Debt(c, d, e)'
    <3>1. CASE x = d
      <4>1. Owes(d)'
        BY <2>7, <3>1, Reseats DEF Owes, Inv
      <4> QED BY <4>1 DEF Debt
    <3>2. CASE x = c
      <4>1. Key(c)' \notin host.keys
        <5>1. \A k \in host.keys : k[1] = c => k[2] <= conn[c]
          BY DEF Inv, Keyed
        <5>2. Key(c)' = <<c, conn[c] + 1>> /\ conn[c] \in Nat
          BY <2>7, <3>2, Reseats DEF Inv, ReplicasTypeOK
        <5> QED BY <5>1, <5>2
      <4>2. answered'[d] \subseteq host.keys /\ ~handshaken'[c]
        BY <1>1, <2>7, <3>2, Reseats DEF Inv, Keyed
      <4> QED BY <4>1, <4>2 DEF Debt
    <3>3. CASE x # c /\ x # d
      <4>1. /\ up'[c] = up[c] /\ up'[d] = up[d] /\ UNCHANGED traffic /\ Key(c)' = Key(c)
            /\ handshaken'[c] = handshaken[c] /\ answered'[d] = answered[d]
            /\ handshaken'[d] = handshaken[d] /\ refused'[d] = refused[d] /\ pending'[d] = pending[d]
        BY <2>7, <3>3, Reseats DEF Inv
      <4>2. Owes(d)' = Owes(d)
        BY <4>1 DEF Owes
      <4> QED BY <2>1, <4>1, <4>2, Kept DEF traffic
    <3> QED BY <3>1, <3>2, <3>3
  <2>8. ASSUME NEW x \in Clients, DrainOutbound(x) PROVE Debt(c, d, e)'
    <3> DEFINE f == Head(out[x])
    <3>1. /\ up[x] /\ UNCHANGED <<up, conn, asks>> /\ ToSet(out[x]) = ToSet(out'[x]) \cup {f}
          /\ \A b \in Clients : b # x => out'[b] = out[b]
          /\ \A b \in Clients : ToSet(inbox[b]) \subseteq ToSet(inbox'[b])
          /\ f.what = "step1" \/ f.what = "update" =>
                \A b \in Clients : b # x /\ up[b] => f \in ToSet(inbox'[b])
      <4>1. /\ up[x] /\ UNCHANGED <<session, asks>> /\ ToSet(out[x]) = ToSet(out'[x]) \cup {f}
            /\ \A b \in Clients : b # x => out'[b] = out[b]
        BY <2>8, Drains DEF Inv
      <4>2. CASE f.what = "announcement"
        BY <2>8, <4>1, <4>2, Drains DEF Inv, session
      <4>3. CASE f.what # "announcement"
        <5>1. \A b \in Clients : ToSet(inbox'[b]) = IF up[b] /\ b # x THEN ToSet(inbox[b]) \cup {f} ELSE ToSet(inbox[b])
          BY <2>8, <4>3, Drains DEF Inv
        <5> HIDE DEF f
        <5> QED BY <4>1, <5>1 DEF session
      <4> QED BY <4>2, <4>3
    <3> HIDE DEF f
    <3>2. Key(c)' = Key(c) /\ Owes(d)' = Owes(d)
      BY <3>1 DEF Key, Owes, asks
    <3>3. CASE ~up[c] \/ ~up[d]
      BY <3>1, <3>3 DEF Debt
    <3>4. CASE up[c] /\ up[d]
      <4>1. \A g \in ToSet(out[d]) \cup ToSet(inbox[c]) :
               Lacks(g, e) => g \in ToSet(out'[d]) \cup ToSet(inbox'[c])
        BY <1>1, <3>1, <3>4 DEF Lacks
      <4>2. \A g \in ToSet(out[c]) \cup ToSet(inbox[d]) :
               Brings(g, e) \/ (Asks(g, c) /\ Key(c) \notin answered[d]) =>
                  g \in ToSet(out'[c]) \cup ToSet(inbox'[d])
        BY <1>1, <3>1, <3>4 DEF Brings, Asks
      <4> QED BY <2>1, <3>1, <3>2, <4>1, <4>2, Kept DEF asks
    <3> QED BY <3>3, <3>4
  <2>9. CASE HostPublishes
    BY <2>2, <2>9, Publishes DEF Inv, session
  <2>10. CASE UNCHANGED syncVars
    BY <2>2, <2>10 DEF syncVars, session, traffic
  <2> QED BY <2>3, <2>4, <2>5, <2>6, <2>7, <2>8, <2>9, <2>10 DEF SyncNext
<1> QED BY <1>3, <1>4

-----------------------------------------------------------------------------
(* The theorems.                                                           *)

\* The invariant holds at the start,
LEMMA InvInit ==
    ASSUME SyncInit
    PROVE  Inv
<1>1. /\ \A c \in Clients : Key(c) = <<c, 1>> /\ Key(c) \in Numbered
      /\ Clients \X {1} \subseteq Numbered /\ {} \in SUBSET Numbered
  BY DEF SyncInit, Key, Numbered
<1>2. \A c \in Clients : ToSet(out[c]) = {} /\ ToSet(inbox[c]) = {} /\ Len(inbox[c]) = 0
  BY DEF SyncInit, ToSet
<1>3. ReplicasTypeOK
  BY <1>1 DEF SyncInit, ReplicasTypeOK
<1>4. InOrder
  BY <1>1, <1>2 DEF SyncInit, InOrder, Rising, Introduced, Told
<1>5. Keyed
  BY <1>1, <1>2 DEF SyncInit, Keyed
<1>6. Authored
  BY <1>2, FS_EmptySet DEF SyncInit, Authored
<1>7. Handshakes
  BY <1>1 DEF SyncInit, Handshakes
<1>8. Owed
  BY DEF SyncInit, Owed
<1> QED BY <1>3, <1>4, <1>5, <1>6, <1>7, <1>8 DEF Inv

\* every step keeps it,
LEMMA InvStep ==
    ASSUME Inv, [SyncNext]_syncVars
    PROVE  Inv'
<1>1. ReplicasTypeOK'
  BY TypeStep DEF Inv
<1> QED BY <1>1, InOrderStep, KeyedStep, AuthoredStep, HandshakesStep, OwedStep DEF Inv

\* so it holds on every path.
LEMMA Invariant == SyncSpec => []Inv
<1> QED BY InvInit, InvStep, PTL DEF SyncSpec

\* Every variable keeps its type on every path.
THEOREM SyncTypeOK == SyncSpec => []ReplicasTypeOK
<1>1. Inv => ReplicasTypeOK
  BY DEF Inv
<1> QED BY <1>1, Invariant, PTL

\* When every client is seated, committed and owes no request, and nothing is on its way, every
\* replica has the same edits.
THEOREM SyncQuietReplicasAgree == SyncSpec => []QuietReplicasAgree
<1>1. ASSUME Inv, Quiet, NEW c \in Clients, NEW d \in Clients, NEW e \in docs[c] PROVE e \in docs[d]
  <2>1. e \in Numbered /\ e[1] \in Clients /\ e \in docs[e[1]]
    BY <1>1, Frames DEF Inv, Authored, ReplicasTypeOK
  <2>2. \A b \in Clients : /\ up[b] /\ ~Owes(b) /\ handshaken[b]
                           /\ ToSet(out[b]) = {} /\ ToSet(inbox[b]) = {}
    BY <1>1 DEF Quiet, CanPublish, Owes, ToSet
  <2>3. ~Debt(e[1], d, e)
    BY <2>1, <2>2 DEF Debt
  <2> QED BY <1>1, <2>1, <2>3 DEF Inv, Owed
<1>2. Inv => QuietReplicasAgree
  BY <1>1 DEF QuietReplicasAgree
<1> QED BY <1>2, Invariant, PTL
=============================================================================
