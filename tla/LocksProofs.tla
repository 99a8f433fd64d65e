---------------------------- MODULE LocksProofs ----------------------------
(***************************************************************************)
(* Proofs about the locks of payment validation, for any requests,         *)
(* duplicates and times, in both job stores.                               *)
(***************************************************************************)
EXTENDS PaymentLocks, SequenceTheorems, TLAPS

Op1 == [do : Dos, key : Keys]

\* The order of the lock operations of a request that is not admitted yet:
\* each one is followed by what try_start_* or the clean-up does next.
InOrder(s, r) ==
    \A i \in 1 .. Len(s) :
        /\ s[i].do = "acquire" => i = Len(s) /\ s[i].key = Op(r)
        /\ s[i] = Do("held", "finalize") => i < Len(s) /\ s[i + 1].do = "acquire"
        /\ s[i] = Do("held", "generate") =>
              i < Len(s) /\ s[i + 1] = Do("held", "finalize")
        /\ s[i].do = "purge" =>
              /\ i < Len(s)
              /\ s[i + 1].do # "acquire"
              /\ s[i + 1] # Do("held", "finalize")
        /\ s[i].do \in {"clean", "release"} =>
              i < Len(s) /\ s[i + 1].do \notin {"acquire", "held"}
        /\ s[i].do = "flag" =>
              i = Len(s) \/ s[i + 1].do \notin {"acquire", "held"}
        /\ i < Len(s) => s[i + 1].do \notin {"flag", "release"}

\* What an actor still has to do fits the place where its handler is.
Fits(a, s, label) ==
    IF a \in Requests
    THEN /\ label = "locking" => s # <<>> /\ InOrder(s, a)
         /\ label = "leaving" => s = <<Do("release", Op(a))>>
         /\ label \notin {"locking", "leaving"} => s = <<>>
    ELSE /\ label \notin {"admitted", "running"}
         /\ \A i \in 1 .. Len(s) :
               s[i].do = "clean" \/ (i = 1 /\ s[i].do = "release")

\* The call an actor is at is one of its operation's.
CallFits(s, call) ==
    s # <<>> =>
        /\ call \in {"put", "reread"} => Head(s).do = "acquire"
        /\ call = "again" => Head(s).do = "clean"
        /\ call = "delete" => Head(s).do # "acquire"

Scripted ==
    \A a \in Actors : Fits(a, todo[a], pc[a]) /\ CallFits(todo[a], at[a])

LocalType ==
    /\ todo \in [Actors -> Seq(Op1)]
    /\ at \in [Actors -> Calls]
    /\ pc \in [Actors -> Labels]

LocalInv == LocalType /\ Scripted

ScriptInv == TypeOK /\ Scripted

-----------------------------------------------------------------------------
\* A lock that would refuse a request.
Fresh(k) == lock[k].there /\ ~ShouldRelinquish(lock[k])

\* The request has put its lock and has not released it.
Owes(r) ==
    \/ pc[r] = "locking" /\ at[r] = "reread"
    \/ pc[r] \in {"admitted", "raised", "queued", "running", "leaving"}

FreshIsOwed ==
    \A k \in Keys : Fresh(k) => \E r \in Requests : Op(r) = k /\ Owes(r)

\* What an earlier process left behind has expired or is of an older policy.
StaleLeftovers == \A l \in InitialLocks : l.there => ShouldRelinquish(l)

-----------------------------------------------------------------------------
\* A fresh lock was put by someone who is recorded, and whoever is refused, or
\* about to be, met one that is not its own.
GotBy ==
    /\ \A k \in Keys : Fresh(k) => got # {}
    /\ \A r \in Requests :
          /\ pc[r] \in {"idle", "locking", "refused"} /\ ~Owes(r) => r \notin got
          /\ pc[r] = "locking" /\ Current(r).do = "flag" => got # {}
          /\ pc[r] = "refused" => got # {}

-----------------------------------------------------------------------------
\* In memory one actor at a time is inside a call.
Alone ==
    \A a, b \in Actors : Inside(a) /\ Inside(b) => a = b

\* The lock of an admitted request is there and has not expired.
CoveredBy(r) ==
    /\ Active(r) => lock[Op(r)].there /\ lock[Op(r)].granted = Ttl /\ lock[Op(r)].left > 0
    /\ pc[r] = "admitted" => lock[Op(r)].left = Ttl

\* What the operations an actor has passed have found out, and nobody could
\* change since: there is no lock to acquire against, a lock that is cleaned up
\* is stale, and a lock is released only when nobody is active.
FoundBy(a) ==
    LET o == Current(a) IN
    /\ o = Do("held", "finalize") => ~lock["generate"].there
    /\ o.do = "acquire" /\ at[a] # "reread" => \A k \in Keys : ~lock[k].there
    /\ o.do = "acquire" /\ at[a] = "reread" =>
          lock[Op(a)] = Granted(Ttl) /\ \A r \in Requests : ~Active(r)
    /\ at[a] \in {"again", "delete"} /\ o.do # "release" =>
          ShouldRelinquish(lock[o.key])
    /\ at[a] = "again" => lock[o.key].there
    /\ o.do = "release" => \A r \in Requests : ~Active(r)

MemoryInv ==
    /\ Alone
    /\ \A r \in Requests : CoveredBy(r)
    /\ \A a \in Actors : todo[a] # <<>> => FoundBy(a)
    /\ \A r, s \in Requests : Active(r) /\ Active(s) => r = s

ExclusionInv == backend = "memory" /\ ~overdue => MemoryInv

-----------------------------------------------------------------------------
(***************************************************************************)
(* Lemmas about the sequences of lock operations.                          *)
(***************************************************************************)

(* An operation is one of the record set, whatever the key's request.      *)
LEMMA OpTypes ==
    /\ \A r : Op(r) \in Keys /\ Other(Op(r)) \in Keys
    /\ \A d \in Dos, k \in Keys : Do(d, k) \in Op1 /\ Do(d, k).do = d /\ Do(d, k).key = k
    /\ \A d \in Dos : /\ Both(d) \in Seq(Op1) /\ Len(Both(d)) = 2
                      /\ Both(d)[1] = Do(d, "generate") /\ Both(d)[2] = Do(d, "finalize")
    BY DEF Op, Other, Keys, Do, Dos, Op1, Both

(* The elements of a concatenation.                                        *)
LEMMA ConcatAt ==
    ASSUME NEW s \in Seq(Op1), NEW t \in Seq(Op1)
    PROVE  /\ s \o t \in Seq(Op1) /\ Len(s \o t) = Len(s) + Len(t)
           /\ \A i \in 1 .. Len(s) : (s \o t)[i] = s[i]
           /\ \A i \in 1 .. Len(t) : (s \o t)[Len(s) + i] = t[i]
    OBVIOUS

(* What is left after the first operation is in order too.                 *)
LEMMA TailInOrder ==
    ASSUME NEW r, NEW s \in Seq(Op1), InOrder(s, r), Len(s) > 1
    PROVE  InOrder(Tail(s), r) /\ Tail(s) # <<>>
  <1> DEFINE t == Tail(s)
  <1>1. /\ t \in Seq(Op1) /\ Len(t) = Len(s) - 1
        /\ \A i \in 1 .. Len(t) : t[i] = s[i + 1]
    OBVIOUS
  <1>2. t # <<>>
    <2>1. Len(<<>>) = 0
      OBVIOUS
    <2> HIDE DEF t
    <2> QED
      BY <1>1, <2>1
  <1>3. InOrder(t, r)
    <2> SUFFICES ASSUME NEW i \in 1 .. Len(t)
                 PROVE  /\ t[i].do = "acquire" => i = Len(t) /\ t[i].key = Op(r)
                        /\ t[i] = Do("held", "finalize") => i < Len(t) /\ t[i + 1].do = "acquire"
                        /\ t[i] = Do("held", "generate") =>
                              i < Len(t) /\ t[i + 1] = Do("held", "finalize")
                        /\ t[i].do = "purge" =>
                              /\ i < Len(t)
                              /\ t[i + 1].do # "acquire"
                              /\ t[i + 1] # Do("held", "finalize")
                        /\ t[i].do \in {"clean", "release"} =>
                              i < Len(t) /\ t[i + 1].do \notin {"acquire", "held"}
                        /\ t[i].do = "flag" =>
                              i = Len(t) \/ t[i + 1].do \notin {"acquire", "held"}
                        /\ i < Len(t) => t[i + 1].do \notin {"flag", "release"}
      BY DEF InOrder
    <2> HIDE DEF t
    <2>1. i + 1 \in 1 .. Len(s) /\ t[i] = s[i + 1]
      BY <1>1
    <2>2. i < Len(t) => t[i + 1] = s[(i + 1) + 1]
      BY <1>1
    <2>3. (i + 1 = Len(s) <=> i = Len(t)) /\ (i + 1 < Len(s) <=> i < Len(t))
      BY <1>1
    <2> QED
      BY <2>1, <2>2, <2>3 DEF InOrder
  <1> QED
    BY <1>2, <1>3

(* A clean-up, a release or a flag may stand before what is in order.      *)
LEMMA PrefixInOrder ==
    ASSUME NEW r, NEW s \in Seq(Op1), NEW t \in Seq(Op1), InOrder(t, r),
           t # <<>>, t[1].do \notin {"acquire", "held", "flag", "release"},
           \A i \in 1 .. Len(s) :
              s[i].do = "clean" \/ (i = 1 /\ s[i].do \in {"release", "flag"})
    PROVE  InOrder(s \o t, r) /\ s \o t # <<>> /\ s \o t \in Seq(Op1)
  <1> DEFINE u == s \o t
  <1>1. /\ u \in Seq(Op1) /\ Len(u) = Len(s) + Len(t)
        /\ \A i \in 1 .. Len(s) : u[i] = s[i]
        /\ \A i \in 1 .. Len(t) : u[Len(s) + i] = t[i]
        /\ Len(s) \in Nat /\ Len(t) \in Nat /\ Len(t) > 0
    OBVIOUS
  <1> HIDE DEF u
  <1>2. ASSUME NEW i \in 1 .. Len(u)
        PROVE  /\ u[i].do = "acquire" => i = Len(u) /\ u[i].key = Op(r)
               /\ u[i] = Do("held", "finalize") => i < Len(u) /\ u[i + 1].do = "acquire"
               /\ u[i] = Do("held", "generate") =>
                     i < Len(u) /\ u[i + 1] = Do("held", "finalize")
               /\ u[i].do = "purge" =>
                     /\ i < Len(u)
                     /\ u[i + 1].do # "acquire"
                     /\ u[i + 1] # Do("held", "finalize")
               /\ u[i].do \in {"clean", "release"} =>
                     i < Len(u) /\ u[i + 1].do \notin {"acquire", "held"}
               /\ u[i].do = "flag" =>
                     i = Len(u) \/ u[i + 1].do \notin {"acquire", "held"}
               /\ i < Len(u) => u[i + 1].do \notin {"flag", "release"}
    <2>1. CASE i \in 1 .. Len(s)
      <3>1. u[i].do \in {"clean", "release", "flag"} /\ i < Len(u)
        BY <1>1, <2>1
      <3>2. u[i + 1].do \notin {"acquire", "held", "flag", "release"}
        <4>1. CASE i = Len(s)
          <5>1. u[i + 1] = t[1]
            BY <1>1, <4>1
          <5> QED
            BY <5>1
        <4>2. CASE i < Len(s)
          <5>1. i + 1 \in 1 .. Len(s) /\ u[i + 1] = s[i + 1] /\ i + 1 # 1
            BY <1>1, <4>2
          <5> QED
            BY <5>1
        <4> QED
          BY <2>1, <4>1, <4>2
      <3>3. \A k \in Keys : Do("held", k).do = "held"
        BY DEF Do
      <3> QED
        BY <3>1, <3>2, <3>3 DEF Keys
    <2>2. CASE i > Len(s)
      <3> DEFINE j == i - Len(s)
      <3>1. j \in 1 .. Len(t) /\ u[i] = t[j]
        <4>1. j \in 1 .. Len(t) /\ Len(s) + j = i
          BY <1>1, <2>2
        <4> QED
          BY <1>1, <4>1
      <3>2. j < Len(t) => u[i + 1] = t[j + 1]
        <4>1. ASSUME j < Len(t)
              PROVE  j + 1 \in 1 .. Len(t) /\ Len(s) + (j + 1) = i + 1
          BY <1>1, <2>2, <4>1, <3>1
        <4> QED
          BY <1>1, <4>1
      <3>3. (j = Len(t) <=> i = Len(u)) /\ (j < Len(t) <=> i < Len(u))
        BY <1>1
      <3> HIDE DEF j
      <3> QED
        BY <3>1, <3>2, <3>3 DEF InOrder
    <2> QED
      BY <2>1, <2>2
  <1>3. u # <<>>
    BY <1>1
  <1>4. InOrder(u, r)
    BY <1>2 DEF InOrder
  <1> QED
    BY <1>1, <1>3, <1>4 DEF u

(* try_start_* is in order, starts with a purge and sets no flag.          *)
LEMMA TryStartInOrder ==
    ASSUME NEW r
    PROVE  LET s == TryStart(r) IN
           /\ s \in Seq(Op1) /\ Len(s) = 5 /\ InOrder(s, r)
           /\ s[1] = Do("purge", "generate")
           /\ \A i \in 1 .. Len(s) : s[i].do # "flag"
  <1> DEFINE s == TryStart(r)
  <1>1. /\ s \in Seq(Op1) /\ Len(s) = 5
        /\ s[1] = Do("purge", "generate") /\ s[2] = Do("purge", "finalize")
        /\ s[3] = Do("held", "generate") /\ s[4] = Do("held", "finalize")
        /\ s[5] = Do("acquire", Op(r))
    <2>1. <<Do("acquire", Op(r))>> \in Seq(Op1)
      BY OpTypes DEF Dos
    <2> DEFINE p == Both("purge")
               h == Both("held")
    <2>2. /\ p \in Seq(Op1) /\ Len(p) = 2
          /\ p[1] = Do("purge", "generate") /\ p[2] = Do("purge", "finalize")
          /\ h \in Seq(Op1) /\ Len(h) = 2
          /\ h[1] = Do("held", "generate") /\ h[2] = Do("held", "finalize")
      BY OpTypes DEF Dos
    <2> HIDE DEF p, h
    <2>3. s = p \o h \o <<Do("acquire", Op(r))>>
      BY DEF TryStart, p, h
    <2> DEFINE q == <<Do("acquire", Op(r))>>
    <2>4. Len(q) = 1 /\ q[1] = Do("acquire", Op(r))
      OBVIOUS
    <2>5. q \in Seq(Op1)
      BY <2>1
    <2> HIDE DEF q
    <2> DEFINE u == p \o h
    <2>6. /\ u \in Seq(Op1) /\ Len(u) = 4
          /\ u[1] = p[1] /\ u[2] = p[2] /\ u[3] = h[1] /\ u[4] = h[2]
      <3>1. /\ 1 \in 1 .. Len(p) /\ 2 \in 1 .. Len(p) /\ 1 \in 1 .. Len(h)
            /\ 2 \in 1 .. Len(h) /\ Len(p) + 1 = 3 /\ Len(p) + 2 = 4
        BY <2>2
      <3>2. /\ u \in Seq(Op1) /\ Len(u) = Len(p) + Len(h)
            /\ u[1] = p[1] /\ u[2] = p[2]
            /\ u[Len(p) + 1] = h[1] /\ u[Len(p) + 2] = h[2]
        BY <2>2, <3>1, ConcatAt
      <3> HIDE DEF u
      <3> QED
        BY <2>2, <3>1, <3>2
    <2>7. s = u \o q
      BY <2>3 DEF q
    <2> HIDE DEF u
    <2>8. /\ s \in Seq(Op1) /\ Len(s) = 5
          /\ s[1] = u[1] /\ s[2] = u[2] /\ s[3] = u[3] /\ s[4] = u[4] /\ s[5] = q[1]
      <3> HIDE DEF s
      <3>1. \A i \in 1 .. 4 : i \in 1 .. Len(u)
        BY <2>6
      <3>2. 1 \in 1 .. Len(q) /\ Len(u) + 1 = 5
        BY <2>4, <2>6
      <3>3. /\ s \in Seq(Op1) /\ Len(s) = Len(u) + Len(q)
            /\ \A i \in 1 .. Len(u) : s[i] = u[i]
            /\ s[Len(u) + 1] = q[1]
        BY <2>5, <2>6, <2>7, <3>2, ConcatAt
      <3> QED
        BY <2>4, <2>6, <3>1, <3>2, <3>3
    <2> QED
      BY <2>2, <2>4, <2>6, <2>8
  <1> HIDE DEF s
  <1>2. \A i \in 1 .. Len(s) : i = 1 \/ i = 2 \/ i = 3 \/ i = 4 \/ i = 5
    BY <1>1
  <1>3. InOrder(s, r)
    BY <1>1, <1>2 DEF InOrder, Do
  <1>4. \A i \in 1 .. Len(s) : s[i].do # "flag"
    BY <1>1, <1>2 DEF Do
  <1> QED
    BY <1>1, <1>3, <1>4 DEF s

-----------------------------------------------------------------------------
(***************************************************************************)
(* What an actor's step leaves it to do fits where its handler is then.    *)
(***************************************************************************)

(* The first operation of a sequence that is not empty.                    *)
LEMMA HeadIsFirst ==
    ASSUME LocalType, NEW a \in Actors, todo[a] # <<>>
    PROVE  /\ todo[a] \in Seq(Op1) /\ Len(todo[a]) \in Nat /\ Len(todo[a]) > 0
           /\ 1 \in 1 .. Len(todo[a])
           /\ Current(a) = todo[a][1] /\ Current(a) \in Op1
           /\ Tail(todo[a]) \in Seq(Op1)
           /\ Len(Tail(todo[a])) = Len(todo[a]) - 1
           /\ \A i \in 1 .. Len(Tail(todo[a])) : Tail(todo[a])[i] = todo[a][i + 1]
  <1>1. todo[a] \in Seq(Op1)
    BY DEF LocalType
  <1> DEFINE s == todo[a]
  <1> HIDE DEF s
  <1>2. s \in Seq(Op1) /\ s # <<>>
    BY <1>1 DEF s
  <1>3. /\ Len(s) \in Nat /\ Len(s) > 0 /\ 1 \in 1 .. Len(s) /\ Head(s) = s[1] /\ s[1] \in Op1
    BY <1>2
  <1>4. /\ Tail(s) \in Seq(Op1) /\ Len(Tail(s)) = Len(s) - 1
        /\ \A i \in 1 .. Len(Tail(s)) : Tail(s)[i] = s[i + 1]
    BY <1>2
  <1> QED
    BY <1>2, <1>3, <1>4 DEF s, Current

(* Only a handler that is at its locks has something to do to them.        *)
LEMMA BusyPlaces ==
    ASSUME LocalInv, NEW r \in Requests, todo[r] # <<>>
    PROVE  /\ r \in Actors
           /\ \/ pc[r] = "locking" /\ InOrder(todo[r], r)
              \/ pc[r] = "leaving" /\ todo[r] = <<Do("release", Op(r))>>
  BY DEF LocalInv, Scripted, Fits, Actors

(* One actor's own variables change, the others' do not.                   *)
LEMMA OneActor ==
    ASSUME LocalInv, NEW a \in Actors, NEW s \in Seq(Op1), NEW call \in Calls,
           NEW label \in Labels,
           todo' = [todo EXCEPT ![a] = s], at' = [at EXCEPT ![a] = call],
           pc' = [pc EXCEPT ![a] = label],
           Fits(a, s, label), CallFits(s, call)
    PROVE  LocalInv'
  <1>1. LocalType'
    BY DEF LocalInv, LocalType
  <1>2. /\ \A b \in Actors : b # a => todo'[b] = todo[b] /\ at'[b] = at[b] /\ pc'[b] = pc[b]
        /\ todo'[a] = s /\ at'[a] = call /\ pc'[a] = label
    BY DEF LocalInv, LocalType
  <1>3. ASSUME NEW b \in Actors
        PROVE  Fits(b, todo'[b], pc'[b]) /\ CallFits(todo'[b], at'[b])
    BY <1>2 DEF LocalInv, Scripted
  <1>4. Scripted'
    BY <1>3 DEF Scripted, Fits, CallFits, InOrder, Op, Do
  <1> QED
    BY <1>1, <1>4 DEF LocalInv

(* Nothing of the actors' own changes.                                     *)
LEMMA NoActor == LocalInv /\ UNCHANGED <<local, pc>> => LocalInv'
  BY DEF LocalInv, LocalType, Scripted, Fits, CallFits, local, InOrder

(* After an operation comes the next one, or the handler goes on.          *)
LEMMA AdvanceKeeps ==
    ASSUME LocalInv, NEW a \in Actors, todo[a] # <<>>, Advance(a)
    PROVE  LocalInv'
  <1> DEFINE s == Tail(todo[a])
             label == IF Len(todo[a]) > 1 THEN pc[a]
                      ELSE CASE Current(a).do = "acquire" -> "admitted"
                             [] Current(a).do = "flag"    -> "refused"
                             [] OTHER                   -> "done"
  <1>1. LocalType
    BY DEF LocalInv
  <1>2. /\ s \in Seq(Op1) /\ "get" \in Calls
        /\ Len(todo[a]) \in Nat /\ Len(todo[a]) > 0 /\ Len(s) = Len(todo[a]) - 1
        /\ \A i \in 1 .. Len(s) : s[i] = todo[a][i + 1]
        /\ Current(a) = todo[a][1] /\ 1 \in 1 .. Len(todo[a])
    BY <1>1, HeadIsFirst DEF Calls
  <1>3. todo' = [todo EXCEPT ![a] = s] /\ at' = [at EXCEPT ![a] = "get"]
        /\ pc' = [pc EXCEPT ![a] = label]
    BY DEF Advance
  <1>4. label \in Labels
    BY <1>1 DEF LocalType, Labels
  <1>5. Len(todo[a]) = 1 => s = <<>>
    <2>1. s = <<>> <=> Len(s) = 0
      BY <1>2, EmptySeq
    <2> QED
      BY <1>2, <2>1
  <1>6. CASE a \in Requests
    <2>1. ASSUME Len(todo[a]) > 1 PROVE Fits(a, s, label)
      <3> DEFINE q == <<Do("release", Op(a))>>
      <3>1. ~(Len(q) > 1)
        OBVIOUS
      <3> HIDE DEF q
      <3>2. \/ pc[a] = "locking" /\ InOrder(todo[a], a)
            \/ pc[a] = "leaving" /\ todo[a] = q
        BY <1>6, BusyPlaces DEF q
      <3>3. pc[a] = "locking" /\ InOrder(todo[a], a)
        BY <2>1, <3>1, <3>2
      <3>4. InOrder(s, a) /\ s # <<>>
        BY <1>1, <2>1, <3>3, TailInOrder DEF LocalType
      <3>5. label = "locking"
        BY <2>1, <3>3
      <3> HIDE DEF s, label
      <3> QED
        BY <1>6, <3>4, <3>5 DEF Fits
    <2>2. ASSUME Len(todo[a]) = 1 PROVE Fits(a, s, label)
      <3>1. label \notin {"locking", "leaving"} /\ s = <<>>
        BY <1>5, <2>2
      <3> HIDE DEF s, label
      <3> QED
        BY <1>6, <3>1 DEF Fits
    <2>3. Fits(a, s, label)
      <3> DEFINE n == Len(todo[a])
      <3>2. n \in Nat /\ n > 0
        BY <1>2
      <3> HIDE DEF n
      <3>3. n = 1 \/ n > 1
        BY <3>2
      <3>1. Len(todo[a]) = 1 \/ Len(todo[a]) > 1
        BY <3>3 DEF n
      <3> HIDE DEF s, label
      <3> QED
        BY <2>1, <2>2, <3>1
    <2> HIDE DEF s, label
    <2> QED
      BY <1>2, <1>3, <1>4, <2>3, OneActor DEF CallFits
  <1>7. CASE a \notin Requests
    <2>1. /\ pc[a] \notin {"admitted", "running"}
          /\ \A i \in 1 .. Len(todo[a]) :
                todo[a][i].do = "clean" \/ (i = 1 /\ todo[a][i].do = "release")
      BY <1>7 DEF LocalInv, Scripted, Fits
    <2>2. \A i \in 1 .. Len(s) : i + 1 \in 1 .. Len(todo[a]) /\ i + 1 # 1
      BY <1>2
    <2>3. Current(a).do \in {"clean", "release"}
      BY <1>2, <2>1
    <2>4. Fits(a, s, label)
      BY <1>2, <1>7, <2>1, <2>2, <2>3 DEF Fits
    <2> HIDE DEF s, label
    <2> QED
      BY <1>2, <1>3, <1>4, <2>4, OneActor DEF CallFits
  <1> QED
    BY <1>6, <1>7

(* The next call of the same operation.                                    *)
LEMMA GoesKeeps ==
    ASSUME LocalInv, NEW a \in Actors, todo[a] # <<>>, NEW call \in Calls,
           Goes(a, call), CallFits(todo[a], call)
    PROVE  LocalInv'
  <1>1. /\ todo[a] \in Seq(Op1) /\ pc[a] \in Labels
        /\ todo' = [todo EXCEPT ![a] = todo[a]] /\ at' = [at EXCEPT ![a] = call]
        /\ pc' = [pc EXCEPT ![a] = pc[a]]
    BY DEF LocalInv, LocalType, Goes
  <1>2. Fits(a, todo[a], pc[a])
    BY DEF LocalInv, Scripted
  <1> QED
    BY <1>1, <1>2, OneActor

(* A request that meets a lock sets the other flag and starts again, or is *)
(* refused.                                                                *)
LEMMA BusyKeeps ==
    ASSUME LocalInv, NEW a \in Requests, todo[a] # <<>>, Current(a).do = "held", Busy(a)
    PROVE  /\ LocalInv'
           /\ pc' = pc /\ pc[a] = "locking" /\ todo'[a] # <<>>
           /\ Head(todo'[a]).do = "flag"
  <1> DEFINE f == <<Do("flag", Other(Op(a)))>>
             c == Both("clean")
             t == TryStart(a)
             s == f \o (IF tries[a] = 1 THEN c \o t ELSE <<>>)
  <1>1. /\ f \in Seq(Op1) /\ Len(f) = 1 /\ f[1] = Do("flag", Other(Op(a)))
        /\ f[1].do = "flag"
    BY OpTypes DEF Dos, Do
  <1>2. /\ c \in Seq(Op1) /\ c # <<>> /\ c[1] = Do("clean", "generate")
        /\ \A i \in 1 .. Len(c) : c[i].do = "clean"
    <2>1. /\ c \in Seq(Op1) /\ Len(c) = 2 /\ c[1] = Do("clean", "generate")
          /\ c[2] = Do("clean", "finalize")
      BY OpTypes DEF Dos
    <2> HIDE DEF c
    <2>2. c # <<>>
      BY <2>1
    <2>3. \A i \in 1 .. Len(c) : i = 1 \/ i = 2
      BY <2>1
    <2> QED
      BY <2>1, <2>2, <2>3 DEF Do
  <1>3. /\ t \in Seq(Op1) /\ Len(t) = 5 /\ InOrder(t, a) /\ t[1].do = "purge" /\ t # <<>>
    <2>1. t \in Seq(Op1) /\ Len(t) = 5 /\ InOrder(t, a) /\ t[1] = Do("purge", "generate")
      BY TryStartInOrder
    <2> HIDE DEF t
    <2> QED
      BY <2>1 DEF Do
  <1>4. InOrder(f, a) /\ f # <<>>
    <2> HIDE DEF f
    <2>1. \A i \in 1 .. Len(f) : i = 1 /\ i = Len(f)
      BY <1>1
    <2>2. f # <<>>
      BY <1>1
    <2>3. f[1] # Do("held", "finalize") /\ f[1] # Do("held", "generate")
      BY <1>1 DEF Do
    <2> QED
      BY <1>1, <2>1, <2>2, <2>3 DEF InOrder
  <1>5. InOrder(c \o t, a) /\ c \o t # <<>> /\ c \o t \in Seq(Op1) /\ (c \o t)[1].do = "clean"
    <2> HIDE DEF c, t
    <2>1. InOrder(c \o t, a) /\ c \o t # <<>> /\ c \o t \in Seq(Op1)
      BY <1>2, <1>3, PrefixInOrder
    <2>2. 1 \in 1 .. Len(c)
      BY <1>2
    <2> QED
      BY <1>2, <1>3, <2>1, <2>2, ConcatAt
  <1>6. InOrder(s, a) /\ s # <<>> /\ s \in Seq(Op1) /\ s[1].do = "flag"
    <2> DEFINE u == c \o t
    <2> HIDE DEF u, f
    <2>1. CASE tries[a] = 1
      <3>1. s = f \o u
        BY <2>1 DEF u
      <3>2. \A i \in 1 .. Len(f) : i = 1
        BY <1>1
      <3>3. InOrder(s, a) /\ s # <<>> /\ s \in Seq(Op1)
        <4>1. InOrder(u, a) /\ u # <<>> /\ u \in Seq(Op1) /\ u[1].do = "clean"
          BY <1>5 DEF u
        <4>2. f \in Seq(Op1) /\ \A i \in 1 .. Len(f) : i = 1 /\ f[i].do = "flag"
          BY <1>1, <3>2
        <4>3. InOrder(f \o u, a) /\ f \o u # <<>> /\ f \o u \in Seq(Op1)
          BY <4>1, <4>2, PrefixInOrder
        <4> QED
          BY <3>1, <4>3
      <3>4. 1 \in 1 .. Len(f)
        BY <1>1
      <3>5. s[1] = f[1]
        BY <1>1, <1>5, <3>1, <3>4, ConcatAt DEF u
      <3> QED
        BY <1>1, <3>3, <3>5
    <2>2. CASE tries[a] # 1
      <3>1. s = f
        BY <1>1, <2>2
      <3> QED
        BY <1>1, <1>4, <3>1
    <2> QED
      BY <2>1, <2>2
  <1>7. a \in Actors /\ LocalType /\ Scripted /\ pc[a] \in Labels /\ "get" \in Calls
    BY DEF Actors, LocalInv, LocalType, Calls
  <1>8. pc[a] = "locking"
    <2> DEFINE q == <<Do("release", Op(a))>>
    <2>1. pc[a] = "leaving" => todo[a] = q
      BY <1>7 DEF Scripted, Fits
    <2>2. q[1].do = "release"
      BY DEF Do
    <2>3. Current(a) = todo[a][1]
      BY <1>7, HeadIsFirst
    <2> HIDE DEF q
    <2> QED
      BY <1>7, <2>1, <2>2, <2>3, BusyPlaces
  <1>9. todo' = [todo EXCEPT ![a] = s] /\ at' = [at EXCEPT ![a] = "get"]
        /\ pc' = [pc EXCEPT ![a] = pc[a]] /\ pc' = pc /\ todo'[a] = s
    BY <1>7 DEF Busy, LocalType
  <1> HIDE DEF s
  <1>10. Head(s) = s[1]
    BY <1>6
  <1>11. Fits(a, s, pc[a]) /\ CallFits(s, "get")
    BY <1>6, <1>8 DEF Fits, CallFits
  <1>12. LocalInv'
    BY <1>6, <1>7, <1>9, <1>11, OneActor
  <1> QED
    BY <1>6, <1>8, <1>9, <1>10, <1>12

(* The clean-up ends in a release when there is nothing left to clean.     *)
LEMMA AgainKeeps ==
    ASSUME LocalInv, NEW a \in Actors, todo[a] # <<>>, Current(a).do = "clean",
           todo' = [todo EXCEPT ![a] = <<Do("release", Current(a).key)>> \o Tail(@)],
           at' = [at EXCEPT ![a] = "get"], pc' = pc
    PROVE  LocalInv' /\ Current(a)'.do = "release"
  <1> DEFINE f == <<Do("release", Current(a).key)>>
             t == Tail(todo[a])
             s == f \o t
  <1>1. LocalType /\ Scripted
    BY DEF LocalInv
  <1>2. /\ t \in Seq(Op1) /\ Len(todo[a]) \in Nat /\ Len(todo[a]) > 0
        /\ Len(t) = Len(todo[a]) - 1
        /\ \A i \in 1 .. Len(t) : t[i] = todo[a][i + 1]
        /\ Current(a) = todo[a][1] /\ Current(a) \in Op1 /\ 1 \in 1 .. Len(todo[a])
        /\ todo[a] \in Seq(Op1)
    BY <1>1, HeadIsFirst
  <1>3. /\ f \in Seq(Op1) /\ Len(f) = 1 /\ f[1].do = "release"
    <2>1. Current(a).key \in Keys
      BY <1>2 DEF Op1
    <2>2. Do("release", Current(a).key) \in Op1
      BY <2>1, OpTypes DEF Dos
    <2> QED
      BY <2>2 DEF Do
  <1>4. \A i \in 1 .. Len(f) : i = 1
    BY <1>3
  <1>5. ASSUME a \in Requests
        PROVE  pc[a] = "locking" /\ InOrder(s, a) /\ s # <<>> /\ s \in Seq(Op1)
    <2> DEFINE q == <<Do("release", Op(a))>>
    <2>1. q[1].do = "release"
      BY DEF Do
    <2>2. pc[a] = "leaving" => todo[a] = q
      BY <1>1, <1>5 DEF Scripted, Fits
    <2> HIDE DEF q
    <2>3. pc[a] = "locking" /\ InOrder(todo[a], a)
      BY <1>1, <1>2, <1>5, <2>1, <2>2, BusyPlaces
    <2>4. Len(todo[a]) > 1 /\ todo[a][2].do \notin {"acquire", "held", "flag", "release"}
      BY <1>2, <2>3 DEF InOrder
    <2>5. 2 \in 1 .. Len(todo[a]) /\ 1 \in 1 .. Len(t)
      BY <1>2, <2>4
    <2>6. t[1] = todo[a][2]
      <3>1. 1 + 1 = 2
        OBVIOUS
      <3> HIDE DEF t
      <3> QED
        BY <1>2, <2>5, <3>1
    <2>7. InOrder(t, a) /\ t # <<>>
      BY <1>2, <2>3, <2>4, TailInOrder
    <2> HIDE DEF f, t
    <2> QED
      BY <1>2, <1>3, <1>4, <2>3, <2>4, <2>6, <2>7, PrefixInOrder
  <1>6. s \in Seq(Op1) /\ s # <<>> /\ Head(s) = s[1] /\ s[1].do = "release"
    <2> HIDE DEF f, t
    <2>1. 1 \in 1 .. Len(f)
      BY <1>3
    <2>2. s \in Seq(Op1) /\ Len(s) = Len(f) + Len(t) /\ s[1] = f[1]
      BY <1>2, <1>3, <2>1, ConcatAt
    <2> HIDE DEF s
    <2>3. s # <<>>
      BY <1>2, <1>3, <2>2
    <2> QED
      BY <1>3, <2>2, <2>3
  <1>7. ASSUME a \notin Requests
        PROVE  /\ pc[a] \notin {"admitted", "running"}
               /\ \A i \in 1 .. Len(s) :
                     s[i].do = "clean" \/ (i = 1 /\ s[i].do = "release")
    <2>1. /\ pc[a] \notin {"admitted", "running"}
          /\ \A i \in 1 .. Len(todo[a]) :
                todo[a][i].do = "clean" \/ (i = 1 /\ todo[a][i].do = "release")
      BY <1>1, <1>7 DEF Scripted, Fits
    <2>2. \A i \in 1 .. Len(t) : t[i].do = "clean"
      <3>1. \A i \in 1 .. Len(t) : i + 1 \in 1 .. Len(todo[a]) /\ i + 1 # 1
        BY <1>2
      <3> QED
        BY <1>2, <2>1, <3>1
    <2> HIDE DEF f, t
    <2>3. /\ Len(s) = Len(f) + Len(t)
          /\ \A i \in 1 .. Len(f) : s[i] = f[i]
          /\ \A i \in 1 .. Len(t) : s[Len(f) + i] = t[i]
      BY <1>2, <1>3, ConcatAt
    <2> HIDE DEF s
    <2>4. ASSUME NEW i \in 1 .. Len(s), i # 1
          PROVE  i - 1 \in 1 .. Len(t) /\ Len(f) + (i - 1) = i
      BY <1>2, <1>3, <2>3, <2>4
    <2>5. ASSUME NEW i \in 1 .. Len(s)
          PROVE  s[i].do = "clean" \/ (i = 1 /\ s[i].do = "release")
      <3>1. CASE i = 1
        <4>1. s[1] = f[1]
          BY <1>3, <2>3
        <4> QED
          BY <1>3, <3>1, <4>1
      <3>2. CASE i # 1
        <4>1. s[i] = t[i - 1]
          BY <2>3, <2>4, <3>2
        <4> QED
          BY <2>2, <2>4, <3>2, <4>1
      <3> QED
        BY <3>1, <3>2
    <2> QED
      BY <2>1, <2>5
  <1>8. /\ todo' = [todo EXCEPT ![a] = s] /\ pc' = [pc EXCEPT ![a] = pc[a]]
        /\ pc[a] \in Labels /\ "get" \in Calls
    BY <1>1 DEF LocalType, Calls
  <1> HIDE DEF s, f, t
  <1>9. Fits(a, s, pc[a]) /\ CallFits(s, "get")
    BY <1>5, <1>7 DEF Fits, CallFits
  <1>10. LocalInv'
    BY <1>6, <1>8, <1>9, OneActor
  <1>11. todo'[a] = s
    BY <1>1, <1>8 DEF LocalType
  <1> QED
    BY <1>6, <1>10, <1>11 DEF Current

-----------------------------------------------------------------------------
(***************************************************************************)
(* The steps on the store.                                                 *)
(***************************************************************************)

(* Only a request that is not admitted yet looks at or takes a lock.       *)
LEMMA OnlyRequests ==
    ASSUME LocalInv, NEW a \in Actors, todo[a] # <<>>,
           Current(a).do \in {"purge", "held", "flag", "acquire"}
    PROVE  a \in Requests /\ pc[a] = "locking" /\ InOrder(todo[a], a)
  <1>1. LocalType /\ Fits(a, todo[a], pc[a])
    BY DEF LocalInv, Scripted
  <1>2. Current(a) = todo[a][1] /\ 1 \in 1 .. Len(todo[a])
    BY <1>1, HeadIsFirst
  <1>3. a \in Requests
    BY <1>1, <1>2 DEF Fits
  <1> DEFINE q == <<Do("release", Op(a))>>
  <1>4. q[1].do = "release"
    BY DEF Do
  <1>5. \/ pc[a] = "locking" /\ InOrder(todo[a], a)
        \/ pc[a] = "leaving" /\ todo[a] = q
    BY <1>3, BusyPlaces
  <1> HIDE DEF q
  <1> QED
    BY <1>2, <1>3, <1>4, <1>5

(* What a get may lead to.                                                 *)
LEMMA GetMoves ==
    ASSUME LocalInv, NEW a \in Actors, Get(a)
    PROVE  LET o == Current(a) IN
           /\ todo[a] # <<>> /\ at[a] = "get" /\ MayRun(a)
           /\ UNCHANGED <<backend, overdue, lock, waited, got>>
           /\ \/ /\ Goes(a, "delete") /\ UNCHANGED tries
                 /\ o.do # "acquire" /\ o.do # "clean"
                 /\ ShouldRelinquish(lock[o.key]) \/ o.do = "release"
              \/ /\ Goes(a, "again") /\ UNCHANGED tries
                 /\ o.do = "clean" /\ lock[o.key].there /\ ShouldRelinquish(lock[o.key])
              \/ Goes(a, "put") /\ UNCHANGED tries /\ o.do = "acquire"
              \/ /\ Busy(a) /\ o.do = "held" /\ Fresh(o.key)
                 /\ tries' = [tries EXCEPT ![a] = 2]
              \/ /\ Advance(a) /\ UNCHANGED tries /\ o.do # "acquire"
                 /\ o.do \in {"held", "release"} => ~lock[o.key].there
  <1> DEFINE o == Current(a)
             l == lock[o.key]
             stale == l.there /\ ShouldRelinquish(l)
  <1>1. /\ todo[a] # <<>> /\ at[a] = "get" /\ MayRun(a)
        /\ UNCHANGED <<backend, overdue, lock, waited, got>>
    BY DEF Get, Call
  <1>2. tries' = IF o.do = "held" /\ l.there /\ ~stale
                   THEN [tries EXCEPT ![a] = 2] ELSE tries
    BY DEF Get
  <1>3. CASE o.do \in {"purge", "held", "flag"} /\ stale
    <2>1. Goes(a, "delete")
      BY <1>3 DEF Get
    <2> QED
      BY <1>1, <1>2, <1>3, <2>1
  <1>4. CASE o.do = "clean" /\ stale
    <2>1. Goes(a, "again")
      BY <1>4 DEF Get
    <2> QED
      BY <1>1, <1>2, <1>4, <2>1
  <1>5. CASE o.do = "release" /\ l.there
    <2>1. Goes(a, "delete")
      BY <1>5 DEF Get
    <2> QED
      BY <1>1, <1>2, <1>5, <2>1
  <1>6. CASE o.do = "acquire"
    <2>1. Goes(a, "put")
      BY <1>6 DEF Get
    <2> QED
      BY <1>1, <1>2, <1>6, <2>1
  <1>7. CASE o.do = "held" /\ l.there /\ ~stale
    <2>1. Busy(a)
      BY <1>7 DEF Get
    <2> QED
      BY <1>1, <1>2, <1>7, <2>1 DEF Fresh
  <1>8. CASE /\ ~(o.do \in {"purge", "held", "flag"} /\ stale)
             /\ ~(o.do = "clean" /\ stale) /\ ~(o.do = "release" /\ l.there)
             /\ o.do # "acquire" /\ ~(o.do = "held" /\ l.there /\ ~stale)
    <2>1. Advance(a)
      BY <1>8 DEF Get
    <2> QED
      BY <1>1, <1>2, <1>8, <2>1
  <1> QED
    BY <1>3, <1>4, <1>5, <1>6, <1>7, <1>8

(* A get keeps the scripts.                                                *)
LEMMA GetKeeps ==
    ASSUME LocalInv, NEW a \in Actors, Get(a)
    PROVE  LocalInv'
  <1> DEFINE o == Current(a)
  <1>1. todo[a] # <<>> /\ o = Head(todo[a])
    BY GetMoves DEF Current
  <1>2. CASE Goes(a, "delete") /\ o.do # "acquire"
    BY <1>1, <1>2, GoesKeeps DEF CallFits, Calls
  <1>3. CASE Goes(a, "again") /\ o.do = "clean"
    BY <1>1, <1>3, GoesKeeps DEF CallFits, Calls
  <1>4. CASE Goes(a, "put") /\ o.do = "acquire"
    BY <1>1, <1>4, GoesKeeps DEF CallFits, Calls
  <1>5. CASE Busy(a) /\ o.do = "held"
    <2>1. a \in Requests
      BY <1>1, <1>5, OnlyRequests
    <2> QED
      BY <1>1, <1>5, <2>1, BusyKeeps
  <1>6. CASE Advance(a)
    BY <1>1, <1>6, AdvanceKeeps
  <1> QED
    BY GetMoves, <1>2, <1>3, <1>4, <1>5, <1>6

(* So do the other calls.                                                  *)
LEMMA CallKeeps ==
    ASSUME LocalInv, NEW a \in Actors,
           GetAgain(a) \/ Delete(a) \/ Put(a) \/ Reread(a)
    PROVE  LocalInv'
  <1> DEFINE o == Current(a)
  <1>1. todo[a] # <<>> /\ o = Head(todo[a]) /\ CallFits(todo[a], at[a])
    BY DEF GetAgain, Delete, Put, Reread, Call, Current, LocalInv, Scripted
  <1>2. CASE GetAgain(a)
    <2>1. o.do = "clean"
      BY <1>1, <1>2 DEF GetAgain, Call, CallFits
    <2>2. CASE Goes(a, "delete")
      BY <1>1, <2>1, <2>2, GoesKeeps DEF CallFits, Calls
    <2>3. CASE /\ todo' = [todo EXCEPT ![a] = <<Do("release", Current(a).key)>> \o Tail(@)]
               /\ at' = [at EXCEPT ![a] = "get"]
               /\ UNCHANGED pc
      BY <1>1, <2>1, <2>3, AgainKeeps
    <2> QED
      BY <1>2, <2>2, <2>3 DEF GetAgain
  <1>3. CASE Delete(a)
    BY <1>1, <1>3, AdvanceKeeps DEF Delete
  <1>4. CASE Put(a)
    <2>1. o.do = "acquire" /\ Goes(a, "reread")
      BY <1>1, <1>4 DEF Put, Call, CallFits
    <2> QED
      BY <1>1, <2>1, GoesKeeps DEF CallFits, Calls
  <1>5. CASE Reread(a)
    BY <1>1, <1>5, AdvanceKeeps DEF Reread
  <1> QED
    BY <1>2, <1>3, <1>4, <1>5

(* A handler that starts on a sequence of operations, or goes on without.  *)
LEMMA HandlerKeeps ==
    ASSUME LocalInv,
           \/ \E r \in Requests : \/ Arrive(r) \/ Rejects(r) \/ SetJobRaises(r)
                                  \/ Enqueue(r) \/ Start(r) \/ Finish(r)
           \/ \E d \in Duplicates : Skip(d)
           \/ CleanUp
    PROVE  LocalInv'
  <1>1. LocalType /\ Requests \subseteq Actors /\ Duplicates \subseteq Actors /\ Admin \in Actors
    BY DEF LocalInv, Actors
  <1>2. ASSUME NEW r
        PROVE  <<Do("release", Op(r))>> \in Seq(Op1)
    <2>1. Do("release", Op(r)) \in Op1
      BY OpTypes DEF Dos
    <2> QED
      BY <2>1
  <1>3. "get" \in Calls /\ \A s : CallFits(s, "get")
    BY DEF Calls, CallFits
  <1>4. ASSUME NEW r \in Requests, Arrive(r)
        PROVE  LocalInv'
    <2> DEFINE s == TryStart(r)
    <2>1. s \in Seq(Op1) /\ Len(s) = 5 /\ InOrder(s, r)
      BY TryStartInOrder
    <2>2. todo' = [todo EXCEPT ![r] = s] /\ at' = [at EXCEPT ![r] = "get"]
          /\ pc' = [pc EXCEPT ![r] = "locking"]
      BY <1>4 DEF Arrive, Perform, Goto
    <2> HIDE DEF s
    <2>3. s # <<>>
      BY <2>1
    <2>4. Fits(r, s, "locking") /\ "locking" \in Labels
      BY <2>1, <2>3 DEF Fits, Labels
    <2> QED
      BY <1>1, <1>3, <2>1, <2>2, <2>4, OneActor
  <1>5. ASSUME NEW r \in Requests, Rejects(r) \/ Finish(r)
        PROVE  LocalInv'
    <2> DEFINE s == <<Do("release", Op(r))>>
    <2>1. s \in Seq(Op1)
      BY <1>2
    <2>2. todo' = [todo EXCEPT ![r] = s] /\ at' = [at EXCEPT ![r] = "get"]
          /\ pc' = [pc EXCEPT ![r] = "leaving"]
      BY <1>5 DEF Rejects, Finish, Leave, Perform, Goto
    <2>3. Fits(r, s, "leaving") /\ "leaving" \in Labels
      BY DEF Fits, Labels
    <2> HIDE DEF s
    <2> QED
      BY <1>1, <1>3, <2>1, <2>2, <2>3, OneActor
  <1>6. ASSUME NEW r \in Requests, SetJobRaises(r) \/ Enqueue(r) \/ Start(r)
        PROVE  LocalInv'
    <2>1. PICK label \in {"raised", "queued", "running"} :
             pc' = [pc EXCEPT ![r] = label] /\ UNCHANGED local
      BY <1>6 DEF SetJobRaises, Enqueue, Start, Goto
    <2>2. pc[r] \in {"admitted", "queued"} /\ todo[r] = <<>> /\ at[r] \in Calls
      BY <1>1, <1>6 DEF SetJobRaises, Enqueue, Start, LocalInv, Scripted, Fits, LocalType
    <2>3. Fits(r, <<>>, label) /\ label \in Labels /\ CallFits(<<>>, at[r])
      BY <2>1 DEF Fits, Labels, CallFits
    <2>4. todo' = [todo EXCEPT ![r] = <<>>] /\ at' = [at EXCEPT ![r] = at[r]]
      BY <1>1, <2>1, <2>2 DEF local, LocalType
    <2>5. <<>> \in Seq(Op1)
      OBVIOUS
    <2> QED
      BY <1>1, <2>1, <2>2, <2>3, <2>4, <2>5, OneActor
  <1>7. ASSUME NEW d \in Duplicates, Skip(d)
        PROVE  LocalInv'
    <2> DEFINE s == <<Do("release", Op(Of[d]))>>
    <2>1. s \in Seq(Op1) /\ Len(s) = 1 /\ s[1].do = "release"
      BY <1>2 DEF Do
    <2>2. todo' = [todo EXCEPT ![d] = s] /\ at' = [at EXCEPT ![d] = "get"]
          /\ pc' = [pc EXCEPT ![d] = "leaving"]
      BY <1>7 DEF Skip, Perform, Goto
    <2>3. d \notin Requests
      BY LocksAssumption
    <2> HIDE DEF s
    <2>4. \A i \in 1 .. Len(s) : i = 1
      BY <2>1
    <2>5. Fits(d, s, "leaving") /\ "leaving" \in Labels
      BY <2>1, <2>3, <2>4 DEF Fits, Labels
    <2> QED
      BY <1>1, <1>3, <2>1, <2>2, <2>5, OneActor
  <1>8. ASSUME CleanUp
        PROVE  LocalInv'
    <2> DEFINE s == Both("clean")
    <2>1. /\ s \in Seq(Op1) /\ Len(s) = 2
          /\ s[1] = Do("clean", "generate") /\ s[2] = Do("clean", "finalize")
      BY OpTypes DEF Dos
    <2>2. todo' = [todo EXCEPT ![Admin] = s] /\ at' = [at EXCEPT ![Admin] = "get"]
          /\ pc' = [pc EXCEPT ![Admin] = "locking"]
      BY <1>8 DEF CleanUp, Perform, Goto
    <2>3. Admin \notin Requests
      BY LocksAssumption
    <2> HIDE DEF s
    <2>4. \A i \in 1 .. Len(s) : s[i].do = "clean"
      <3>1. \A i \in 1 .. Len(s) : i = 1 \/ i = 2
        BY <2>1
      <3> QED
        BY <2>1, <3>1 DEF Do
    <2>5. Fits(Admin, s, "locking") /\ "locking" \in Labels
      BY <2>3, <2>4 DEF Fits, Labels
    <2> QED
      BY <1>1, <1>3, <2>1, <2>2, <2>5, OneActor
  <1> QED
    BY <1>4, <1>5, <1>6, <1>7, <1>8

-----------------------------------------------------------------------------
(***************************************************************************)
(* Type correctness.                                                       *)
(***************************************************************************)

(* The stored locks, the counters and the history of the locks taken.      *)
StoreType ==
    /\ backend \in Backends
    /\ lock \in [Keys -> Locks]
    /\ tries \in [Requests -> 0..2]
    /\ waited \in [Requests -> Nat]
    /\ got \subseteq Requests
    /\ overdue \in BOOLEAN

(* The invariant holds of the types the model states.                      *)
LEMMA ScriptParts == ScriptInv <=> LocalInv /\ StoreType
  BY DEF ScriptInv, LocalInv, LocalType, StoreType, TypeOK, Op1

LEMMA LockValues ==
    /\ NoLock \in Locks /\ Granted(Ttl) \in Locks /\ {Ttl, StartDelay, MaxRun} \subseteq Nat
    /\ ~NoLock.there /\ ~ShouldRelinquish(Granted(Ttl))
  BY LocksAssumption DEF NoLock, Granted, Locks, ShouldRelinquish

LEMMA ScriptInit == Init => ScriptInv
  <1> SUFFICES ASSUME Init PROVE ScriptInv
    OBVIOUS
  <1>1. StoreType
    <2>1. /\ backend \in Backends /\ lock \in [Keys -> Locks] /\ tries \in [Requests -> 0..2]
          /\ waited \in [Requests -> Nat] /\ got \subseteq Requests
      BY LocksAssumption DEF Init
    <2>2. overdue \in BOOLEAN
      BY DEF Init
    <2> QED
      BY <2>1, <2>2 DEF StoreType
  <1>2. LocalType
    BY DEF Init, LocalType, Labels, Calls
  <1>3. Scripted
    BY DEF Init, Scripted, Fits, CallFits
  <1> QED
    BY <1>1, <1>2, <1>3, ScriptParts DEF LocalInv

LEMMA ScriptStep == ScriptInv /\ [Next]_vars => ScriptInv'
  <1> SUFFICES ASSUME LocalInv, StoreType, [Next]_vars
               PROVE  LocalInv' /\ StoreType'
    BY ScriptParts, PTL
  <1>1. ASSUME NEW a \in Actors, Get(a)
        PROVE  LocalInv' /\ StoreType'
    <2>1. UNCHANGED <<backend, overdue, lock, waited, got>>
          /\ (UNCHANGED tries \/ tries' = [tries EXCEPT ![a] = 2])
      BY <1>1, GetMoves
    <2> QED
      BY <1>1, <2>1, GetKeeps DEF StoreType
  <1>2. ASSUME NEW a \in Actors, GetAgain(a) \/ Reread(a)
        PROVE  LocalInv' /\ StoreType'
    BY <1>2, CallKeeps DEF GetAgain, Reread, StoreType
  <1>3. ASSUME NEW a \in Actors, Delete(a)
        PROVE  LocalInv' /\ StoreType'
    BY <1>3, CallKeeps, LockValues DEF Delete, StoreType
  <1>4. ASSUME NEW a \in Actors, Put(a)
        PROVE  LocalInv' /\ StoreType'
    <2>1. todo[a] # <<>> /\ Current(a).do = "acquire"
      BY <1>4 DEF Put, Call, Current, LocalInv, Scripted, CallFits
    <2>2. a \in Requests
      BY <2>1, OnlyRequests
    <2> QED
      BY <1>4, <2>2, CallKeeps, LockValues DEF Put, StoreType
  <1>5. ASSUME NEW r \in Requests,
               \/ Arrive(r) \/ Rejects(r) \/ SetJobRaises(r)
               \/ Enqueue(r) \/ Start(r) \/ Finish(r)
        PROVE  LocalInv' /\ StoreType'
    <2>1. LocalInv'
      BY <1>5, HandlerKeeps
    <2>2. StoreType'
      BY <1>5 DEF Arrive, Rejects, SetJobRaises, Enqueue, Start, Finish, StoreType
    <2> QED
      BY <2>1, <2>2
  <1>6. ASSUME \/ \E d \in Duplicates : Skip(d)
               \/ CleanUp
        PROVE  LocalInv' /\ StoreType'
    BY <1>6, HandlerKeeps DEF Skip, CleanUp, StoreType
  <1>7. ASSUME Tick
        PROVE  LocalInv' /\ StoreType'
    <2>1. LocalInv'
      BY <1>7, NoActor DEF Tick
    <2>2. \A l \in Locks : [l EXCEPT !.left = IF @ > 0 THEN @ - 1 ELSE 0] \in Locks
      BY LocksAssumption DEF Locks
    <2>3. StoreType'
      BY <1>7, <2>2 DEF Tick, StoreType
    <2> QED
      BY <2>1, <2>3
  <1>8. CASE UNCHANGED vars
    BY <1>8, NoActor DEF vars, StoreType
  <1> QED
    BY <1>1, <1>2, <1>3, <1>4, <1>5, <1>6, <1>7, <1>8 DEF Next

(* Whatever the requests do, and in whichever store, every variable keeps  *)
(* its type; and what a handler still has to do to the locks is always the *)
(* rest of what try_start_*, a clean-up or a finish_* does.                *)
THEOREM TypeCorrect == Spec => []TypeOK
  <1>1. ScriptInv => TypeOK
    BY DEF ScriptInv
  <1> QED
    BY <1>1, ScriptInit, ScriptStep, PTL DEF Spec

THEOREM ScriptCorrect == Spec => []ScriptInv
  BY ScriptInit, ScriptStep, PTL DEF Spec

-----------------------------------------------------------------------------
(***************************************************************************)
(* No lock is left behind.                                                 *)
(***************************************************************************)

(* What an actor does next once an operation is over.                      *)
LEMMA Advanced ==
    ASSUME LocalInv, NEW a \in Requests, todo[a] # <<>>, Advance(a)
    PROVE  LET o == Current(a) IN
           /\ o.do = "acquire" => pc'[a] = "admitted" /\ todo'[a] = <<>> /\ o.key = Op(a)
           /\ pc[a] = "leaving" => /\ pc'[a] = "done" /\ todo'[a] = <<>>
                                   /\ o.do = "release" /\ o.key = Op(a)
           /\ pc[a] = "locking" /\ o.do # "acquire" =>
                 \/ o.do = "flag" /\ pc'[a] = "refused" /\ todo'[a] = <<>>
                 \/ /\ pc'[a] = "locking" /\ todo'[a] # <<>>
                    /\ Current(a)' = todo[a][2] /\ InOrder(todo[a], a)
                    /\ 1 < Len(todo[a])
  <1> DEFINE o == Current(a)
  <1>1. LocalType /\ a \in Actors
    BY DEF LocalInv, Actors
  <1>2. /\ Tail(todo[a]) \in Seq(Op1)
        /\ Len(todo[a]) \in Nat /\ Len(todo[a]) > 0 /\ Len(Tail(todo[a])) = Len(todo[a]) - 1
        /\ \A i \in 1 .. Len(Tail(todo[a])) : Tail(todo[a])[i] = todo[a][i + 1]
        /\ o = todo[a][1] /\ 1 \in 1 .. Len(todo[a])
    BY <1>1, HeadIsFirst
  <1>3. /\ todo'[a] = Tail(todo[a])
        /\ Len(todo[a]) > 1 => pc'[a] = pc[a]
        /\ Len(todo[a]) = 1 => pc'[a] = (CASE o.do = "acquire" -> "admitted"
                                           [] o.do = "flag"    -> "refused"
                                           [] OTHER            -> "done")
    BY <1>1 DEF Advance, LocalType
  <1>4. Len(todo[a]) = 1 => todo'[a] = <<>>
    BY <1>2, <1>3
  <1>5. Len(todo[a]) > 1 => Current(a)' = todo[a][2] /\ todo'[a] # <<>>
    <2> SUFFICES ASSUME Len(todo[a]) > 1
                 PROVE  Current(a)' = todo[a][2] /\ todo'[a] # <<>>
      OBVIOUS
    <2> DEFINE t == Tail(todo[a])
    <2>1. t \in Seq(Op1) /\ Len(t) > 0 /\ 1 \in 1 .. Len(t) /\ 1 + 1 = 2
      BY <1>2
    <2>2. t[1] = todo[a][2]
      BY <1>2, <2>1
    <2> HIDE DEF t
    <2>3. t # <<>> /\ Head(t) = t[1]
      BY <2>1
    <2> QED
      BY <1>3, <2>2, <2>3 DEF Current, t
  <1>6. CASE pc[a] = "leaving"
    <2> DEFINE q == <<Do("release", Op(a))>>
    <2>1. Len(q) = 1 /\ q[1].do = "release" /\ q[1].key = Op(a)
      BY DEF Do
    <2>2. todo[a] = q
      BY <1>1, <1>6 DEF LocalInv, Scripted, Fits
    <2> HIDE DEF q
    <2> QED
      BY <1>2, <1>3, <1>4, <1>6, <2>1, <2>2
  <1>7. CASE pc[a] = "locking"
    <2>1. InOrder(todo[a], a)
      BY <1>1, <1>7 DEF LocalInv, Scripted, Fits
    <2>2. o.do = "acquire" => Len(todo[a]) = 1 /\ o.key = Op(a)
      BY <1>2, <2>1 DEF InOrder
    <2>3. o.do \notin {"acquire", "flag"} => Len(todo[a]) > 1
      <3>1. o \in Op1
        BY <1>1, HeadIsFirst
      <3>2. o.do \in {"purge", "held", "clean", "release", "acquire", "flag"}
            /\ o = [do |-> o.do, key |-> o.key] /\ o.key \in Keys
        BY <3>1 DEF Op1, Dos
      <3>3. o.do = "held" => o = Do("held", "generate") \/ o = Do("held", "finalize")
        BY <3>2 DEF Do, Keys
      <3> QED
        BY <1>2, <2>1, <3>2, <3>3 DEF InOrder
    <2>4. Len(todo[a]) = 1 \/ Len(todo[a]) > 1
      <3> DEFINE n == Len(todo[a])
      <3>1. n \in Nat /\ n > 0
        BY <1>2
      <3> HIDE DEF n
      <3>2. n = 1 \/ n > 1
        BY <3>1
      <3> QED
        BY <3>2 DEF n
    <2>5. CASE Len(todo[a]) = 1
      BY <1>3, <1>4, <1>7, <2>2, <2>3, <2>5
    <2>6. CASE Len(todo[a]) > 1
      <3>1. o.do # "acquire"
        BY <1>2, <2>2, <2>6
      <3>2. pc'[a] = "locking" /\ todo'[a] # <<>> /\ Current(a)' = todo[a][2]
        BY <1>3, <1>5, <1>7, <2>6
      <3>3. 1 < Len(todo[a])
        BY <1>2, <2>6
      <3>4. pc[a] # "leaving"
        BY <1>7
      <3> HIDE DEF o
      <3>5. o = Current(a)
        BY DEF o
      <3> QED
        BY <2>1, <3>1, <3>2, <3>3, <3>4, <3>5
    <2> QED
      BY <2>4, <2>5, <2>6
  <1> QED
    BY <1>6, <1>7, BusyPlaces

-----------------------------------------------------------------------------
(***************************************************************************)
(* A step is one actor's, and the others stay where they are.              *)
(***************************************************************************)
OnStore(a) == Get(a) \/ GetAgain(a) \/ Delete(a) \/ Put(a) \/ Reread(a)

InHandler(a) ==
    \/ a \in Requests /\ \/ Arrive(a) \/ Rejects(a) \/ SetJobRaises(a)
                         \/ Enqueue(a) \/ Start(a) \/ Finish(a)
    \/ a \in Duplicates /\ Skip(a)
    \/ a = Admin /\ CleanUp

LEMMA StepKinds ==
    ASSUME [Next]_vars
    PROVE  \/ \E a \in Actors : OnStore(a) \/ InHandler(a)
           \/ Tick
           \/ UNCHANGED vars
  BY DEF Next, OnStore, InHandler, Actors

LEMMA OthersStay ==
    ASSUME LocalInv, NEW a \in Actors, OnStore(a) \/ InHandler(a), NEW b \in Actors, b # a
    PROVE  pc'[b] = pc[b] /\ at'[b] = at[b] /\ todo'[b] = todo[b]
  <1>1. LocalType
    BY DEF LocalInv
  <1>2. CASE OnStore(a)
    <2>1. Goes(a, "delete") \/ Goes(a, "again") \/ Goes(a, "put") \/ Goes(a, "reread")
          \/ Busy(a) \/ Advance(a)
          \/ /\ todo' = [todo EXCEPT ![a] = <<Do("release", Current(a).key)>> \o Tail(@)]
             /\ at' = [at EXCEPT ![a] = "get"]
             /\ UNCHANGED pc
      BY <1>2, GetMoves DEF OnStore, GetAgain, Delete, Put, Reread
    <2> QED
      BY <1>1, <2>1 DEF Goes, Busy, Advance, LocalType
  <1>3. CASE InHandler(a)
    BY <1>1, <1>3 DEF InHandler, Arrive, Rejects, SetJobRaises, Enqueue, Start, Finish,
        Skip, CleanUp, Leave, Perform, Goto, local, LocalType
  <1> QED
    BY <1>2, <1>3

(* Only the requests' puts make a lock that refuses.                       *)
LEMMA FreshMoves ==
    ASSUME ScriptInv, [Next]_vars, NEW k \in Keys, Fresh(k)'
    PROVE  Fresh(k) \/ \E a \in Requests : Put(a) /\ Op(a) = k /\ pc[a] = "locking"
  <1>1. LocalInv /\ StoreType
    BY ScriptParts
  <1>2. UNCHANGED lock => Fresh(k)
    BY DEF Fresh, ShouldRelinquish
  <1>3. ASSUME NEW a \in Actors, OnStore(a)
        PROVE  Fresh(k) \/ \E b \in Requests : Put(b) /\ Op(b) = k /\ pc[b] = "locking"
    <2>1. CASE Get(a) \/ GetAgain(a) \/ Reread(a)
      BY <1>1, <1>2, <2>1, GetMoves DEF GetAgain, Reread
    <2>2. CASE Delete(a)
      <3>1. lock' = [lock EXCEPT ![Current(a).key] = NoLock]
        BY <2>2 DEF Delete
      <3> QED
        BY <1>1, <3>1, LockValues DEF StoreType, Fresh, ShouldRelinquish
    <2>3. CASE Put(a)
      <3>1. todo[a] # <<>> /\ Current(a).do = "acquire"
        BY <1>1, <2>3 DEF Put, Call, Current, LocalInv, Scripted, CallFits
      <3>2. a \in Requests /\ pc[a] = "locking" /\ InOrder(todo[a], a)
        BY <1>1, <3>1, OnlyRequests
      <3>3. Current(a) = todo[a][1] /\ 1 \in 1 .. Len(todo[a])
        BY <1>1, <3>1, HeadIsFirst DEF LocalInv
      <3>4. Current(a).key = Op(a)
        BY <3>1, <3>2, <3>3 DEF InOrder
      <3>5. lock' = [lock EXCEPT ![Op(a)] = Granted(Ttl)]
        BY <2>3, <3>4 DEF Put
      <3>6. CASE Op(a) = k
        BY <2>3, <3>2, <3>6
      <3>7. CASE Op(a) # k
        BY <1>1, <3>5, <3>7 DEF StoreType, Fresh, ShouldRelinquish
      <3> QED
        BY <3>6, <3>7
    <2> QED
      BY <1>3, <2>1, <2>2, <2>3 DEF OnStore
  <1>4. ASSUME NEW a \in Actors, InHandler(a)
        PROVE  UNCHANGED lock
    BY <1>4 DEF InHandler, Arrive, Rejects, SetJobRaises, Enqueue, Start, Finish,
        Skip, CleanUp
  <1>5. CASE Tick
    <2>1. lock[k] \in Locks
      BY <1>1 DEF StoreType
    <2>2. lock'[k] = [lock[k] EXCEPT !.left = IF @ > 0 THEN @ - 1 ELSE 0]
      BY <1>5 DEF Tick
    <2>3. /\ lock'[k].there = lock[k].there /\ lock'[k].granted = lock[k].granted
          /\ lock[k].left = 0 => lock'[k].left = 0
      BY <2>1, <2>2, LocksAssumption DEF Locks
    <2> QED
      BY <2>3 DEF Fresh, ShouldRelinquish
  <1>6. CASE UNCHANGED vars
    BY <1>2, <1>6 DEF vars
  <1> QED
    BY <1>2, <1>3, <1>4, <1>5, <1>6, StepKinds

-----------------------------------------------------------------------------
(***************************************************************************)
(* No lock is left behind: a lock that refuses others is owed a release.   *)
(***************************************************************************)

(* A request that owes a release owes it until its lock refuses nobody.    *)
LEMMA OwesStays ==
    ASSUME ScriptInv, [Next]_vars, NEW r \in Requests, Owes(r), Fresh(Op(r))'
    PROVE  Owes(r)'
  <1>1. LocalInv /\ LocalType /\ StoreType /\ r \in Actors
    BY ScriptParts DEF LocalInv, Actors
  <1>2. CASE UNCHANGED <<pc, at>>
    BY <1>2 DEF Owes
  <1>3. ASSUME NEW a \in Actors, OnStore(a) \/ InHandler(a), a # r
        PROVE  Owes(r)'
    BY <1>1, <1>3, OthersStay DEF Owes
  <1>4. ASSUME InHandler(r)
        PROVE  Owes(r)'
    <2>1. r \notin Duplicates /\ r # Admin
      BY LocksAssumption
    <2>2. Arrive(r) \/ Rejects(r) \/ SetJobRaises(r) \/ Enqueue(r) \/ Start(r) \/ Finish(r)
      BY <1>4, <2>1 DEF InHandler
    <2>3. ~Arrive(r)
      BY DEF Arrive, Owes
    <2>4. pc'[r] \in {"leaving", "raised", "queued", "running"}
      BY <1>1, <2>2, <2>3 DEF LocalType, Rejects, SetJobRaises, Enqueue, Start, Finish,
          Leave, Perform, Goto
    <2> QED
      BY <2>4 DEF Owes
  <1>5. ASSUME Get(r)
        PROVE  Owes(r)'
    <2>1. todo[r] # <<>> /\ at[r] = "get" /\ UNCHANGED lock
      BY <1>1, <1>5, GetMoves
    <2>2. pc[r] = "leaving"
      BY <1>1, <2>1, BusyPlaces DEF Owes
    <2>3. CASE Advance(r)
      <3>1. Current(r).do = "release" /\ Current(r).key = Op(r)
        BY <1>1, <2>1, <2>2, <2>3, Advanced
      <3>2. ASSUME Current(r).do = "release" => ~lock[Current(r).key].there
            PROVE  FALSE
        <4>1. ~lock'[Op(r)].there
          BY <2>1, <3>1, <3>2
        <4>2. Op(r)' = Op(r)
          BY DEF Op
        <4> QED
          BY <4>1, <4>2 DEF Fresh
      <3>3. pc'[r] = "done"
        BY <1>1, <2>1, <2>2, <2>3, Advanced
      <3>4. ~Goes(r, "delete") /\ ~Goes(r, "again") /\ ~Goes(r, "put") /\ ~Busy(r)
        BY <2>2, <3>3 DEF Goes, Busy
      <3> QED
        BY <1>1, <1>5, <3>2, <3>4, GetMoves
    <2>4. CASE UNCHANGED pc
      BY <2>2, <2>4 DEF Owes
    <2> QED
      BY <1>1, <1>5, <2>3, <2>4, GetMoves DEF Goes, Busy
  <1>6. ASSUME GetAgain(r) \/ Put(r)
        PROVE  Owes(r)'
    <2>1. UNCHANGED pc /\ todo[r] # <<>> /\ at[r] # "reread"
      BY <1>6 DEF GetAgain, Put, Goes, Call
    <2>2. pc[r] = "leaving"
      BY <1>1, <2>1, BusyPlaces DEF Owes
    <2> QED
      BY <2>1, <2>2 DEF Owes
  <1>7. ASSUME Delete(r)
        PROVE  Owes(r)'
    <2>1. todo[r] # <<>> /\ at[r] = "delete" /\ Advance(r)
          /\ lock' = [lock EXCEPT ![Current(r).key] = NoLock]
      BY <1>7 DEF Delete, Call
    <2>2. pc[r] = "leaving"
      BY <1>1, <2>1, BusyPlaces DEF Owes
    <2>3. Current(r).key = Op(r)
      BY <1>1, <2>1, <2>2, Advanced
    <2>4. ~lock'[Op(r)].there /\ Op(r)' = Op(r)
      BY <1>1, <2>1, <2>3, OpTypes, LockValues DEF StoreType, Op
    <2> QED
      BY <2>4 DEF Fresh
  <1>8. ASSUME Reread(r)
        PROVE  Owes(r)'
    <2>1. todo[r] # <<>> /\ at[r] = "reread" /\ Advance(r)
      BY <1>8 DEF Reread, Call
    <2>2. Current(r).do = "acquire"
      BY <1>1, <2>1 DEF LocalInv, Scripted, CallFits, Current
    <2> QED
      BY <1>1, <2>1, <2>2, Advanced DEF Owes
  <1> QED
    BY <1>2, <1>3, <1>4, <1>5, <1>6, <1>7, <1>8, StepKinds DEF OnStore, Tick, vars, local

LEMMA OwedStep == ScriptInv /\ FreshIsOwed /\ [Next]_vars => FreshIsOwed'
  <1> SUFFICES ASSUME ScriptInv, FreshIsOwed, [Next]_vars, NEW k \in Keys, Fresh(k)'
               PROVE  \E r \in Requests : Op(r) = k /\ Owes(r)'
    <2>1. \A r : Op(r)' = Op(r)
      BY DEF Op
    <2> QED
      BY <2>1 DEF FreshIsOwed
  <1>1. CASE Fresh(k)
    <2>1. PICK r \in Requests : Op(r) = k /\ Owes(r)
      BY <1>1 DEF FreshIsOwed
    <2>2. Fresh(Op(r))'
      <3>1. Op(r)' = k
        BY <2>1 DEF Op
      <3> QED
        BY <3>1 DEF Fresh
    <2> QED
      BY <2>1, <2>2, OwesStays
  <1>2. ASSUME NEW a \in Requests, Put(a), Op(a) = k, pc[a] = "locking"
        PROVE  \E r \in Requests : Op(r) = k /\ Owes(r)'
    <2>1. a \in Actors /\ LocalType
      BY ScriptParts DEF Actors, LocalInv
    <2>2. pc'[a] = "locking" /\ at'[a] = "reread"
      BY <1>2, <2>1 DEF Put, Goes, LocalType
    <2> QED
      BY <1>2, <2>2 DEF Owes
  <1> QED
    BY <1>1, <1>2, FreshMoves

(* Whatever gets, puts and deletes of requests, duplicates and clean-ups   *)
(* interleave, and whatever the TTL: once everybody has finished, and      *)
(* nobody by an exception out of set_job, no lock is left that refuses the *)
(* next request, if there was none at the start.                           *)
THEOREM OrphanFree ==
    ASSUME StaleLeftovers PROVE Spec => []NoOrphanLock
  <1>1. Init => FreshIsOwed
    BY DEF Init, FreshIsOwed, Fresh, StaleLeftovers
  <1>2. ScriptInv /\ FreshIsOwed => NoOrphanLock
    <2> SUFFICES ASSUME ScriptInv, FreshIsOwed,
                        \A a \in Actors : pc[a] \in {"idle", "refused", "done"},
                        NEW k \in Keys, Fresh(k)
                 PROVE  FALSE
      BY DEF NoOrphanLock, Fresh
    <2>1. PICK r \in Requests : Owes(r)
      BY DEF FreshIsOwed
    <2> QED
      BY <2>1 DEF Owes, Actors
  <1> QED
    BY <1>1, <1>2, OwedStep, ScriptInit, ScriptStep, PTL DEF Spec

-----------------------------------------------------------------------------
(***************************************************************************)
(* Nobody is refused for nothing.                                          *)
(***************************************************************************)
LEMMA GotStep == ScriptInv /\ GotBy /\ [Next]_vars => GotBy'
  <1> SUFFICES ASSUME ScriptInv, GotBy, [Next]_vars
               PROVE  GotBy'
    OBVIOUS
  <1>1. LocalInv /\ LocalType /\ StoreType
    BY ScriptParts DEF LocalInv
  <1>2. got \subseteq got'
    BY <1>1, StepKinds, GetMoves DEF OnStore, InHandler, GetAgain, Delete, Put, Reread, Arrive,
       Rejects, SetJobRaises, Enqueue, Start, Finish, Skip, CleanUp, Tick, vars
  <1>3. ASSUME NEW k \in Keys, Fresh(k)'
        PROVE  got' # {}
    <2>1. CASE Fresh(k)
      BY <1>2, <2>1 DEF GotBy
    <2>2. ASSUME NEW a \in Requests, Put(a)
          PROVE  got' # {}
      BY <2>2 DEF Put
    <2> QED
      BY <1>3, <2>1, <2>2, FreshMoves
  <1> DEFINE Good(r) ==
                /\ pc[r] \in {"idle", "locking", "refused"} /\ ~Owes(r) => r \notin got
                /\ pc[r] = "locking" /\ Current(r).do = "flag" => got # {}
                /\ pc[r] = "refused" => got # {}
  <1>4. ASSUME NEW r \in Requests
        PROVE  Good(r)'
    <2>1. r \in Actors /\ Good(r)
      BY DEF Actors, GotBy
    <2>2. CASE UNCHANGED <<pc, at, todo, got>>
      BY <2>1, <2>2 DEF Owes, Current
    <2>3. ASSUME NEW a \in Actors, OnStore(a) \/ InHandler(a), a # r
          PROVE  Good(r)'
      <3>1. pc'[r] = pc[r] /\ at'[r] = at[r] /\ todo'[r] = todo[r]
        BY <1>1, <2>1, <2>3, OthersStay
      <3>2. r \in got' => r \in got
        BY <1>1, <2>3, GetMoves DEF OnStore, InHandler, GetAgain, Delete, Put, Reread,
           Arrive, Rejects, SetJobRaises, Enqueue, Start, Finish, Skip, CleanUp
      <3> QED
        BY <1>2, <2>1, <3>1, <3>2 DEF Owes, Current
    <2>4. ASSUME InHandler(r)
          PROVE  Good(r)'
      <3>1. r \notin Duplicates /\ r # Admin
        BY LocksAssumption
      <3>2. CASE Arrive(r)
        <4>1. /\ todo'[r] = TryStart(r) /\ pc'[r] = "locking" /\ got' = got /\ pc[r] = "idle"
          BY <1>1, <2>1, <3>2 DEF Arrive, Perform, Goto, LocalType
        <4>2. Head(TryStart(r)).do # "flag"
          <5> DEFINE s == TryStart(r)
          <5>1. s \in Seq(Op1) /\ Len(s) = 5 /\ \A i \in 1 .. Len(s) : s[i].do # "flag"
            BY TryStartInOrder
          <5> HIDE DEF s
          <5>2. Head(s) = s[1] /\ 1 \in 1 .. Len(s)
            BY <5>1
          <5> QED
            BY <5>1, <5>2 DEF s
        <4> QED
          BY <2>1, <4>1, <4>2 DEF Owes, Current
      <3>3. CASE Rejects(r) \/ SetJobRaises(r) \/ Enqueue(r) \/ Start(r) \/ Finish(r)
        <4>1. pc'[r] \in {"leaving", "raised", "queued", "running"}
          BY <1>1, <2>1, <3>3 DEF LocalType, Rejects, SetJobRaises, Enqueue, Start, Finish,
              Leave, Perform, Goto
        <4> QED
          BY <4>1
      <3> QED
        BY <2>4, <3>1, <3>2, <3>3 DEF InHandler
    <2>5. ASSUME todo[r] # <<>>, Advance(r), got' = got
          PROVE  Good(r)'
      <3>1. CASE Current(r).do = "acquire" \/ pc[r] = "leaving"
        BY <1>1, <2>5, <3>1, Advanced
      <3>2. CASE pc[r] = "locking" /\ Current(r).do # "acquire"
        <4>1. at'[r] = "get" /\ at[r] # "reread"
          BY <1>1, <2>1, <2>5, <3>2 DEF Advance, LocalType, LocalInv, Scripted, CallFits, Current
        <4>2. r \notin got
          BY <2>1, <3>2, <4>1 DEF Owes
        <4>3. CASE Current(r).do = "flag" /\ pc'[r] = "refused"
          BY <2>1, <2>5, <3>2, <4>2, <4>3
        <4>4. CASE /\ pc'[r] = "locking" /\ todo'[r] # <<>>
                   /\ Current(r)' = todo[r][2] /\ InOrder(todo[r], r)
                   /\ 1 < Len(todo[r])
          <5>1. 1 \in 1 .. Len(todo[r]) /\ 1 + 1 = 2
            BY <1>1, <2>1, <2>5, HeadIsFirst
          <5>2. todo[r][2].do # "flag"
            BY <4>4, <5>1 DEF InOrder
          <5> QED
            BY <2>5, <4>2, <4>4, <5>2
        <4> QED
          BY <1>1, <2>5, <3>2, <4>3, <4>4, Advanced
      <3> QED
        BY <1>1, <2>5, <3>1, <3>2, BusyPlaces
    <2>6. ASSUME NEW call \in Calls \ {"reread"}, todo[r] # <<>>, at[r] # "reread",
                 Goes(r, call), got' = got
          PROVE  Good(r)'
      BY <2>1, <2>6 DEF Goes, Owes, Current
    <2>7. ASSUME Get(r)
          PROVE  Good(r)'
      <3>1. todo[r] # <<>> /\ at[r] = "get" /\ got' = got
        BY <1>1, <2>1, <2>7, GetMoves
      <3>2. ASSUME Busy(r), Current(r).do = "held", Fresh(Current(r).key)
            PROVE  Good(r)'
        <4>1. pc' = pc /\ pc[r] = "locking"
          BY <1>1, <3>1, <3>2, BusyKeeps
        <4>2. Current(r).key \in Keys
          BY <1>1, <2>1, <3>1, HeadIsFirst DEF Op1
        <4>3. got # {}
          BY <3>2, <4>2 DEF GotBy
        <4> QED
          BY <2>1, <3>1, <4>1, <4>3 DEF Owes
      <3>3. CASE Goes(r, "delete") \/ Goes(r, "again") \/ Goes(r, "put")
        BY <2>6, <3>1, <3>3 DEF Calls
      <3> HIDE DEF Good
      <3> QED
        BY <1>1, <2>1, <2>5, <2>7, <3>1, <3>2, <3>3, GetMoves
    <2>8. ASSUME GetAgain(r)
          PROVE  Good(r)'
      <3>1. todo[r] # <<>> /\ at[r] = "again" /\ got' = got
        BY <2>8 DEF GetAgain, Call
      <3>2. CASE Goes(r, "delete")
        BY <2>6, <3>1, <3>2 DEF Calls
      <3>3. CASE /\ todo' = [todo EXCEPT ![r] = <<Do("release", Current(r).key)>> \o Tail(@)]
                 /\ at' = [at EXCEPT ![r] = "get"]
                 /\ UNCHANGED pc
        <4>1. Current(r).do = "clean"
          BY <2>1, <3>1, <1>1 DEF LocalInv, Scripted, CallFits, Current
        <4>2. Current(r)'.do = "release"
          BY <1>1, <2>1, <3>1, <3>3, <4>1, AgainKeeps
        <4> QED
          BY <2>1, <3>1, <3>3, <4>2 DEF Owes
      <3> HIDE DEF Good
      <3> QED
        BY <2>8, <3>2, <3>3 DEF GetAgain
    <2>9. ASSUME Put(r)
          PROVE  Good(r)'
      <3>1. todo[r] # <<>> /\ Goes(r, "reread") /\ at[r] = "put" /\ got' # {}
        BY <2>9 DEF Put, Call
      <3>2. pc'[r] = pc[r] /\ at'[r] = "reread" /\ pc[r] \in {"locking", "leaving"}
        BY <1>1, <2>1, <3>1, BusyPlaces DEF Goes, LocalType
      <3> QED
        BY <3>1, <3>2 DEF Owes
    <2>10. ASSUME Delete(r) \/ Reread(r)
           PROVE  Good(r)'
      <3>1. todo[r] # <<>> /\ Advance(r) /\ got' = got
        BY <2>10 DEF Delete, Reread, Call
      <3> HIDE DEF Good
      <3> QED
        BY <2>5, <3>1
    <2> HIDE DEF Good
    <2> QED
      BY <2>2, <2>3, <2>4, <2>7, <2>8, <2>9, <2>10, StepKinds DEF OnStore, Tick, vars, local
  <1> QED
    BY <1>3, <1>4 DEF GotBy

(* A request is answered 409 only if another one has really taken a lock:  *)
(* nothing an earlier process left behind, expired or granted by an older  *)
(* policy, refuses it, in whichever order the calls on the store come.     *)
THEOREM ConflictsAreReal ==
    ASSUME StaleLeftovers PROVE Spec => []NoSpuriousConflict
  <1>1. Init => GotBy
    BY DEF Init, GotBy, Fresh, StaleLeftovers, Actors
  <1>2. GotBy => NoSpuriousConflict
    BY DEF GotBy, NoSpuriousConflict, Owes
  <1> QED
    BY <1>1, <1>2, GotStep, ScriptInit, ScriptStep, PTL DEF Spec

-----------------------------------------------------------------------------
(***************************************************************************)
(* Mutual exclusion in memory.                                             *)
(***************************************************************************)

(* In memory nobody but the actor that steps is inside a call.             *)
LEMMA AloneInside ==
    ASSUME LocalInv, Alone, backend = "memory",
           NEW a \in Actors, OnStore(a) \/ InHandler(a), NEW b \in Actors, b # a
    PROVE  /\ todo[b] = <<>> /\ pc[b] # "admitted"
           /\ todo'[b] = <<>> /\ pc'[b] = pc[b]
  <1>1. ~Inside(b)
    <2>1. CASE MayRun(a)
      BY <2>1 DEF MayRun
    <2>2. CASE Inside(a)
      BY <2>2 DEF Alone
    <2>3. OnStore(a) => MayRun(a)
      BY DEF OnStore, Get, GetAgain, Delete, Put, Reread, Call
    <2>4. InHandler(a) => MayRun(a) \/ Inside(a)
      BY DEF InHandler, Arrive, Rejects, SetJobRaises, Enqueue, Start, Finish, Skip, CleanUp,
         Leave, Perform, Inside
    <2> QED
      BY <2>1, <2>2, <2>3, <2>4
  <1> QED
    BY <1>1, OthersStay DEF Inside

(* What comes after an operation in an actor's script.                     *)
LEMMA NextOp ==
    ASSUME LocalInv, NEW a \in Actors, todo[a] # <<>>, Advance(a), todo'[a] # <<>>
    PROVE  LET o == Current(a)
               n == Current(a)'
           IN /\ o.do # "acquire" /\ n.do \notin {"flag", "release"} /\ at'[a] = "get"
              /\ n = Do("held", "finalize") => o = Do("held", "generate")
              /\ n.do = "acquire" => o = Do("held", "finalize")
  <1>1. LocalType
    BY DEF LocalInv
  <1>2. /\ at'[a] = "get" /\ todo'[a] = Tail(todo[a])
    BY <1>1 DEF Advance, LocalType
  <1> DEFINE t == Tail(todo[a])
             o == Current(a)
             n == Current(a)'
  <1>3. /\ t \in Seq(Op1) /\ Len(todo[a]) \in Nat /\ Len(todo[a]) > 0
        /\ Len(t) = Len(todo[a]) - 1
        /\ \A i \in 1 .. Len(t) : t[i] = todo[a][i + 1]
        /\ o = todo[a][1] /\ o \in Op1 /\ 1 \in 1 .. Len(todo[a])
    BY <1>1, HeadIsFirst
  <1>4. /\ t # <<>> /\ n = Head(t)
    BY <1>2 DEF Current
  <1>5. Len(t) > 0 /\ 1 \in 1 .. Len(t) /\ Head(t) = t[1]
    <2> HIDE DEF t
    <2> QED
      BY <1>3, <1>4
  <1>6. 1 < Len(todo[a]) /\ 2 \in 1 .. Len(todo[a]) /\ 1 + 1 = 2 /\ 2 # 1
    BY <1>3, <1>5
  <1>7. n = todo[a][2]
    BY <1>3, <1>4, <1>5, <1>6
  <1>8. CASE a \in Requests
    <2>1. pc[a] = "locking" /\ InOrder(todo[a], a)
      <3>1. ASSUME pc[a] = "leaving" PROVE FALSE
        BY <1>2, <1>4, <1>8, <3>1, Advanced
      <3> QED
        BY <1>8, <3>1, BusyPlaces
    <2>2. o.do = "held" => o = Do("held", "generate") \/ o = Do("held", "finalize")
      <3>1. o = [do |-> o.do, key |-> o.key] /\ o.key \in Keys
        BY <1>3 DEF Op1
      <3> QED
        BY <3>1 DEF Do, Keys
    <2>3. o.do \in {"purge", "held", "clean", "release", "acquire", "flag"}
      BY <1>3 DEF Op1, Dos
    <2>4. o.do # "acquire" /\ n.do \notin {"flag", "release"}
      BY <1>3, <1>6, <1>7, <2>1 DEF InOrder
    <2>5. /\ o.do \in {"purge", "clean", "release", "flag"} =>
               n.do # "acquire" /\ n # Do("held", "finalize")
          /\ o = Do("held", "generate") => n = Do("held", "finalize")
          /\ o = Do("held", "finalize") => n.do = "acquire"
      BY <1>3, <1>6, <1>7, <2>1 DEF InOrder, Do
    <2>6. Do("held", "finalize").do = "held"
      BY DEF Do
    <2> QED
      BY <1>2, <2>2, <2>3, <2>4, <2>5, <2>6
  <1>9. CASE a \notin Requests
    <2>1. \A i \in 1 .. Len(todo[a]) :
             todo[a][i].do = "clean" \/ (i = 1 /\ todo[a][i].do = "release")
      BY <1>9 DEF LocalInv, Scripted, Fits
    <2>2. n.do = "clean" /\ o.do # "acquire"
      BY <1>3, <1>6, <1>7, <2>1
    <2> QED
      BY <1>2, <2>2 DEF Do
  <1> QED
    BY <1>8, <1>9

(* Going on after an operation keeps what has been found out, provided it  *)
(* left no lock where it looked for one.                                   *)
LEMMA FoundAfter ==
    ASSUME LocalInv, NEW a \in Actors, todo[a] # <<>>, FoundBy(a), Advance(a), todo'[a] # <<>>,
           Current(a).do = "held" => ~lock'[Current(a).key].there,
           \A k \in Keys : ~lock[k].there => ~lock'[k].there
    PROVE  FoundBy(a)'
  <1> DEFINE o == Current(a)
             n == Current(a)'
  <1>1. /\ o.do # "acquire" /\ n.do \notin {"flag", "release"} /\ at'[a] = "get"
        /\ n = Do("held", "finalize") => o = Do("held", "generate")
        /\ n.do = "acquire" => o = Do("held", "finalize")
    BY NextOp
  <1>2. n = Do("held", "finalize") => ~lock'["generate"].there
    BY <1>1 DEF Do
  <1>3. n.do = "acquire" => \A k \in Keys : ~lock'[k].there
    <2> SUFFICES ASSUME n.do = "acquire" PROVE \A k \in Keys : ~lock'[k].there
      OBVIOUS
    <2>1. o = Do("held", "finalize")
      BY <1>1
    <2>2. ~lock["generate"].there
      BY <2>1 DEF FoundBy
    <2>3. ~lock'["generate"].there /\ ~lock'["finalize"].there
      BY <2>1, <2>2 DEF Do, Keys
    <2> QED
      BY <2>3 DEF Keys
  <1> QED
    BY <1>1, <1>2, <1>3 DEF FoundBy, Do

(* An admitted request's lock is not one that is cleaned up.               *)
LEMMA CoveredIsFresh ==
    ASSUME StoreType, NEW r \in Requests, CoveredBy(r), Active(r)
    PROVE  lock[Op(r)].there /\ ~ShouldRelinquish(lock[Op(r)])
  <1>1. lock[Op(r)].there /\ lock[Op(r)].granted = Ttl /\ lock[Op(r)].left > 0
    BY DEF CoveredBy
  <1>2. Ttl \in Nat
    BY LocksAssumption
  <1> QED
    BY <1>1, <1>2 DEF ShouldRelinquish

(* An actor's step keeps the invariant if its own part holds after it and  *)
(* it leaves the locks of the active requests alone.                       *)
LEMMA MemoryActor ==
    ASSUME LocalInv, StoreType, MemoryInv, backend = "memory",
           NEW a \in Actors, OnStore(a) \/ InHandler(a),
           \A r \in Requests : r # a /\ Active(r) =>
              lock'[Op(r)] = lock[Op(r)] /\ waited'[r] = waited[r],
           a \in Requests => CoveredBy(a)',
           a \in Requests /\ Active(a)' => Active(a) \/ \A r \in Requests : ~Active(r),
           todo'[a] # <<>> => FoundBy(a)'
    PROVE  MemoryInv'
  <1>1. \A b \in Actors : b # a =>
           /\ todo[b] = <<>> /\ pc[b] # "admitted"
           /\ todo'[b] = <<>> /\ pc'[b] = pc[b]
    BY AloneInside DEF MemoryInv
  <1>2. Requests \subseteq Actors
    BY DEF Actors
  <1>3. Alone'
    BY <1>1 DEF Alone, Inside
  <1>4. ASSUME NEW r \in Requests
        PROVE  CoveredBy(r)'
    <2>1. CASE r = a
      BY <2>1
    <2>2. CASE r # a
      <3>1. CoveredBy(r) /\ pc'[r] = pc[r] /\ (Active(r)' <=> Active(r)) /\ Op(r)' = Op(r)
        BY <1>1, <1>2, <2>2 DEF MemoryInv, Active, Op
      <3>2. CASE Active(r)
        BY <2>2, <3>1, <3>2 DEF CoveredBy
      <3>3. CASE ~Active(r)
        BY <3>1, <3>3 DEF CoveredBy, Active
      <3> QED
        BY <3>2, <3>3
    <2> QED
      BY <2>1, <2>2
  <1>5. \A b \in Actors : todo'[b] # <<>> => FoundBy(b)'
    BY <1>1
  <1>6. \A r \in Requests : r # a => (Active(r)' <=> Active(r))
    BY <1>1, <1>2 DEF Active
  <1>7. \A r, s \in Requests : Active(r)' /\ Active(s)' => r = s
    BY <1>6 DEF MemoryInv
  <1> QED
    BY <1>3, <1>4, <1>5, <1>7 DEF MemoryInv

LEMMA MemoryOnStore ==
    ASSUME LocalInv, StoreType, MemoryInv, backend = "memory",
           NEW a \in Actors, OnStore(a)
    PROVE  MemoryInv'
  <1> DEFINE o == Current(a)
  <1>1. todo[a] # <<>> /\ FoundBy(a) /\ UNCHANGED waited /\ LocalType /\ CallFits(todo[a], at[a])
        /\ o = Head(todo[a])
    BY GetMoves DEF OnStore, GetAgain, Delete, Put, Reread, Call, MemoryInv, LocalInv, Scripted,
       Current
  <1>2. ~Active(a) \/ a \notin Requests
    BY <1>1, BusyPlaces DEF Active
  <1>3. a \in Requests => CoveredBy(a)
    BY DEF MemoryInv
  <1>4. ASSUME Goes(a, "delete") \/ Goes(a, "again") \/ Goes(a, "put"), UNCHANGED lock,
               FoundBy(a)'
        PROVE  MemoryInv'
    <2>1. UNCHANGED pc
      BY <1>4 DEF Goes
    <2>2. (Active(a)' <=> Active(a)) /\ (CoveredBy(a)' <=> CoveredBy(a))
      BY <1>1, <1>4, <2>1 DEF Active, CoveredBy, Op
    <2> QED
      BY <1>1, <1>2, <1>3, <1>4, <2>2, MemoryActor
  <1>5. ASSUME Advance(a), o.do # "acquire",
               o.do = "held" => ~lock'[o.key].there,
               \A k \in Keys : ~lock[k].there => ~lock'[k].there,
               \A r \in Requests : r # a /\ Active(r) => lock'[Op(r)] = lock[Op(r)]
        PROVE  MemoryInv'
    <2>1. todo'[a] # <<>> => FoundBy(a)'
      BY <1>1, <1>5, FoundAfter
    <2>2. a \in Requests => ~Active(a)' /\ CoveredBy(a)'
      <3>1. a \in Requests => pc'[a] \in {"done", "refused", "locking"}
        BY <1>1, <1>5, Advanced, BusyPlaces
      <3> QED
        BY <3>1 DEF Active, CoveredBy
    <2> QED
      BY <1>1, <1>5, <2>1, <2>2, MemoryActor
  <1>6. CASE Get(a)
    <2>1. UNCHANGED lock /\ at[a] = "get"
      BY <1>6, GetMoves
    <2>2. CASE Goes(a, "delete") /\ o.do # "acquire" /\ o.do # "clean"
               /\ (ShouldRelinquish(lock[o.key]) \/ o.do = "release")
      <3>1. at'[a] = "delete" /\ todo' = todo /\ pc' = pc
        BY <1>1, <2>2 DEF Goes, LocalType
      <3>2. FoundBy(a)'
        BY <1>1, <2>1, <2>2, <3>1 DEF FoundBy, Current, Active, ShouldRelinquish
      <3> QED
        BY <1>4, <2>1, <2>2, <3>2
    <2>3. CASE Goes(a, "again") /\ o.do = "clean" /\ lock[o.key].there
               /\ ShouldRelinquish(lock[o.key])
      <3>1. at'[a] = "again" /\ todo' = todo /\ pc' = pc
        BY <1>1, <2>3 DEF Goes, LocalType
      <3>2. FoundBy(a)'
        BY <1>1, <2>1, <2>3, <3>1 DEF FoundBy, Current, Active, ShouldRelinquish, Do
      <3> QED
        BY <1>4, <2>1, <2>3, <3>2
    <2>4. CASE Goes(a, "put") /\ o.do = "acquire"
      <3>1. at'[a] = "put" /\ todo' = todo /\ pc' = pc
        BY <1>1, <2>4 DEF Goes, LocalType
      <3>2. FoundBy(a)'
        BY <1>1, <2>1, <2>4, <3>1 DEF FoundBy, Current, Do
      <3> QED
        BY <1>4, <2>1, <2>4, <3>2
    <2>5. CASE Busy(a) /\ o.do = "held"
      <3>1. a \in Requests
        BY <1>1, <2>5, OnlyRequests
      <3>2. pc' = pc /\ pc[a] = "locking" /\ todo'[a] # <<>> /\ Current(a)'.do = "flag"
        BY <1>1, <2>5, <3>1, BusyKeeps DEF Current
      <3>3. at'[a] = "get"
        BY <1>1, <2>5 DEF Busy, LocalType
      <3>4. FoundBy(a)'
        BY <3>2, <3>3 DEF FoundBy, Do
      <3>5. ~Active(a)' /\ CoveredBy(a)'
        BY <3>2 DEF Active, CoveredBy
      <3> QED
        BY <1>1, <2>1, <3>4, <3>5, MemoryActor
    <2>6. CASE Advance(a) /\ o.do # "acquire" /\ (o.do \in {"held", "release"} => ~lock[o.key].there)
      BY <1>5, <2>1, <2>6
    <2> QED
      BY <1>6, <2>2, <2>3, <2>4, <2>5, <2>6, GetMoves
  <1>7. CASE GetAgain(a)
    <2>1. at[a] = "again" /\ UNCHANGED lock /\ o.do = "clean"
      BY <1>1, <1>7 DEF GetAgain, Call, CallFits
    <2>2. lock[o.key].there /\ ShouldRelinquish(lock[o.key])
      BY <1>1, <2>1 DEF FoundBy
    <2>3. Goes(a, "delete")
      BY <1>7, <2>2 DEF GetAgain
    <2>4. at'[a] = "delete" /\ todo' = todo /\ pc' = pc
      BY <1>1, <2>3 DEF Goes, LocalType
    <2>5. FoundBy(a)'
      BY <1>1, <2>1, <2>2, <2>4 DEF FoundBy, Current, Active, ShouldRelinquish, Do
    <2> QED
      BY <1>4, <2>1, <2>3, <2>5
  <1>8. CASE Delete(a)
    <2>1. at[a] = "delete" /\ lock' = [lock EXCEPT ![o.key] = NoLock] /\ Advance(a)
          /\ o.do # "acquire"
      BY <1>1, <1>8 DEF Delete, Call, CallFits
    <2>2. o.key \in Keys
      BY <1>1, HeadIsFirst DEF Op1
    <2>3. ~lock'[o.key].there /\ \A k \in Keys : ~lock[k].there => ~lock'[k].there
      BY <2>1, <2>2, LockValues DEF StoreType
    <2>4. ASSUME NEW r \in Requests, Active(r)
          PROVE  lock'[Op(r)] = lock[Op(r)]
      <3>1. o.do # "release" /\ ShouldRelinquish(lock[o.key])
        BY <1>1, <2>1, <2>4 DEF FoundBy
      <3>2. ~ShouldRelinquish(lock[Op(r)])
        BY <2>4, CoveredIsFresh DEF MemoryInv
      <3>3. Op(r) # o.key /\ Op(r) \in Keys
        BY <3>1, <3>2, OpTypes
      <3> QED
        BY <2>1, <3>3 DEF StoreType
    <2> QED
      BY <1>5, <2>1, <2>3, <2>4
  <1>9. CASE Put(a)
    <2>1. at[a] = "put" /\ o.do = "acquire" /\ Goes(a, "reread")
          /\ lock' = [lock EXCEPT ![o.key] = Granted(Ttl)]
      BY <1>1, <1>9 DEF Put, Call, CallFits
    <2>2. a \in Requests /\ pc[a] = "locking" /\ InOrder(todo[a], a)
      BY <1>1, <2>1, OnlyRequests
    <2>3. o.key = Op(a) /\ Op(a) \in Keys
      BY <1>1, <2>1, <2>2, HeadIsFirst, OpTypes DEF InOrder
    <2>4. \A r \in Requests : ~Active(r)
      <3>1. \A k \in Keys : ~lock[k].there
        BY <1>1, <2>1 DEF FoundBy
      <3> QED
        BY <3>1, OpTypes DEF MemoryInv, CoveredBy
    <2>5. at'[a] = "reread" /\ todo' = todo /\ pc' = pc
      BY <1>1, <2>1 DEF Goes, LocalType
    <2>6. lock'[Op(a)] = Granted(Ttl) /\ Op(a)' = Op(a)
      BY <2>1, <2>3 DEF StoreType, Op
    <2>7. FoundBy(a)'
      BY <2>1, <2>4, <2>5, <2>6 DEF FoundBy, Current, Active, Do, Granted
    <2>8. ~Active(a)' /\ CoveredBy(a)'
      BY <2>2, <2>5 DEF Active, CoveredBy
    <2> QED
      BY <2>4, <2>7, <2>8, MemoryActor
  <1>10. CASE Reread(a)
    <2>1. at[a] = "reread" /\ UNCHANGED lock /\ Advance(a) /\ o.do = "acquire"
      BY <1>1, <1>10 DEF Reread, Call, CallFits
    <2>2. a \in Requests
      BY <1>1, <2>1, OnlyRequests
    <2>3. pc'[a] = "admitted" /\ todo'[a] = <<>>
      BY <1>1, <2>1, <2>2, Advanced
    <2>4. lock'[Op(a)] = Granted(Ttl) /\ (\A r \in Requests : ~Active(r)) /\ Op(a)' = Op(a)
      BY <1>1, <2>1 DEF FoundBy, Op
    <2>5. CoveredBy(a)'
      BY <2>3, <2>4, LocksAssumption DEF CoveredBy, Granted
    <2> QED
      BY <2>3, <2>4, <2>5, MemoryActor
  <1> QED
    BY <1>6, <1>7, <1>8, <1>9, <1>10 DEF OnStore

LEMMA MemoryInHandler ==
    ASSUME LocalInv, StoreType, MemoryInv, backend = "memory",
           NEW a \in Actors, InHandler(a)
    PROVE  MemoryInv'
  <1>1. LocalType /\ UNCHANGED lock /\ (a \in Requests => CoveredBy(a))
    BY DEF LocalInv, MemoryInv, InHandler, Arrive, Rejects, SetJobRaises, Enqueue, Start,
       Finish, Skip, CleanUp
  <1>2. Op(a)' = Op(a)
    BY DEF Op
  <1>3. CASE a \in Requests /\ Arrive(a)
    <2>1. /\ todo'[a] = TryStart(a) /\ pc'[a] = "locking" /\ UNCHANGED waited
          /\ at'[a] = "get"
      BY <1>1, <1>3 DEF Arrive, Perform, Goto, LocalType
    <2>2. Head(TryStart(a)) = Do("purge", "generate")
      <3> DEFINE s == TryStart(a)
      <3>1. s \in Seq(Op1) /\ Len(s) = 5 /\ s[1] = Do("purge", "generate")
        BY TryStartInOrder
      <3> HIDE DEF s
      <3>2. Head(s) = s[1]
        BY <3>1
      <3> QED
        BY <3>1, <3>2 DEF s
    <2>3. FoundBy(a)' /\ CoveredBy(a)' /\ ~Active(a)'
      BY <2>1, <2>2 DEF FoundBy, CoveredBy, Active, Current, Do
    <2> QED
      BY <1>1, <1>3, <2>1, <2>3, MemoryActor
  <1>4. CASE a \in Requests /\ (Rejects(a) \/ Finish(a))
    <2>1. /\ todo'[a] = <<Do("release", Op(a))>> /\ pc'[a] = "leaving" /\ UNCHANGED waited
          /\ at'[a] = "get" /\ Active(a)
      BY <1>1, <1>4 DEF Rejects, Finish, Leave, Perform, Goto, LocalType, Active
    <2>2. Current(a)'.do = "release"
      BY <2>1 DEF Current, Do
    <2>3. \A b \in Requests : ~Active(b)'
      <3>1. \A b \in Requests : b # a => ~Active(b)
        BY <1>4, <2>1 DEF MemoryInv
      <3>2. \A b \in Requests : b # a => pc'[b] = pc[b]
        BY <1>4, AloneInside DEF MemoryInv, Actors
      <3> QED
        BY <2>1, <3>1, <3>2 DEF Active
    <2>4. FoundBy(a)' /\ CoveredBy(a)' /\ ~Active(a)'
      BY <1>4, <2>1, <2>2, <2>3 DEF FoundBy, CoveredBy, Active, Do
    <2> QED
      BY <1>1, <2>1, <2>4, MemoryActor
  <1>5. CASE a \in Requests /\ Enqueue(a)
    <2>1. /\ todo'[a] = todo[a] /\ pc'[a] = "queued" /\ pc[a] = "admitted"
          /\ waited' = [waited EXCEPT ![a] = 0] /\ waited'[a] = 0
      BY <1>1, <1>5 DEF Enqueue, Goto, LocalType, StoreType, local
    <2>2. todo[a] = <<>> /\ Active(a)
      BY <1>5, <2>1 DEF LocalInv, Scripted, Fits, Active
    <2>4. CoveredBy(a)'
      BY <1>1, <1>2, <1>5, <2>1, <2>2 DEF CoveredBy
    <2> QED
      BY <1>1, <2>1, <2>2, <2>4, MemoryActor DEF StoreType
  <1>6. CASE a \in Requests /\ Start(a)
    <2>1. /\ todo'[a] = todo[a] /\ pc'[a] = "running" /\ pc[a] = "queued"
          /\ waited' = [waited EXCEPT ![a] = 0] /\ waited'[a] = 0
      BY <1>1, <1>6 DEF Start, Goto, LocalType, StoreType, local
    <2>2. todo[a] = <<>> /\ Active(a)
      BY <1>6, <2>1 DEF LocalInv, Scripted, Fits, Active
    <2>6. CoveredBy(a)'
      BY <1>1, <1>2, <1>6, <2>1, <2>2 DEF CoveredBy
    <2> QED
      BY <1>1, <2>1, <2>2, <2>6, MemoryActor DEF StoreType
  <1>7. CASE a = Admin /\ CleanUp
    <2>1. /\ todo'[a] = Both("clean") /\ UNCHANGED waited /\ at'[a] = "get"
      BY <1>1, <1>7 DEF CleanUp, Perform, Goto, LocalType
    <2>2. Current(a)' = Do("clean", "generate") /\ a \notin Requests
      BY <1>7, <2>1, LocksAssumption DEF Current, Both
    <2>3. FoundBy(a)'
      BY <2>1, <2>2 DEF FoundBy, Do
    <2> QED
      BY <1>1, <2>1, <2>2, <2>3, MemoryActor
  <1>8. ~(a \in Requests /\ SetJobRaises(a)) /\ ~(a \in Duplicates /\ Skip(a))
    BY DEF SetJobRaises, Skip
  <1> QED
    BY <1>3, <1>4, <1>5, <1>6, <1>7, <1>8 DEF InHandler

(* Time passes between the calls: a lock of an admitted request that gets  *)
(* to its end makes the request overdue.                                   *)
LEMMA MemoryTick ==
    ASSUME LocalInv, StoreType, MemoryInv, backend = "memory", Tick, ~overdue'
    PROVE  MemoryInv'
  <1>1. /\ UNCHANGED <<todo, at, pc>> /\ \A a \in Actors : ~Inside(a)
        /\ \A r \in Requests : ~(Active(r) /\ lock'[Op(r)].left = 0)
    BY DEF Tick, local
  <1>2. ASSUME NEW r \in Requests
        PROVE  CoveredBy(r)'
    <2>1. CoveredBy(r) /\ pc'[r] = pc[r] /\ Op(r)' = Op(r) /\ r \in Actors
      BY <1>1 DEF MemoryInv, Op, Actors
    <2>2. pc[r] # "admitted"
      BY <1>1, <2>1 DEF Inside
    <2> DEFINE l == lock[Op(r)]
               m == lock'[Op(r)]
    <2>3. l \in Locks /\ m = [l EXCEPT !.left = IF @ > 0 THEN @ - 1 ELSE 0]
      BY OpTypes DEF StoreType, Tick
    <2>4. /\ m.there = l.there /\ m.granted = l.granted
          /\ m.left = IF l.left > 0 THEN l.left - 1 ELSE 0
          /\ l.left \in Nat
      BY <2>3, LocksAssumption DEF Locks
    <2>5. Active(r) => l.there /\ l.granted = Ttl /\ m.left # 0
      BY <1>1, <2>1 DEF CoveredBy
    <2>6. Active(r) => m.there /\ m.granted = Ttl /\ m.left > 0
      BY <2>4, <2>5
    <2> QED
      BY <2>1, <2>2, <2>6 DEF CoveredBy, Active
  <1>3. \A a \in Actors : todo'[a] = <<>>
    BY <1>1 DEF Inside
  <1> QED
    BY <1>1, <1>2, <1>3 DEF MemoryInv, Alone, Inside, Active

LEMMA ExclusionStep == ScriptInv /\ ExclusionInv /\ [Next]_vars => ExclusionInv'
  <1> SUFFICES ASSUME LocalInv, StoreType, ExclusionInv, [Next]_vars,
                      backend' = "memory", ~overdue'
               PROVE  MemoryInv'
    BY ScriptParts DEF ExclusionInv
  <1>1. backend' = backend /\ (overdue => overdue')
    <2>1. ASSUME NEW a \in Actors, OnStore(a) PROVE UNCHANGED <<backend, overdue>>
      BY <2>1 DEF OnStore, Get, GetAgain, Delete, Put, Reread
    <2>2. ASSUME NEW a \in Actors, InHandler(a) PROVE UNCHANGED <<backend, overdue>>
      BY <2>2 DEF InHandler, Arrive, Rejects, SetJobRaises, Enqueue, Start, Finish, Skip, CleanUp
    <2>3. CASE Tick
      BY <2>3 DEF Tick
    <2>4. CASE UNCHANGED vars
      BY <2>4 DEF vars
    <2> QED
      BY <2>1, <2>2, <2>3, <2>4, StepKinds
  <1>2. backend = "memory" /\ MemoryInv
    BY <1>1 DEF ExclusionInv
  <1>3. CASE UNCHANGED vars
    BY <1>2, <1>3 DEF vars, local, MemoryInv, Alone, Inside, CoveredBy, FoundBy, Active,
       Current, Op, ShouldRelinquish
  <1> QED
    BY <1>2, <1>3, StepKinds, MemoryOnStore, MemoryInHandler, MemoryTick

(* With the memory store no two requests are admitted at once, be they of  *)
(* the same kind or of the two, as long as no request has outlived its own *)
(* lock: nothing but the passing of the TTL takes a lock from a request    *)
(* that is admitted, for any TTL, any step timeout, any number of          *)
(* requests, any clean-ups between them and any instants at which jobs     *)
(* start, end or are rejected.                                             *)
THEOREM Exclusion == Spec => []MutualExclusion
  <1>1. Init => ExclusionInv
    BY DEF Init, ExclusionInv, MemoryInv, Alone, Inside, CoveredBy, Active, Actors
  <1>2. ExclusionInv => MutualExclusion
    BY DEF ExclusionInv, MemoryInv, MutualExclusion
  <1> QED
    BY <1>1, <1>2, ExclusionStep, ScriptInit, ScriptStep, PTL DEF Spec
=============================================================================
