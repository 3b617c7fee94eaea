-------------------------- MODULE StateStoreProofs --------------------------
(***************************************************************************)
(* Proofs about StateStore, for any Runtimes, documents and number of      *)
(* operations, backups, restores, failing system calls and kills.          *)
(***************************************************************************)
EXTENDS StateStore, SequenceTheorems, TLAPS

-----------------------------------------------------------------------------
(* Facts about the calls an operation makes *)

\* The three special values and the documents are all different.
LEMMA Distinct ==
  /\ Missing # Torn /\ Missing # Unknown /\ Torn # Unknown
  /\ Missing \notin Docs /\ Torn \notin Docs /\ Unknown \notin Docs
BY ConstantsAssumption

\* Putting one element in front of a sequence.
LEMMA PushHead ==
  ASSUME NEW S, NEW x \in S, NEW t \in Seq(S)
  PROVE  /\ <<x>> \o t \in Seq(S) /\ <<x>> \o t # <<>>
         /\ Head(<<x>> \o t) = x /\ Tail(<<x>> \o t) = t
OBVIOUS

\* The elements of a sequence without its first.
LEMMA TailElements ==
  ASSUME NEW S, NEW s \in Seq(S), s # <<>>
  PROVE  /\ Tail(s) \in Seq(S) /\ Len(s) \in Nat /\ Len(s) >= 1 /\ Len(Tail(s)) = Len(s) - 1
         /\ DOMAIN s = 1..Len(s) /\ DOMAIN Tail(s) = 1..(Len(s) - 1)
         /\ \A j \in 1..(Len(s) - 1) : Tail(s)[j] = s[j + 1]
         /\ Head(s) = s[1] /\ Head(s) \in S
BY HeadTailProperties, LenProperties

\* A sequence of more than one element: its first two.
LEMMA TailHead ==
  ASSUME NEW S, NEW s \in Seq(S), s # <<>>, Len(s) # 1
  PROVE  Tail(s) # <<>> /\ Head(Tail(s)) = s[2] /\ 1 \in DOMAIN s /\ 2 \in DOMAIN s
<1>1. /\ Len(s) \in Nat /\ Len(s) >= 1 /\ Tail(s) \in Seq(S) /\ Len(Tail(s)) = Len(s) - 1
      /\ DOMAIN s = 1..Len(s) /\ \A j \in 1..(Len(s) - 1) : Tail(s)[j] = s[j + 1]
  BY TailElements
<1>2. Len(s) >= 2
  BY <1>1
<1>3. Tail(s) # <<>>
  BY <1>1, <1>2, EmptySeq
<1>4. Head(Tail(s)) = Tail(s)[1]
  BY <1>1, <1>3, TailElements
<1>5. Tail(s)[1] = s[2]
  BY <1>1, <1>2
<1> QED BY <1>1, <1>2, <1>3, <1>4, <1>5

\* What is left of the system calls of a call of the store after one of them.
LEMMA TailKeepsForm ==
  ASSUME NEW g, NEW s \in Seq(SysCall), s # <<>>, WellFormed(s, g)
  PROVE  WellFormed(Tail(s), g)
<1>1. PICK t : t = Tail(s)
  OBVIOUS
<1>2. /\ Len(s) \in Nat /\ DOMAIN s = 1..Len(s) /\ DOMAIN t = 1..(Len(s) - 1)
      /\ \A j \in 1..(Len(s) - 1) : t[j] = s[j + 1]
  BY <1>1, TailElements
<1>3. SUFFICES ASSUME NEW j \in 1..(Len(s) - 1)
               PROVE  /\ Allowed(t[j], g)
                      /\ Opens(t[j]) => j + 1 \in 1..(Len(s) - 1) /\ Completes(t[j], t[j + 1])
                      /\ Writes(t[j]) => j = 1 \/ Opens(t[j - 1])
  BY <1>1, <1>2 DEF WellFormed
<1>4. j \in Nat /\ j + 1 \in 1..Len(s) /\ t[j] = s[j + 1]
  BY <1>2, <1>3
<1>5. /\ Allowed(s[j + 1], g)
      /\ Opens(s[j + 1]) => j + 1 + 1 \in DOMAIN s /\ Completes(s[j + 1], s[j + 1 + 1])
      /\ Writes(s[j + 1]) => j + 1 = 1 \/ Opens(s[j + 1 - 1])
  BY <1>2, <1>4 DEF WellFormed
<1>6. Opens(t[j]) => j + 1 \in 1..(Len(s) - 1) /\ Completes(t[j], t[j + 1])
  BY <1>2, <1>4, <1>5
<1>7. Writes(t[j]) => j = 1 \/ Opens(t[j - 1])
  BY <1>2, <1>4, <1>5
<1> QED BY <1>4, <1>5, <1>6, <1>7

\* The first two system calls: one that opens a spec file is followed by one
\* that writes it, and only by such a one.
LEMMA FirstTwo ==
  ASSUME NEW g, NEW s \in Seq(SysCall), s # <<>>, Len(s) # 1, WellFormed(s, g)
  PROVE  /\ Opens(Head(s)) => Completes(Head(s), Head(Tail(s)))
         /\ Writes(Head(Tail(s))) => Opens(Head(s))
<1>1. Head(Tail(s)) = s[2] /\ Head(s) = s[1] /\ 1 \in DOMAIN s /\ 2 \in DOMAIN s
  BY TailElements, TailHead
<1> QED BY <1>1 DEF WellFormed

\* A call of the store from its system calls.
LEMMA GroupUnbegun ==
  ASSUME NEW g, NEW b \in BOOLEAN,
         NEW s \in Seq(SysCall), s # <<>>, WellFormed(s, g), ~Writes(Head(s))
  PROVE  [calls |-> s, must |-> b] \in Unbegun(g)
<1>1. [calls |-> s, must |-> b] \in StoreCall /\ [calls |-> s, must |-> b].calls = s
  BY DEF StoreCall
<1> QED BY <1>1 DEF Unbegun, Begun

\* What is left of a call of the store after one system call: it writes a spec
\* file next only if it has just opened it.
LEMMA TailWellFormed ==
  ASSUME NEW g, NEW c \in Begun(g), Len(c.calls) # 1
  PROVE  /\ [calls |-> Tail(c.calls), must |-> c.must] \in Begun(g)
         /\ Tail(c.calls) # <<>>
         /\ Opens(Head(c.calls)) => Completes(Head(c.calls), Head(Tail(c.calls)))
         /\ Writes(Head(Tail(c.calls))) => Opens(Head(c.calls))
<1>1. /\ c.calls \in Seq(SysCall) /\ c.calls # <<>> /\ WellFormed(c.calls, g)
      /\ c.must \in BOOLEAN
  BY DEF Begun, StoreCall
<1>2. Tail(c.calls) \in Seq(SysCall) /\ Tail(c.calls) # <<>> /\ WellFormed(Tail(c.calls), g)
  BY <1>1, TailElements, TailHead, TailKeepsForm
<1>3. [calls |-> Tail(c.calls), must |-> c.must] \in StoreCall
      /\ [calls |-> Tail(c.calls), must |-> c.must].calls = Tail(c.calls)
  BY <1>1, <1>2 DEF StoreCall
<1>4. [calls |-> Tail(c.calls), must |-> c.must] \in Begun(g)
  BY <1>2, <1>3 DEF Begun
<1>5. /\ Opens(Head(c.calls)) => Completes(Head(c.calls), Head(Tail(c.calls)))
      /\ Writes(Head(Tail(c.calls))) => Opens(Head(c.calls))
  BY <1>1, FirstTwo
<1> QED BY <1>2, <1>4, <1>5

\* A sequence of two system calls, and one of one.
LEMMA TwoCalls ==
  ASSUME NEW S, NEW a \in S, NEW b \in S
  PROVE  /\ <<a, b>> \in Seq(S) /\ <<a, b>> # <<>> /\ DOMAIN <<a, b>> = {1, 2}
         /\ <<a, b>>[1] = a /\ <<a, b>>[2] = b /\ Head(<<a, b>>) = a
         /\ <<a>> \in Seq(S) /\ <<a>> # <<>> /\ DOMAIN <<a>> = {1}
         /\ <<a>>[1] = a /\ Head(<<a>>) = a
OBVIOUS

\* When one system call, or two, are well formed.
LEMMA SmallForms ==
  ASSUME NEW g, NEW a \in SysCall, NEW b \in SysCall, Allowed(a, g), Allowed(b, g),
         ~Opens(b), ~Writes(a)
  PROVE  /\ ~Opens(a) => WellFormed(<<a>>, g)
         /\ (Opens(a) => Completes(a, b)) /\ (Writes(b) => Opens(a)) => WellFormed(<<a, b>>, g)
<1>1. PICK s, t : s = <<a, b>> /\ t = <<a>>
  OBVIOUS
<1>2. DOMAIN s = {1, 2} /\ s[1] = a /\ s[2] = b /\ DOMAIN t = {1} /\ t[1] = a
  BY <1>1
<1>3. ~Opens(a) => WellFormed(t, g)
  BY <1>2 DEF WellFormed
<1>4. ASSUME Opens(a) => Completes(a, b), Writes(b) => Opens(a)
      PROVE  WellFormed(s, g)
  <2> SUFFICES ASSUME NEW j \in {1, 2}
               PROVE  /\ Allowed(s[j], g)
                      /\ Opens(s[j]) => j + 1 \in DOMAIN s /\ Completes(s[j], s[j + 1])
                      /\ Writes(s[j]) => j = 1 \/ Opens(s[j - 1])
    BY <1>2 DEF WellFormed
  <2>1. CASE j = 1
    BY <1>2, <1>4, <2>1
  <2>2. CASE j = 2
    BY <1>2, <1>4, <2>2
  <2> QED BY <2>1, <2>2
<1> QED BY <1>1, <1>3, <1>4

\* The store's functions, called with documents that are granted.
LEMMA SaveStatusCall ==
  ASSUME NEW g, NEW k \in Keys, NEW d \in Docs, NEW b \in BOOLEAN
  PROVE  [calls |-> SaveStatus(k, d), must |-> b] \in Unbegun(g)
<1>1. PICK x, y : x = Call("open status", k, d) /\ y = Call("write status", k, d)
  OBVIOUS
<1>2. /\ x \in SysCall /\ Allowed(x, g) /\ ~Writes(x) /\ ~Opens(x)
      /\ y \in SysCall /\ Allowed(y, g) /\ ~Writes(y) /\ ~Opens(y)
  BY <1>1 DEF Call, SysCall, SysCalls, Values, Allowed, Opens, Writes
<1>3. WellFormed(<<x, y>>, g)
  BY <1>2, SmallForms
<1>4. <<x, y>> \in Seq(SysCall) /\ <<x, y>> # <<>> /\ Head(<<x, y>>) = x
  BY <1>2, TwoCalls
<1>5. [calls |-> <<x, y>>, must |-> b] \in Unbegun(g)
  BY <1>2, <1>3, <1>4, GroupUnbegun
<1> QED BY <1>1, <1>5 DEF SaveStatus

\* AppendEvent opens and writes the events file only, which every operation may.
LEMMA AppendEventCall ==
  ASSUME NEW g, NEW k \in Keys, NEW d \in Docs, NEW b \in BOOLEAN
  PROVE  [calls |-> AppendEvent(k, d), must |-> b] \in Unbegun(g)
<1>1. PICK x : x = Call("append event", k, d)
  OBVIOUS
<1>2. x \in SysCall /\ Allowed(x, g) /\ ~Writes(x) /\ ~Opens(x)
  BY <1>1 DEF Call, SysCall, SysCalls, Values, Allowed, Opens, Writes
<1>3. WellFormed(<<x>>, g)
  BY <1>2, SmallForms
<1>4. <<x>> \in Seq(SysCall) /\ <<x>> # <<>> /\ Head(<<x>>) = x
  BY <1>2, TwoCalls
<1>5. [calls |-> <<x>>, must |-> b] \in Unbegun(g)
  BY <1>2, <1>3, <1>4, GroupUnbegun
<1> QED BY <1>1, <1>5 DEF AppendEvent

\* SaveRuntime truncates then writes the spec file, with a document the operation was
\* granted.
LEMMA SaveRuntimeCall ==
  ASSUME NEW g, NEW k \in Keys, NEW d \in Docs, NEW b \in BOOLEAN, d \in g[k]
  PROVE  [calls |-> SaveRuntime(k, d), must |-> b] \in Unbegun(g)
<1>1. PICK x, y : x = Call("open spec", k, d) /\ y = Call("write spec", k, d)
  OBVIOUS
<1>2. /\ x \in SysCall /\ Allowed(x, g) /\ ~Writes(x) /\ Opens(x)
      /\ y \in SysCall /\ Allowed(y, g) /\ ~Opens(y) /\ Completes(x, y)
  BY <1>1 DEF Call, SysCall, SysCalls, Values, Allowed, Opens, Writes, Completes
<1>3. WellFormed(<<x, y>>, g)
  BY <1>2, SmallForms
<1>4. <<x, y>> \in Seq(SysCall) /\ <<x, y>> # <<>> /\ Head(<<x, y>>) = x
  BY <1>2, TwoCalls
<1>5. [calls |-> <<x, y>>, must |-> b] \in Unbegun(g)
  BY <1>2, <1>3, <1>4, GroupUnbegun
<1> QED BY <1>1, <1>5 DEF SaveRuntime

\* DeleteRuntime unlinks the spec file and the status file, when the operation may.
LEMMA DeleteRuntimeCall ==
  ASSUME NEW g, NEW k \in Keys, NEW b \in BOOLEAN, Missing \in g[k]
  PROVE  [calls |-> DeleteRuntime(k), must |-> b] \in Unbegun(g)
<1>1. PICK x, y : x = Call("unlink spec", k, Missing) /\ y = Call("unlink status", k, Missing)
  OBVIOUS
<1>2. /\ x \in SysCall /\ Allowed(x, g) /\ ~Writes(x) /\ ~Opens(x)
      /\ y \in SysCall /\ Allowed(y, g) /\ ~Writes(y) /\ ~Opens(y)
  BY <1>1 DEF Call, SysCall, SysCalls, Values, Allowed, Opens, Writes
<1>3. WellFormed(<<x, y>>, g)
  BY <1>2, SmallForms
<1>4. <<x, y>> \in Seq(SysCall) /\ <<x, y>> # <<>> /\ Head(<<x, y>>) = x
  BY <1>2, TwoCalls
<1>5. [calls |-> <<x, y>>, must |-> b] \in Unbegun(g)
  BY <1>2, <1>3, <1>4, GroupUnbegun
<1> QED BY <1>1, <1>5 DEF DeleteRuntime

\* A restore writes the events file from its first entry, whatever the archive holds.
LEMMA WriteEventsCall ==
  ASSUME NEW g, NEW k \in Keys, NEW es \in Seq(Docs), NEW b \in BOOLEAN
  PROVE  [calls |-> WriteEvents(k, es), must |-> b] \in Unbegun(g)
<1>1. PICK x, t : /\ x = Call("open events", k, Missing)
                  /\ t = [i \in 1..Len(es) |-> Call("append event", k, es[i])]
  OBVIOUS
<1>2. x \in SysCall /\ Allowed(x, g) /\ ~Writes(x) /\ ~Opens(x)
  BY <1>1 DEF Call, SysCall, SysCalls, Values, Allowed, Opens, Writes
<1>3. \A d \in Docs : LET c == Call("append event", k, d) IN
        c \in SysCall /\ Allowed(c, g) /\ ~Writes(c) /\ ~Opens(c)
  BY DEF Call, SysCall, SysCalls, Values, Allowed, Opens, Writes
<1>4. Len(es) \in Nat /\ \A i \in 1..Len(es) : es[i] \in Docs
  BY LenProperties
<1>5. DOMAIN t = 1..Len(es) /\ \A i \in 1..Len(es) : t[i] = Call("append event", k, es[i])
  BY <1>1
<1>6. \A i \in 1..Len(es) : t[i] \in SysCall /\ Allowed(t[i], g) /\ ~Writes(t[i]) /\ ~Opens(t[i])
  BY <1>3, <1>4, <1>5
<1>7. t \in [1..Len(es) -> SysCall]
  <2>1. t = [i \in 1..Len(es) |-> t[i]]
    BY <1>1
  <2> QED BY <1>6, <2>1
<1>8. t \in Seq(SysCall) /\ Len(t) = Len(es)
  <2>1. t \in Seq(SysCall)
    BY <1>4, <1>7, SeqDef
  <2>2. Len(t) \in Nat /\ DOMAIN t = 1..Len(t)
    BY <2>1, LenProperties
  <2>3. 1..Len(t) = 1..Len(es)
    BY <1>5, <2>2
  <2>4. Len(t) = Len(es)
    BY <1>4, <2>2, <2>3
  <2> QED BY <2>1, <2>4
<1>9. PICK s : s = <<x>> \o t
  OBVIOUS
<1>10. /\ s \in Seq(SysCall) /\ s # <<>> /\ Head(s) = x /\ Tail(s) = t
  BY <1>2, <1>8, <1>9, PushHead
<1>11. /\ DOMAIN s = 1..(1 + Len(es)) /\ s[1] = x
       /\ \A j \in 1..Len(es) : t[j] = s[j + 1]
  <2>1. /\ Len(s) \in Nat /\ Len(t) = Len(s) - 1 /\ DOMAIN s = 1..Len(s) /\ s[1] = x
        /\ \A j \in 1..(Len(s) - 1) : t[j] = s[j + 1]
    BY <1>10, TailElements
  <2>2. Len(s) = 1 + Len(es)
    BY <1>4, <1>8, <2>1
  <2> QED BY <1>4, <2>1, <2>2
<1>12. \A j \in DOMAIN s : Allowed(s[j], g) /\ ~Writes(s[j]) /\ ~Opens(s[j])
  <2> SUFFICES ASSUME NEW j \in 1..(1 + Len(es))
               PROVE  Allowed(s[j], g) /\ ~Writes(s[j]) /\ ~Opens(s[j])
    BY <1>11
  <2>1. CASE j = 1
    BY <1>2, <1>11, <2>1
  <2>2. CASE j # 1
    <3>1. j - 1 \in 1..Len(es) /\ j - 1 + 1 = j
      BY <1>4, <2>2
    <3>2. t[j - 1] = s[j]
      BY <1>11, <3>1
    <3> QED BY <1>6, <3>1, <3>2
  <2> QED BY <2>1, <2>2
<1>13. WellFormed(s, g)
  BY <1>12 DEF WellFormed
<1>14. [calls |-> s, must |-> b] \in Unbegun(g)
  BY <1>2, <1>10, <1>13, GroupUnbegun
<1> QED BY <1>1, <1>9, <1>14 DEF WriteEvents

\* Sequences of calls of the store, from one to five.
LEMMA SmallSequences ==
  ASSUME NEW S, NEW a \in S, NEW b \in S, NEW c \in S, NEW d \in S
  PROVE  /\ <<a>> \in Seq(S) /\ <<a, b>> \in Seq(S) /\ <<a, b, c>> \in Seq(S)
         /\ <<a, b, c, d>> \in Seq(S) /\ <<>> \in Seq(S)
OBVIOUS

\* The calls of the store that Apply makes store only documents that are
\* granted, whichever way it ends.
LEMMA ApplyCalls ==
  ASSUME NEW g, NEW k \in Keys, NEW d \in Docs
  PROVE  /\ d \in g[k] => /\ ApplyWrites(k, d) \in Seq(Unbegun(g))
                          /\ RecordFailed(k, d) \in Seq(Unbegun(g))
                          /\ FailedWrites(k, d) \in Seq(Unbegun(g))
         /\ \A p \in Docs : p \in g[k] => RollbackWrites(k, d, p) \in Seq(Unbegun(g))
<1>1. Try(AppendEvent(k, d)) \in Unbegun(g)
  BY AppendEventCall DEF Try
<1>2. \A x \in Docs : Try(SaveStatus(k, x)) \in Unbegun(g) /\ Must(SaveStatus(k, x)) \in Unbegun(g)
  BY SaveStatusCall DEF Try, Must
<1>3. \A x \in Docs : x \in g[k] =>
        Try(SaveRuntime(k, x)) \in Unbegun(g) /\ Must(SaveRuntime(k, x)) \in Unbegun(g)
  BY SaveRuntimeCall DEF Try, Must
<1>4. ASSUME d \in g[k]
      PROVE  /\ ApplyWrites(k, d) \in Seq(Unbegun(g))
             /\ RecordFailed(k, d) \in Seq(Unbegun(g))
             /\ FailedWrites(k, d) \in Seq(Unbegun(g))
  <2>1. ApplyWrites(k, d) \in Seq(Unbegun(g))
    BY <1>1, <1>2, <1>3, <1>4, SmallSequences DEF ApplyWrites
  <2>2. RecordFailed(k, d) \in Seq(Unbegun(g))
    BY <1>1, <1>2, <1>3, <1>4, SmallSequences DEF RecordFailed
  <2>3. <<Try(AppendEvent(k, d)), Try(SaveStatus(k, d))>> \in Seq(Unbegun(g))
    BY <1>1, <1>2, SmallSequences
  <2>4. FailedWrites(k, d) \in Seq(Unbegun(g))
    BY <2>2, <2>3, ConcatProperties DEF FailedWrites
  <2> QED BY <2>1, <2>2, <2>4
<1>5. ASSUME NEW p \in Docs, p \in g[k]
      PROVE  RollbackWrites(k, d, p) \in Seq(Unbegun(g))
  BY <1>1, <1>2, <1>3, <1>5, SmallSequences DEF RollbackWrites
<1> QED BY <1>4, <1>5

\* The calls that Remove makes.
LEMMA RemoveCalls ==
  ASSUME NEW g, NEW k \in Keys, Missing \in g[k]
  PROVE  /\ <<>> \o <<Must(DeleteRuntime(k))>> \in Seq(Unbegun(g))
         /\ \A p \in Docs :
              <<Try(SaveStatus(k, p))>> \o <<Must(DeleteRuntime(k))>> \in Seq(Unbegun(g))
<1>1. Must(DeleteRuntime(k)) \in Unbegun(g)
  BY DeleteRuntimeCall DEF Must
<1>2. \A x \in Docs : Try(SaveStatus(k, x)) \in Unbegun(g)
  BY SaveStatusCall DEF Try
<1>3. <<Must(DeleteRuntime(k))>> \in Seq(Unbegun(g)) /\ <<>> \in Seq(Unbegun(g))
  BY <1>1, SmallSequences
<1>4. \A x \in Docs : <<Try(SaveStatus(k, x))>> \in Seq(Unbegun(g))
  BY <1>2, SmallSequences
<1> QED BY <1>3, <1>4, ConcatProperties

\* The calls that RestoreFrom makes for a Runtime of the archive.
LEMMA RestoreCalls ==
  ASSUME NEW g, NEW k \in Keys, archive.docs[k] \in Docs, archive.docs[k] \in g[k],
         archive.statuses[k] \in Values, archive.events[k] \in Seq(Docs)
  PROVE  RestoreWrites(k) \in Seq(Unbegun(g))
<1>1. PICK st, es, d : st = archive.statuses[k] /\ es = archive.events[k] /\ d = archive.docs[k]
  OBVIOUS
<1>2. Must(SaveRuntime(k, d)) \in Unbegun(g)
  BY <1>1, SaveRuntimeCall DEF Must
<1>3. st # Missing => Must(SaveStatus(k, st)) \in Unbegun(g)
  BY <1>1, SaveStatusCall DEF Must, Values
<1>4. Must(WriteEvents(k, es)) \in Unbegun(g)
  BY <1>1, WriteEventsCall DEF Must
<1>5. <<Must(SaveRuntime(k, d))>> \in Seq(Unbegun(g))
  BY <1>2, SmallSequences
<1>6. (IF st # Missing THEN <<Must(SaveStatus(k, st))>> ELSE <<>>) \in Seq(Unbegun(g))
  BY <1>2, <1>3, SmallSequences
<1>7. (IF es # <<>> THEN <<Must(WriteEvents(k, es))>> ELSE <<>>) \in Seq(Unbegun(g))
  BY <1>4, SmallSequences
<1>8. StatusWrites(k) \o EventWrites(k) \in Seq(Unbegun(g))
  BY <1>1, <1>6, <1>7, ConcatProperties DEF StatusWrites, EventWrites
<1> QED BY <1>1, <1>5, <1>8, ConcatProperties DEF RestoreWrites

-----------------------------------------------------------------------------
(* The inductive invariant *)

\* The calls left of an operation that is about to make the first of them.
LEMMA FreshCalls ==
  ASSUME NEW g, NEW t \in Seq(Unbegun(g))
  PROVE  /\ t \in Seq(StoreCall)
         /\ t # <<>> => /\ Head(t) \in Begun(g) /\ ~Writes(Head(Head(t).calls))
                        /\ Tail(t) \in Seq(Unbegun(g))
<1>1. Unbegun(g) \subseteq StoreCall
  BY DEF Unbegun, Begun
<1>2. t \in Seq(StoreCall)
  BY <1>1, SeqMonotonic
<1>3. t # <<>> => Head(t) \in Unbegun(g) /\ Tail(t) \in Seq(Unbegun(g))
  BY TailElements
<1> QED BY <1>2, <1>3 DEF Unbegun

\* An operation that begins, or goes on with the next Runtime.
LEMMA FreshGranted ==
  ASSUME todo' \in Seq(Unbegun(op'.grants))
  PROVE  todo' \in Seq(StoreCall) /\ CallsGranted'
BY FreshCalls DEF CallsGranted, Writing, Writes

\* What an operation for a client starts with.
LEMMA BeginsType ==
  ASSUME NEW k \in Keys, NEW v \in Values, NEW ack \in Values \cup {Unknown}, NEW calls,
         Begins(k, v, ack, calls)
  PROVE  /\ op' \in Operations /\ op'.kind = "client" /\ op'.rest = {}
         /\ op'.about = {k} /\ op'.acks = Everywhere(ack)
         /\ op'.grants = Only(k, {v}) /\ op'.grants[k] = {v} /\ todo' = calls
<1>1. Only(k, {v}) \in [Keys -> SUBSET Values] /\ Only(k, {v})[k] = {v}
  BY DEF Only
<1>2. Everywhere(ack) \in [Keys -> Values \cup {Unknown}]
  BY DEF Everywhere
<1>3. op' = [kind |-> "client", grants |-> Only(k, {v}), about |-> {k},
             acks |-> Everywhere(ack), rest |-> {}] /\ todo' = calls
  BY DEF Begins, Operation
<1> QED BY <1>1, <1>2, <1>3 DEF Operations

\* What an operation on several Runtimes starts with.
LEMMA BeginsLoopType ==
  ASSUME NEW kind \in {"resync", "load", "restore"}, NEW g \in [Keys -> SUBSET Values],
         NEW about \in SUBSET Keys, NEW acks \in [Keys -> Values \cup {Unknown}],
         NEW rest \in SUBSET Keys, BeginsLoop(kind, g, about, acks, rest)
  PROVE  /\ op' \in Operations /\ op'.kind = kind /\ op'.grants = g /\ op'.about = about
         /\ op'.acks = acks /\ op'.rest = rest /\ todo' = <<>>
BY DEF BeginsLoop, Operation, Operations

\* No operation is in progress.
LEMMA IdleType ==
  /\ Idle \in Operations /\ Idle.kind = "none" /\ Idle.rest = {} /\ Idle.about = {}
  /\ Idle.grants = Everywhere({}) /\ Idle.acks = Everywhere(Unknown)
<1>1. Everywhere({}) \in [Keys -> SUBSET Values]
      /\ Everywhere(Unknown) \in [Keys -> Values \cup {Unknown}]
  BY DEF Everywhere
<1> QED BY <1>1 DEF Idle, Operation, Operations

\* How much of each bound is used up.
LEMMA UsesType ==
  ASSUME used \in Usage
  PROVE  /\ used.ops < MaxOps /\ Uses("ops") => used' \in Usage
         /\ used.backups < MaxBackups /\ Uses("backups") => used' \in Usage
         /\ used.restores < MaxRestores /\ Uses("restores") => used' \in Usage
         /\ used.faults < MaxFaults /\ Uses("faults") => used' \in Usage
         /\ used.kills < MaxKills /\ Uses("kills") => used' \in Usage
<1>1. MaxOps \in Nat /\ MaxBackups \in Nat /\ MaxRestores \in Nat /\ MaxFaults \in Nat
      /\ MaxKills \in Nat
  BY ConstantsAssumption
<1>2. used.ops < MaxOps /\ Uses("ops") => used' \in Usage
  BY <1>1 DEF Uses, Usage
<1>3. used.backups < MaxBackups /\ Uses("backups") => used' \in Usage
  BY <1>1 DEF Uses, Usage
<1>4. used.restores < MaxRestores /\ Uses("restores") => used' \in Usage
  BY <1>1 DEF Uses, Usage
<1>5. used.faults < MaxFaults /\ Uses("faults") => used' \in Usage
  BY <1>1 DEF Uses, Usage
<1>6. used.kills < MaxKills /\ Uses("kills") => used' \in Usage
  BY <1>1 DEF Uses, Usage
<1> QED BY <1>2, <1>3, <1>4, <1>5, <1>6

\* What the backup could have found keeps its type.
LEMMA ObserveType ==
  ASSUME TypeOK, spec' \in [Keys -> Held], Observe
  PROVE  held' \in [Keys -> SUBSET Held]
<1>1. held \in [Keys -> SUBSET Held]
  BY DEF TypeOK
<1>2. CASE cmd'.pc = "idle"
  BY <1>2 DEF Observe, Everywhere
<1>3. CASE cmd'.pc # "idle"
  BY <1>1, <1>3 DEF Observe
<1> QED BY <1>2, <1>3

\* The effect of a system call.
LEMMA EffectType ==
  ASSUME TypeOK, NEW c \in SysCall, Allowed(c, op.grants), Effect(c)
  PROVE  /\ spec' \in [Keys -> Held] /\ status' \in [Keys -> Held]
         /\ events' \in [Keys -> Seq(Docs)] /\ before' \in Held
<1>1. /\ spec \in [Keys -> Held] /\ status \in [Keys -> Held] /\ events \in [Keys -> Seq(Docs)]
      /\ before \in Held
  BY DEF TypeOK
<1>2. c.key \in Keys /\ c.value \in Held /\ Torn \in Held
  BY DEF SysCall, Held
<1>3. spec' \in [Keys -> Held]
  BY <1>1, <1>2 DEF Effect
<1>4. status' \in [Keys -> Held]
  BY <1>1, <1>2 DEF Effect
<1>5. events' \in [Keys -> Seq(Docs)]
  <2>1. CASE c.do = "append event"
    <3>1. c.value \in Docs /\ events[c.key] \in Seq(Docs)
      BY <1>1, <1>2, <2>1 DEF Allowed
    <3>2. Append(events[c.key], c.value) \in Seq(Docs)
      BY <3>1, AppendProperties
    <3>3. events' = [events EXCEPT ![c.key] = Append(events[c.key], c.value)]
      BY <2>1 DEF Effect
    <3> QED BY <1>1, <1>2, <3>2, <3>3
  <2>2. CASE c.do = "open events"
    <3>1. <<>> \in Seq(Docs)
      BY EmptySeq
    <3>2. events' = [events EXCEPT ![c.key] = <<>>]
      BY <2>2 DEF Effect
    <3> QED BY <1>1, <1>2, <3>1, <3>2
  <2>3. CASE c.do \notin {"open events", "append event"}
    <3>1. events' = events
      BY <2>3 DEF Effect
    <3> QED BY <1>1, <3>1
  <2> QED BY <2>1, <2>2, <2>3
<1>6. before' \in Held
  BY <1>1, <1>2 DEF Effect
<1> QED BY <1>3, <1>4, <1>5, <1>6

\* The next system call of an operation.
LEMMA NextCall ==
  ASSUME TypeOK, CallsGranted, todo # <<>>
  PROVE  /\ Head(todo) \in StoreCall /\ Head(todo).calls \in Seq(SysCall)
         /\ Head(todo).calls # <<>> /\ Head(todo).must \in BOOLEAN
         /\ Head(Head(todo).calls) \in SysCall /\ Allowed(Head(Head(todo).calls), op.grants)
         /\ Head(todo) \in Begun(op.grants) /\ Tail(todo) \in Seq(Unbegun(op.grants))
<1>1. Head(todo) \in Begun(op.grants) /\ Tail(todo) \in Seq(Unbegun(op.grants))
  BY DEF CallsGranted
<1>2. /\ Head(todo) \in StoreCall /\ Head(todo).calls # <<>>
      /\ WellFormed(Head(todo).calls, op.grants)
  BY <1>1 DEF Begun
<1>3. Head(todo).calls \in Seq(SysCall) /\ Head(todo).must \in BOOLEAN
  BY <1>2 DEF StoreCall
<1>4. PICK s : s = Head(todo).calls
  OBVIOUS
<1>5. s \in Seq(SysCall) /\ s # <<>> /\ WellFormed(s, op.grants)
  BY <1>2, <1>3, <1>4
<1>6. Head(s) \in SysCall /\ Head(s) = s[1] /\ 1 \in DOMAIN s
  BY <1>5, TailElements
<1>7. Allowed(s[1], op.grants)
  BY <1>5, <1>6 DEF WellFormed
<1> QED BY <1>1, <1>2, <1>3, <1>4, <1>6, <1>7

\* The system call that completes an open.
LEMMA CompletesWrites ==
  ASSUME NEW a, NEW b, Completes(a, b)
  PROVE  Writes(b) /\ b.key = a.key /\ b.value = a.value
<1>1. PICK i, v : i = a.key /\ v = a.value
  OBVIOUS
<1>2. b = [do |-> "write spec", key |-> i, value |-> v]
  BY <1>1 DEF Completes, Call
<1>3. b.do = "write spec" /\ b.key = i /\ b.value = v
  BY <1>2
<1> QED BY <1>1, <1>3 DEF Writes

\* What is left to do after a system call: a spec file that is written next has
\* just been opened.
LEMMA ProceedCalls ==
  ASSUME TypeOK, CallsGranted, Proceed
  PROVE  /\ todo' \in Seq(StoreCall) /\ CallsGranted' /\ op' = op
         /\ Effect(Head(Head(todo).calls))
         /\ \A k \in Keys : Writing(k)' <=> /\ Opens(Head(Head(todo).calls))
                                            /\ Head(Head(todo).calls).key = k
<1> DEFINE g == op.grants
           c == Head(todo)
           rest == Tail(todo)
           left == [calls |-> Tail(c.calls), must |-> c.must]
<1>1. /\ todo # <<>> /\ Effect(Head(c.calls)) /\ op' = op
      /\ todo' = IF Len(c.calls) = 1 THEN rest ELSE <<left>> \o rest
  BY DEF Proceed
<1>2. /\ c \in Begun(g) /\ rest \in Seq(Unbegun(g)) /\ Head(c.calls) \in SysCall
      /\ c.calls \in Seq(SysCall) /\ c.calls # <<>>
  BY <1>1, NextCall
<1> HIDE DEF c, rest, left, g
<1>3. CASE Len(c.calls) = 1
  <2>1. todo' = rest
    BY <1>1, <1>3
  <2>2. todo' \in Seq(Unbegun(op'.grants))
    BY <1>1, <1>2, <2>1 DEF g
  <2>3. todo' \in Seq(StoreCall) /\ CallsGranted'
    BY <2>2, FreshGranted
  <2>4. \A k \in Keys : ~Writing(k)'
    BY <2>2, FreshCalls DEF Writing, Writes
  <2>5. ~Opens(Head(c.calls))
    <3>1. PICK s : s = c.calls
      OBVIOUS
    <3>2. WellFormed(s, g) /\ s \in Seq(SysCall) /\ s # <<>> /\ Len(s) = 1
      BY <1>2, <1>3, <3>1 DEF Begun
    <3>3. DOMAIN s = 1..1 /\ Head(s) = s[1]
      BY <3>2, TailElements
    <3>4. 1 \in DOMAIN s /\ 1 + 1 \notin DOMAIN s
      BY <3>3
    <3> QED BY <3>1, <3>2, <3>3, <3>4 DEF WellFormed
  <2> QED BY <1>1, <2>3, <2>4, <2>5 DEF c
<1>4. CASE Len(c.calls) # 1
  <2>1. /\ left \in Begun(g) /\ Tail(c.calls) # <<>>
        /\ Opens(Head(c.calls)) => Completes(Head(c.calls), Head(Tail(c.calls)))
        /\ Writes(Head(Tail(c.calls))) => Opens(Head(c.calls))
    BY <1>2, <1>4, TailWellFormed DEF left
  <2>2. left \in StoreCall /\ left.calls = Tail(c.calls)
    BY <2>1 DEF Begun, left
  <2>3. rest \in Seq(StoreCall)
    BY <1>2, FreshCalls
  <2>4. todo' \in Seq(StoreCall) /\ todo' # <<>> /\ Head(todo') = left /\ Tail(todo') = rest
    BY <1>1, <1>4, <2>2, <2>3, PushHead
  <2>5. \A k : Writing(k)' <=> /\ Writes(Head(Tail(c.calls)))
                               /\ Head(Tail(c.calls)).key = k
    BY <2>2, <2>4 DEF Writing, Writes
  <2>6. Opens(Head(c.calls)) =>
          /\ Writes(Head(Tail(c.calls)))
          /\ Head(Tail(c.calls)).key = Head(c.calls).key
    <3>1. PICK a, b : a = Head(c.calls) /\ b = Head(Tail(c.calls))
      OBVIOUS
    <3>2. Opens(a) => Completes(a, b)
      BY <2>1, <3>1
    <3>3. Opens(a) => Writes(b) /\ b.key = a.key
      BY <3>2, CompletesWrites
    <3> QED BY <3>1, <3>3
  <2>7. \A k \in Keys : Writing(k)' <=> Opens(Head(c.calls)) /\ Head(c.calls).key = k
    BY <2>1, <2>5, <2>6
  <2>8. \A k \in Keys : Writing(k)' => spec'[k] = Torn
    <3> SUFFICES ASSUME NEW k \in Keys, Writing(k)' PROVE spec'[k] = Torn
      OBVIOUS
    <3>1. Head(c.calls).do = "open spec" /\ Head(c.calls).key = k
      BY <2>7 DEF Opens
    <3>2. spec' = [spec EXCEPT ![k] = Torn]
      BY <1>1, <3>1 DEF Effect
    <3> QED BY <3>2 DEF TypeOK
  <2>9. CallsGranted'
    <3>1. Head(todo') \in Begun(op'.grants) /\ Tail(todo') \in Seq(Unbegun(op'.grants))
      BY <1>1, <1>2, <2>1, <2>4 DEF g
    <3>2. \A k \in Keys : Writing(k)' => spec[k]' = Torn
      BY <2>8
    <3> QED BY <3>1, <3>2 DEF CallsGranted
  <2> QED BY <1>1, <2>4, <2>7, <2>9 DEF c
<1> QED BY <1>3, <1>4

\* The joint inductive invariant.
Inv == TypeOK /\ Control /\ CallsGranted

\* The initial states satisfy it.
LEMMA InitInv == Init => Inv
<1> SUFFICES ASSUME Init PROVE Inv
  OBVIOUS
<1>1. Everywhere(Missing) \in [Keys -> Held] /\ Everywhere(Missing) \in [Keys -> Values]
  BY DEF Everywhere, Held, Values
<1>2. Everywhere(<<>>) \in [Keys -> Seq(Docs)] /\ Everywhere({}) \in [Keys -> SUBSET Held]
      /\ Everywhere(Unknown) \in [Keys -> Values \cup {Unknown}]
  BY EmptySeq DEF Everywhere
<1>3. NoBackup \in Backups
  BY <1>1 DEF NoBackup, Backups
<1>4. [ops |-> 0, backups |-> 0, restores |-> 0, faults |-> 0, kills |-> 0] \in Usage
  BY ConstantsAssumption DEF Usage
<1>5. <<>> \in Seq(StoreCall) /\ Missing \in Held
  BY EmptySeq DEF Held, Values
<1>6. TypeOK
  BY <1>1, <1>2, <1>3, <1>4, <1>5, IdleType DEF Init, TypeOK
<1>7. Control
  BY IdleType DEF Init, Control
<1>8. CallsGranted
  BY DEF Init, CallsGranted
<1> QED BY <1>6, <1>7, <1>8 DEF Inv

\* What an operation reads of memory and of the archive is of the right type.
LEMMA MemoryType ==
  ASSUME TypeOK
  PROVE  /\ \A k \in Keys : specs[k] \in Values /\ spec[k] \in Held
         /\ \A k \in Keys : specs[k] # Missing => specs[k] \in Docs
         /\ archive \notin {Missing, Torn} =>
              /\ archive \in Archives /\ archive.docs \in [Keys -> Values]
              /\ \A k \in Keys : /\ archive.docs[k] \in Values /\ archive.statuses[k] \in Values
                                 /\ archive.events[k] \in Seq(Docs)
<1>1. specs \in [Keys -> Values] /\ spec \in [Keys -> Held]
  BY DEF TypeOK
<1>2. archive \in {Missing, Torn} \/ archive \in Archives
  BY DEF TypeOK
<1>3. archive \in Archives =>
        /\ archive.docs \in [Keys -> Values] /\ archive.statuses \in [Keys -> Values]
        /\ archive.events \in [Keys -> Seq(Docs)]
  BY DEF Archives
<1> QED BY <1>1, <1>2, <1>3 DEF Values

\* Apply begins.
LEMMA ApplyInv ==
  ASSUME Inv, NEW k \in Keys, NEW d \in Docs, Apply(k, d), Observe
  PROVE  Inv'
<1>1. /\ Serves
      /\ UNCHANGED <<spec, status, events, legacy, archive, up, cmd, acked, before>>
  BY DEF Apply, files
<1>2. PICK v \in Docs, ack \in Docs \cup {Unknown} : \E calls :
        /\ Begins(k, v, ack, calls) /\ specs' = [specs EXCEPT ![k] = v]
        /\ calls \in {ApplyWrites(k, v), FailedWrites(k, v), RollbackWrites(k, d, v)}
  BY DEF Apply
<1>3. PICK calls : /\ Begins(k, v, ack, calls) /\ specs' = [specs EXCEPT ![k] = v]
                   /\ calls \in {ApplyWrites(k, v), FailedWrites(k, v), RollbackWrites(k, d, v)}
  BY <1>2
<1>4. v \in Values /\ ack \in Values \cup {Unknown}
  BY DEF Values
<1>5. /\ op' \in Operations /\ op'.kind = "client" /\ op'.rest = {} /\ op'.grants[k] = {v}
      /\ todo' = calls
  BY <1>3, <1>4, BeginsType
<1>6. todo' \in Seq(Unbegun(op'.grants))
  BY <1>3, <1>5, ApplyCalls
<1>7. todo' \in Seq(StoreCall) /\ CallsGranted'
  BY <1>6, FreshGranted
<1>8. used' \in Usage
  BY <1>1, UsesType DEF Serves, Inv, TypeOK
<1>9. held' \in [Keys -> SUBSET Held]
  BY <1>1, ObserveType DEF Inv, TypeOK
<1>10. TypeOK'
  BY <1>1, <1>3, <1>4, <1>5, <1>7, <1>8, <1>9 DEF Inv, TypeOK
<1>11. Control'
  BY <1>1, <1>5 DEF Control, Serves
<1> QED BY <1>7, <1>10, <1>11 DEF Inv

\* Remove begins.
LEMMA RemoveInv ==
  ASSUME Inv, NEW k \in Keys, RemoveRuntime(k), Observe
  PROVE  Inv'
<1>1. /\ Serves /\ specs' = [specs EXCEPT ![k] = Missing]
      /\ UNCHANGED <<spec, status, events, legacy, archive, up, cmd, acked, before>>
  BY DEF RemoveRuntime, files
<1>2. PICK calls :
        /\ Begins(k, Missing, Missing, calls)
        /\ calls = (IF Previous(k) \in Docs THEN <<Try(SaveStatus(k, Previous(k)))>> ELSE <<>>)
                     \o <<Must(DeleteRuntime(k))>>
  BY DEF RemoveRuntime
<1>3. Missing \in Values
  BY DEF Values
<1>4. /\ op' \in Operations /\ op'.kind = "client" /\ op'.rest = {} /\ op'.grants[k] = {Missing}
      /\ todo' = calls
  BY <1>2, <1>3, BeginsType
<1>5. todo' \in Seq(Unbegun(op'.grants))
  BY <1>2, <1>4, RemoveCalls
<1>6. todo' \in Seq(StoreCall) /\ CallsGranted'
  BY <1>5, FreshGranted
<1>7. used' \in Usage
  BY <1>1, UsesType DEF Serves, Inv, TypeOK
<1>8. held' \in [Keys -> SUBSET Held]
  BY <1>1, ObserveType DEF Inv, TypeOK
<1>9. TypeOK'
  BY <1>1, <1>3, <1>4, <1>6, <1>7, <1>8 DEF Inv, TypeOK
<1>10. Control'
  BY <1>1, <1>4 DEF Control, Serves
<1> QED BY <1>6, <1>9, <1>10 DEF Inv

\* The documents in memory, or of the archive, as grants of a loop.
LEMMA LoopGrants ==
  ASSUME NEW f \in [Keys -> Values]
  PROVE  /\ [k \in Keys |-> {f[k]} \ {Missing}] \in [Keys -> SUBSET Values]
         /\ \A k \in Keys : [j \in Keys |-> {f[j]} \ {Missing}][k] = {f[k]} \ {Missing}
         /\ Present(f) \in SUBSET Keys
BY DEF Present

\* Resync begins.
LEMMA ResyncInv ==
  ASSUME Inv, Resync, Observe
  PROVE  Inv'
<1>1. /\ Serves
      /\ UNCHANGED <<spec, status, events, legacy, archive, up, specs, cmd, acked, before>>
      /\ BeginsLoop("resync", [k \in Keys |-> {specs[k]} \ {Missing}], {}, Everywhere(Unknown),
                    Present(specs))
  BY DEF Resync, files, Present
<1>2. specs \in [Keys -> Values] /\ Everywhere(Unknown) \in [Keys -> Values \cup {Unknown}]
  BY DEF Inv, TypeOK, Everywhere
<1>3. /\ op' \in Operations /\ op'.kind = "resync" /\ op'.about = {}
      /\ op'.grants = [k \in Keys |-> {specs[k]} \ {Missing}]
      /\ op'.rest = Present(specs) /\ todo' = <<>>
  BY <1>1, <1>2, LoopGrants, BeginsLoopType
<1>4. used' \in Usage
  BY <1>1, UsesType DEF Serves, Inv, TypeOK
<1>5. held' \in [Keys -> SUBSET Held]
  BY <1>1, ObserveType DEF Inv, TypeOK
<1>6. TypeOK'
  BY <1>1, <1>3, <1>4, <1>5, EmptySeq DEF Inv, TypeOK
<1>7. Control'
  BY <1>1, <1>3 DEF Control, Serves, Present
<1>8. CallsGranted'
  BY <1>3 DEF CallsGranted
<1> QED BY <1>6, <1>7, <1>8 DEF Inv

\* Load begins.
LEMMA StartInv ==
  ASSUME Inv, Start, Observe
  PROVE  Inv'
<1>1. /\ ~up /\ Loadable /\ specs' = LoadAll
      /\ UNCHANGED <<spec, status, events, legacy, archive, up, cmd, acked, before, used>>
      /\ BeginsLoop("load", [k \in Keys |-> {LoadAll[k]} \ {Missing}], {}, Everywhere(Unknown),
                    Present(LoadAll))
  BY DEF Start, files, Present
<1>2. spec \in [Keys -> Held] /\ legacy \in [Keys -> Values]
      /\ Everywhere(Unknown) \in [Keys -> Values \cup {Unknown}]
  BY DEF Inv, TypeOK, Everywhere
<1>3. LoadAll \in [Keys -> Values]
  BY <1>1, <1>2 DEF LoadAll, Loadable, Held
<1>4. /\ op' \in Operations /\ op'.kind = "load" /\ op'.about = {}
      /\ op'.grants = [k \in Keys |-> {LoadAll[k]} \ {Missing}]
      /\ op'.rest = Present(LoadAll) /\ todo' = <<>>
  BY <1>1, <1>2, <1>3, LoopGrants, BeginsLoopType
<1>5. held' \in [Keys -> SUBSET Held]
  BY <1>1, ObserveType DEF Inv, TypeOK
<1>6. TypeOK'
  BY <1>1, <1>3, <1>4, <1>5, EmptySeq DEF Inv, TypeOK
<1>7. Control'
  BY <1>1, <1>4 DEF Control, Present
<1>8. CallsGranted'
  BY <1>4 DEF CallsGranted
<1> QED BY <1>6, <1>7, <1>8 DEF Inv

\* The restore command begins.
LEMMA RestoreInv ==
  ASSUME Inv, Restore, Observe
  PROVE  Inv'
<1>1. /\ ~up /\ cmd.pc = "idle" /\ archive \notin {Missing, Torn}
      /\ used.restores < MaxRestores /\ Uses("restores")
      /\ UNCHANGED <<spec, status, events, legacy, archive, up, specs, cmd, acked, before>>
      /\ BeginsLoop("restore", [k \in Keys |-> {archive.docs[k]} \ {Missing}],
                    Present(archive.docs), archive.docs, Present(archive.docs))
  BY DEF Restore, files
<1>2. archive.docs \in [Keys -> Values]
  BY <1>1, MemoryType DEF Inv
<1>3. archive.docs \in [Keys -> Values \cup {Unknown}]
  BY <1>2
<1>4. /\ op' \in Operations /\ op'.kind = "restore" /\ op'.about = Present(archive.docs)
      /\ op'.grants = [k \in Keys |-> {archive.docs[k]} \ {Missing}]
      /\ op'.acks = archive.docs /\ op'.rest = Present(archive.docs) /\ todo' = <<>>
  BY <1>1, <1>2, <1>3, LoopGrants, BeginsLoopType
<1>5. used' \in Usage
  BY <1>1, UsesType DEF Inv, TypeOK
<1>6. held' \in [Keys -> SUBSET Held]
  BY <1>1, ObserveType DEF Inv, TypeOK
<1>7. TypeOK'
  BY <1>1, <1>4, <1>5, <1>6, EmptySeq DEF Inv, TypeOK
<1>8. Control'
  BY <1>1, <1>4 DEF Control, Present
<1>9. CallsGranted'
  BY <1>4 DEF CallsGranted
<1> QED BY <1>7, <1>8, <1>9 DEF Inv

\* A loop goes on with Runtime k.
LEMMA NextRuntimeOp ==
  ASSUME Inv, NextRuntime
  PROVE  /\ op' \in Operations /\ op'.kind = op.kind /\ op'.grants = op.grants
         /\ op'.about = op.about /\ op'.acks = op.acks /\ op'.rest \subseteq op.rest
         /\ op.kind \in {"resync", "load", "restore"}
         /\ todo' \in Seq(Unbegun(op'.grants))
         /\ todo = <<>>
         /\ UNCHANGED <<spec, status, events, legacy, archive, up, specs, cmd, acked, before, used>>
<1>1. PICK k \in Keys :
        /\ First(op.rest, k)
        /\ \/ /\ op' = [op EXCEPT !.rest = @ \ {k}]
              /\ todo' = CASE op.kind = "resync" -> <<Must(SaveStatus(k, specs[k]))>>
                           [] op.kind = "load" -> ApplyWrites(k, specs[k])
                           [] op.kind = "restore" -> RestoreWrites(k)
           \/ /\ op.kind = "resync"
              /\ op' = [op EXCEPT !.rest = {}]
              /\ todo' = RecordFailed(k, specs[k])
  BY DEF NextRuntime
<1>2. /\ todo = <<>>
      /\ UNCHANGED <<spec, status, events, legacy, archive, up, specs, cmd, acked, before, used>>
  BY DEF NextRuntime, files
<1>3. k \in op.rest
  BY <1>1 DEF First
<1>4. op \in Operations
  BY DEF Inv, TypeOK
<1>5. op.kind \in {"none", "client", "resync", "load", "restore"} /\ op.rest \in SUBSET Keys
  BY <1>4 DEF Operations
<1>6. op.kind \in {"resync", "load", "restore"}
  BY <1>3, <1>5 DEF Inv, Control
<1>7. PICK r \in SUBSET Keys : r \subseteq op.rest /\ op' = [op EXCEPT !.rest = r]
  BY <1>1, <1>5
<1>8. /\ op' \in Operations /\ op'.kind = op.kind /\ op'.grants = op.grants
      /\ op'.about = op.about /\ op'.acks = op.acks /\ op'.rest = r
  BY <1>4, <1>7 DEF Operations
<1>9. op.kind \in {"resync", "load"} => specs[k] \in Docs /\ specs[k] \in op.grants[k]
  BY <1>3, MemoryType DEF Inv, Control
<1>10. op.kind = "restore" =>
         /\ archive.docs[k] \in Docs /\ archive.docs[k] \in op.grants[k]
         /\ archive.statuses[k] \in Values /\ archive.events[k] \in Seq(Docs)
  <2> SUFFICES ASSUME op.kind = "restore"
               PROVE  /\ archive.docs[k] \in Docs /\ archive.docs[k] \in op.grants[k]
                      /\ archive.statuses[k] \in Values /\ archive.events[k] \in Seq(Docs)
    OBVIOUS
  <2>1. /\ archive \notin {Missing, Torn} /\ k \in Present(archive.docs)
        /\ op.grants[k] = {archive.docs[k]} \ {Missing}
    BY <1>3 DEF Inv, Control
  <2>2. /\ archive.docs[k] \in Values /\ archive.statuses[k] \in Values
        /\ archive.events[k] \in Seq(Docs)
    BY <2>1, MemoryType DEF Inv
  <2>3. archive.docs[k] # Missing
    BY <2>1 DEF Present
  <2> QED BY <2>1, <2>2, <2>3 DEF Values
<1>11. todo' \in Seq(Unbegun(op.grants))
  <2>1. CASE op.kind = "resync"
    <3>1. Must(SaveStatus(k, specs[k])) \in Unbegun(op.grants)
      BY <1>9, <2>1, SaveStatusCall DEF Must
    <3>2. <<Must(SaveStatus(k, specs[k]))>> \in Seq(Unbegun(op.grants))
      BY <3>1, SmallSequences
    <3>3. RecordFailed(k, specs[k]) \in Seq(Unbegun(op.grants))
      BY <1>9, <2>1, ApplyCalls
    <3> QED BY <1>1, <2>1, <3>2, <3>3
  <2>2. CASE op.kind = "load"
    <3>1. todo' = ApplyWrites(k, specs[k])
      BY <1>1, <2>2
    <3> QED BY <1>9, <2>2, <3>1, ApplyCalls
  <2>3. CASE op.kind = "restore"
    <3>1. todo' = RestoreWrites(k)
      BY <1>1, <2>3
    <3> QED BY <1>10, <2>3, <3>1, RestoreCalls
  <2> QED BY <1>6, <2>1, <2>2, <2>3
<1> QED BY <1>2, <1>6, <1>7, <1>8, <1>11

\* Going on to the next runtime of a resync, a load or a restore preserves Inv.
LEMMA NextRuntimeInv ==
  ASSUME Inv, NextRuntime, Observe
  PROVE  Inv'
<1>1. /\ op' \in Operations /\ op'.kind = op.kind /\ op'.grants = op.grants
      /\ op'.about = op.about /\ op'.acks = op.acks /\ op'.rest \subseteq op.rest
      /\ op.kind \in {"resync", "load", "restore"} /\ todo' \in Seq(Unbegun(op'.grants))
      /\ UNCHANGED <<spec, status, events, legacy, archive, up, specs, cmd, acked, before, used>>
  BY NextRuntimeOp
<1>2. todo' \in Seq(StoreCall) /\ CallsGranted'
  BY <1>1, FreshGranted
<1>3. held' \in [Keys -> SUBSET Held]
  BY <1>1, ObserveType DEF Inv, TypeOK
<1>4. TypeOK'
  BY <1>1, <1>2, <1>3 DEF Inv, TypeOK
<1>5. Control'
  BY <1>1 DEF Inv, Control
<1> QED BY <1>2, <1>4, <1>5 DEF Inv

\* A system call succeeds.
LEMMA ProceedInv ==
  ASSUME Inv, Proceed, Observe
  PROVE  Inv'
<1>1. /\ todo # <<>> /\ Effect(Head(Head(todo).calls))
      /\ UNCHANGED <<legacy, archive, up, specs, op, cmd, acked, used>>
  BY DEF Proceed
<1>2. todo' \in Seq(StoreCall) /\ CallsGranted'
  BY ProceedCalls DEF Inv
<1>3. Head(Head(todo).calls) \in SysCall /\ Allowed(Head(Head(todo).calls), op.grants)
  BY <1>1, NextCall DEF Inv
<1>4. /\ spec' \in [Keys -> Held] /\ status' \in [Keys -> Held]
      /\ events' \in [Keys -> Seq(Docs)] /\ before' \in Held
  BY <1>1, <1>3, EffectType DEF Inv
<1>5. held' \in [Keys -> SUBSET Held]
  BY <1>4, ObserveType DEF Inv
<1>6. TypeOK'
  BY <1>1, <1>2, <1>4, <1>5 DEF Inv, TypeOK
<1>7. Control'
  BY <1>1 DEF Inv, Control
<1> QED BY <1>2, <1>6, <1>7 DEF Inv

\* An operation ends.
LEMMA EndsType ==
  ASSUME TypeOK, NEW acks \in [Keys -> Values \cup {Unknown}], Ends(acks)
  PROVE  /\ acked' \in [Keys -> Values \cup {Unknown}] /\ op' = Idle /\ todo' = <<>>
         /\ op' \in Operations /\ todo' \in Seq(StoreCall) /\ CallsGranted'
<1>1. acked \in [Keys -> Values \cup {Unknown}]
  BY DEF TypeOK
<1>2. /\ acked' = [k \in Keys |-> IF k \in op.about THEN acks[k] ELSE acked[k]]
      /\ op' = Idle /\ todo' = <<>>
  BY DEF Ends
<1>3. acked' \in [Keys -> Values \cup {Unknown}]
  BY <1>1, <1>2
<1>4. CallsGranted'
  BY <1>2 DEF CallsGranted
<1> QED BY <1>2, <1>3, <1>4, EmptySeq, IdleType

\* A system call fails.
LEMMA FailInv ==
  ASSUME Inv, Fail, Observe
  PROVE  Inv'
<1>1. /\ todo # <<>> /\ used.faults < MaxFaults /\ Uses("faults")
      /\ UNCHANGED <<spec, status, events, legacy, archive, up, cmd, before>>
  BY DEF Fail, files
<1>2. used' \in Usage
  BY <1>1, UsesType DEF Inv, TypeOK
<1>3. held' \in [Keys -> SUBSET Held]
  BY <1>1, ObserveType DEF Inv, TypeOK
<1>4. CASE Head(todo).must
  <2>1. /\ Ends(Everywhere(Unknown))
        /\ specs' = IF op.kind = "load" THEN Everywhere(Missing) ELSE specs
    BY <1>4 DEF Fail
  <2>2. Everywhere(Unknown) \in [Keys -> Values \cup {Unknown}]
        /\ Everywhere(Missing) \in [Keys -> Values]
    BY DEF Everywhere, Values
  <2>3. /\ acked' \in [Keys -> Values \cup {Unknown}] /\ op' = Idle /\ todo' = <<>>
        /\ op' \in Operations /\ todo' \in Seq(StoreCall) /\ CallsGranted'
    BY <2>1, <2>2, EndsType DEF Inv
  <2>4. specs' \in [Keys -> Values]
    BY <2>1, <2>2 DEF Inv, TypeOK
  <2>5. TypeOK'
    BY <1>1, <1>2, <1>3, <2>3, <2>4 DEF Inv, TypeOK
  <2>6. Control'
    BY <2>3, IdleType DEF Control
  <2> QED BY <2>3, <2>5, <2>6 DEF Inv
<1>5. CASE ~Head(todo).must
  <2>1. todo' = Tail(todo) /\ UNCHANGED <<op, specs, acked>>
    BY <1>5 DEF Fail
  <2>2. todo' \in Seq(Unbegun(op'.grants))
    BY <1>1, <2>1, NextCall DEF Inv
  <2>3. todo' \in Seq(StoreCall) /\ CallsGranted'
    BY <2>2, FreshGranted
  <2>4. TypeOK'
    BY <1>1, <1>2, <1>3, <2>1, <2>3 DEF Inv, TypeOK
  <2>5. Control'
    BY <1>1, <2>1 DEF Inv, Control
  <2> QED BY <2>3, <2>4, <2>5 DEF Inv
<1> QED BY <1>4, <1>5

\* The operation returns.
LEMMA ReturnInv ==
  ASSUME Inv, Return, Observe
  PROVE  Inv'
<1>1. /\ Ends(op.acks) /\ up' = (up \/ op.kind = "load")
      /\ UNCHANGED <<spec, status, events, legacy, archive, specs, cmd, before, used>>
  BY DEF Return, files
<1>2. op.acks \in [Keys -> Values \cup {Unknown}]
  BY DEF Inv, TypeOK, Operations
<1>3. /\ acked' \in [Keys -> Values \cup {Unknown}] /\ op' = Idle /\ todo' = <<>>
      /\ op' \in Operations /\ todo' \in Seq(StoreCall) /\ CallsGranted'
  BY <1>1, <1>2, EndsType DEF Inv
<1>4. held' \in [Keys -> SUBSET Held]
  BY <1>1, ObserveType DEF Inv, TypeOK
<1>5. up' \in BOOLEAN
  BY <1>1
<1>6. TypeOK'
  BY <1>1, <1>3, <1>4, <1>5 DEF Inv, TypeOK
<1>7. Control'
  BY <1>3, IdleType DEF Control
<1> QED BY <1>3, <1>6, <1>7 DEF Inv

\* A process is killed.
LEMMA KillInv ==
  ASSUME Inv, Kill, Observe
  PROVE  Inv'
<1>1. /\ Ends(Everywhere(Unknown)) /\ up' = FALSE /\ specs' = Everywhere(Missing)
      /\ used.kills < MaxKills /\ Uses("kills")
      /\ UNCHANGED <<spec, status, events, legacy, archive, cmd, before>>
  BY DEF Kill, files
<1>2. Everywhere(Unknown) \in [Keys -> Values \cup {Unknown}]
      /\ Everywhere(Missing) \in [Keys -> Values]
  BY DEF Everywhere, Values
<1>3. /\ acked' \in [Keys -> Values \cup {Unknown}] /\ op' = Idle /\ todo' = <<>>
      /\ op' \in Operations /\ todo' \in Seq(StoreCall) /\ CallsGranted'
  BY <1>1, <1>2, EndsType DEF Inv
<1>4. held' \in [Keys -> SUBSET Held]
  BY <1>1, ObserveType DEF Inv, TypeOK
<1>5. used' \in Usage
  BY <1>1, UsesType DEF Inv, TypeOK
<1>6. TypeOK'
  BY <1>1, <1>2, <1>3, <1>4, <1>5 DEF Inv, TypeOK
<1>7. Control'
  BY <1>3, IdleType DEF Control
<1> QED BY <1>3, <1>6, <1>7 DEF Inv

\* A backup that is not in progress.
LEMMA NoBackupType ==
  /\ NoBackup \in Backups /\ NoBackup.pc = "idle" /\ NoBackup.names = {}
  /\ NoBackup.docs = Everywhere(Missing) /\ NoBackup.vanished = FALSE
  /\ \A k \in Keys : NoBackup.docs[k] = Missing
<1>1. Everywhere(Missing) \in [Keys -> Values] /\ \A k \in Keys : Everywhere(Missing)[k] = Missing
  BY DEF Everywhere, Values
<1> QED BY <1>1 DEF NoBackup, Backups

\* What a step of the backup command changes.
LEMMA BackupSteps ==
  ASSUME Inv, Backup \/ KillBackup
  PROVE  /\ cmd' \in Backups /\ used' \in Usage
         /\ archive' \in {Missing, Torn} \/ archive' \in Archives
         /\ op.kind = "restore" => cmd.pc # "idle"
         /\ UNCHANGED <<spec, status, events, legacy, up, specs, op, todo, acked, before>>
<1>1. /\ cmd \in Backups /\ used \in Usage /\ (archive \in {Missing, Torn} \/ archive \in Archives)
      /\ spec \in [Keys -> Held] /\ status \in [Keys -> Held] /\ events \in [Keys -> Seq(Docs)]
      /\ legacy \in [Keys -> Values]
  BY DEF Inv, TypeOK
<1>2. CASE BeginBackup
  <2>1. /\ cmd.pc = "idle" /\ op.kind # "restore" /\ archive' = Torn
        /\ used.backups < MaxBackups /\ Uses("backups")
        /\ cmd' = [NoBackup EXCEPT !.pc = "read", !.names = Present(spec)]
        /\ UNCHANGED <<spec, status, events, legacy, up, specs, op, todo, acked, before>>
    BY <1>2 DEF BeginBackup, files
  <2>2. used' \in Usage
    BY <1>1, <2>1, UsesType
  <2>3. Present(spec) \in SUBSET Keys
    BY DEF Present
  <2>4. cmd' \in Backups
    BY <2>1, <2>3, NoBackupType DEF Backups
  <2> QED BY <2>1, <2>2, <2>4
<1>3. CASE BackupRead
  <2>1. /\ cmd.pc = "read" /\ archive' = archive
        /\ UNCHANGED <<spec, status, events, legacy, up, specs, op, todo, acked, before, used>>
    BY <1>3 DEF BackupRead, Reads, files
  <2>2. PICK k \in Keys :
          \/ /\ spec[k] \in Docs
             /\ cmd' = [cmd EXCEPT !.names = @ \ {k}, !.docs[k] = spec[k]]
          \/ cmd' = [cmd EXCEPT !.names = {}, !.vanished = TRUE]
          \/ cmd' = NoBackup
    BY <1>3 DEF BackupRead, Reads
  <2>3. cmd' \in Backups
    <3>1. CASE spec[k] \in Docs /\ cmd' = [cmd EXCEPT !.names = @ \ {k}, !.docs[k] = spec[k]]
      BY <1>1, <3>1 DEF Backups, Values
    <3>2. CASE cmd' = [cmd EXCEPT !.names = {}, !.vanished = TRUE]
      BY <1>1, <3>2 DEF Backups
    <3> QED BY <2>2, <3>1, <3>2, NoBackupType
  <2> QED BY <1>1, <2>1, <2>3
<1>4. CASE BackupWrite
  <2>1. /\ cmd.pc = "read" /\ cmd' = NoBackup
        /\ UNCHANGED <<spec, status, events, legacy, up, specs, op, todo, acked, before, used>>
        /\ archive' =
             [docs |-> Merged,
              statuses |-> [k \in Keys |-> IF Merged[k] # Missing /\ status[k] \in Docs
                                           THEN status[k] ELSE Missing],
              events |-> [k \in Keys |-> IF Merged[k] # Missing THEN events[k] ELSE <<>>]]
    BY <1>4 DEF BackupWrite, Archiving, Reads, files
  <2>2. cmd.docs \in [Keys -> Values]
    BY <1>1 DEF Backups
  <2>3. Merged \in [Keys -> Values]
    BY <1>1, <2>2 DEF Merged
  <2>4. [k \in Keys |-> IF Merged[k] # Missing /\ status[k] \in Docs
                        THEN status[k] ELSE Missing] \in [Keys -> Values]
    BY DEF Values
  <2>5. [k \in Keys |-> IF Merged[k] # Missing THEN events[k] ELSE <<>>] \in [Keys -> Seq(Docs)]
    BY <1>1, EmptySeq
  <2>6. archive' \in Archives
    BY <2>1, <2>3, <2>4, <2>5 DEF Archives
  <2> QED BY <1>1, <2>1, <2>6, NoBackupType
<1>5. CASE KillBackup
  <2>1. /\ cmd.pc # "idle" /\ used.kills < MaxKills /\ Uses("kills") /\ cmd' = NoBackup
        /\ archive' = archive
        /\ UNCHANGED <<spec, status, events, legacy, up, specs, op, todo, acked, before>>
    BY <1>5 DEF KillBackup, files
  <2>2. used' \in Usage
    BY <1>1, <2>1, UsesType
  <2> QED BY <1>1, <2>1, <2>2, NoBackupType
<1> QED BY <1>2, <1>3, <1>4, <1>5 DEF Backup

\* The steps of the backup command, and its death, preserve Inv.
LEMMA BackupInv ==
  ASSUME Inv, Backup \/ KillBackup, Observe
  PROVE  Inv'
<1>1. /\ cmd' \in Backups /\ used' \in Usage
      /\ archive' \in {Missing, Torn} \/ archive' \in Archives
      /\ op.kind = "restore" => cmd.pc # "idle"
      /\ UNCHANGED <<spec, status, events, legacy, up, specs, op, todo, acked, before>>
  BY BackupSteps
<1>2. held' \in [Keys -> SUBSET Held]
  BY <1>1, ObserveType DEF Inv, TypeOK
<1>3. TypeOK'
  BY <1>1, <1>2 DEF Inv, TypeOK
<1>4. op.kind # "restore"
  BY <1>1 DEF Inv, Control
<1>5. Control'
  BY <1>1, <1>4 DEF Inv, Control
<1>6. CallsGranted'
  BY <1>1 DEF Inv, CallsGranted, Writing
<1> QED BY <1>3, <1>5, <1>6 DEF Inv

\* Every step keeps the invariant.
LEMMA NextInv == Inv /\ [Next]_vars => Inv'
<1> SUFFICES ASSUME Inv, [Next]_vars PROVE Inv'
  OBVIOUS
<1>1. CASE Next
  <2>1. Step /\ Observe
    BY <1>1 DEF Next
  <2> QED BY <2>1, ApplyInv, RemoveInv, ResyncInv, StartInv, RestoreInv, NextRuntimeInv,
             ProceedInv, FailInv, ReturnInv, KillInv, BackupInv DEF Step, Agent
<1>2. CASE UNCHANGED vars
  <2>1. UNCHANGED <<spec, status, events, legacy, archive, up, specs, op, todo, cmd, acked,
                    before, held, used>>
    BY <1>2 DEF vars, files
  <2>2. TypeOK'
    BY <2>1 DEF Inv, TypeOK
  <2>3. Control'
    BY <2>1 DEF Inv, Control
  <2>4. CallsGranted'
    BY <2>1 DEF Inv, CallsGranted, Writing
  <2> QED BY <2>2, <2>3, <2>4 DEF Inv
<1> QED BY <1>1, <1>2

\* The invariant holds in every state.
THEOREM InvAlways == Spec => []Inv
BY InitInv, NextInv, PTL DEF Spec

\* The files, the memory of the agent, the operation in progress, its calls
\* left and the archive keep their types (TypeOK): in particular only documents
\* are ever written to a spec file, whichever calls fail and whoever is killed.
THEOREM TypeCorrect == Spec => []TypeOK
<1>1. Inv => TypeOK
  BY DEF Inv
<1> QED BY InvAlways, <1>1, PTL

-----------------------------------------------------------------------------
(* The spec files implement a durable map *)

\* While no spec file is open for writing, the map is what the files hold.
LEMMA EntriesAreFiles ==
  ASSUME TypeOK, \A k \in Keys : ~Writing(k)
  PROVE  Entries = spec
BY DEF TypeOK, Entries

\* In the next state too: with no spec file open, the entries are what the files hold.
LEMMA EntriesAreFilesNext ==
  ASSUME TypeOK', \A k \in Keys : ~Writing(k)'
  PROVE  Entries' = spec'
BY DEF TypeOK, Entries

\* No spec file is open when nothing is left to do, or a call begins.
LEMMA NotWriting ==
  /\ todo = <<>> => \A k \in Keys : ~Writing(k)
  /\ todo' \in Seq(Unbegun(op'.grants)) => \A k \in Keys : ~Writing(k)'
  /\ todo' = <<>> => \A k \in Keys : ~Writing(k)'
BY FreshCalls DEF Writing, Writes

\* An operation that begins is granted what it may store.
LEMMA BeginMaps ==
  ASSUME Inv, Inv', Agent \/ Restore
  PROVE  op.kind = "none" /\ spec' = spec /\ Entries' = Entries
<1>1. /\ op.kind = "none" /\ spec' = spec
  BY DEF Agent, Restore, Start, Resync, RemoveRuntime, Apply, Serves, files
<1>2. todo = <<>>
  BY <1>1 DEF Inv, Control
<1>3. \A k \in Keys : ~Writing(k)'
  <2>1. CASE Resync \/ Start \/ Restore
    <3>1. todo' = <<>>
      BY <2>1 DEF Resync, Start, Restore, BeginsLoop
    <3> QED BY <3>1, NotWriting
  <2>2. ASSUME NEW k \in Keys, NEW d \in Docs, Apply(k, d)
        PROVE  todo' \in Seq(Unbegun(op'.grants))
    <3>1. PICK v \in Docs, ack \in Docs \cup {Unknown} : \E calls :
            /\ Begins(k, v, ack, calls)
            /\ calls \in {ApplyWrites(k, v), FailedWrites(k, v), RollbackWrites(k, d, v)}
      BY <2>2 DEF Apply
    <3>2. PICK calls :
            /\ Begins(k, v, ack, calls)
            /\ calls \in {ApplyWrites(k, v), FailedWrites(k, v), RollbackWrites(k, d, v)}
      BY <3>1
    <3>3. op'.grants[k] = {v} /\ todo' = calls
      BY <3>2, BeginsType DEF Values
    <3> QED BY <3>2, <3>3, ApplyCalls
  <2>3. ASSUME NEW k \in Keys, RemoveRuntime(k)
        PROVE  todo' \in Seq(Unbegun(op'.grants))
    <3>1. PICK calls :
            /\ Begins(k, Missing, Missing, calls)
            /\ calls = (IF Previous(k) \in Docs THEN <<Try(SaveStatus(k, Previous(k)))>> ELSE <<>>)
                         \o <<Must(DeleteRuntime(k))>>
      BY <2>3 DEF RemoveRuntime
    <3>2. op'.grants[k] = {Missing} /\ todo' = calls
      BY <3>1, BeginsType DEF Values
    <3> QED BY <3>1, <3>2, RemoveCalls
  <2> QED BY <2>1, <2>2, <2>3, NotWriting DEF Agent
<1> QED BY <1>1, <1>2, <1>3, NotWriting, EntriesAreFiles, EntriesAreFilesNext DEF Inv

\* An operation that ends, or gives up a call, while a spec file is open loses
\* that entry of the map and no other.
LEMMA CutShortMaps ==
  ASSUME Inv, Inv', spec' = spec, \A k \in Keys : ~Writing(k)',
         NEW k \in Keys, Writing(k)
  PROVE  Entries' = [Entries EXCEPT ![k] = Torn] /\ op.grants[k] \cap Docs # {}
<1>1. todo # <<>> /\ Head(Head(todo).calls).do = "write spec" /\ Head(Head(todo).calls).key = k
  BY DEF Writing
<1>2. \A j \in Keys : Writing(j) <=> j = k
  BY <1>1 DEF Writing
<1>3. spec[k] = Torn /\ spec \in [Keys -> Held]
  BY <1>1 DEF Inv, CallsGranted, TypeOK
<1>4. Entries' = spec
  BY EntriesAreFilesNext DEF Inv
<1>5. Entries = [j \in Keys |-> IF j = k THEN before ELSE spec[j]]
  BY <1>2 DEF Entries
<1>6. spec = [Entries EXCEPT ![k] = Torn]
  BY <1>3, <1>5
<1>7. Allowed(Head(Head(todo).calls), op.grants)
  BY <1>1, NextCall DEF Inv
<1>8. /\ Head(Head(todo).calls).value \in op.grants[k]
      /\ Head(Head(todo).calls).value \in Docs
  BY <1>1, <1>7 DEF Allowed
<1> QED BY <1>4, <1>6, <1>8

\* A system call that succeeds changes the map only when it writes or removes a
\* spec file.
LEMMA ProceedMaps ==
  ASSUME Inv, Inv', Proceed
  PROVE  \/ Entries' = Entries
         \/ \E k \in Keys : \E v \in op.grants[k] : Entries' = [Entries EXCEPT ![k] = v]
<1>1. PICK c : c = Head(Head(todo).calls)
  OBVIOUS
<1>2. todo # <<>> /\ op' = op
  BY DEF Proceed
<1>3. c \in SysCall /\ Allowed(c, op.grants)
  BY <1>1, <1>2, NextCall DEF Inv
<1>4. c.key \in Keys /\ c.do \in SysCalls
  BY <1>3 DEF SysCall
<1>5. Effect(c) /\ \A k \in Keys : Writing(k)' <=> Opens(c) /\ c.key = k
  BY <1>1, ProceedCalls DEF Inv
<1>6. \A k \in Keys : Writing(k) <=> c.do = "write spec" /\ c.key = k
  BY <1>1, <1>2 DEF Writing
<1>7. spec \in [Keys -> Held] /\ spec' \in [Keys -> Held]
  BY DEF Inv, TypeOK
<1>8. Entries' = [k \in Keys |-> IF Writing(k)' THEN before' ELSE spec'[k]]
  BY DEF Entries
<1>9. CASE c.do = "open spec"
  <2>1. spec' = [spec EXCEPT ![c.key] = Torn] /\ before' = spec[c.key]
    BY <1>5, <1>9 DEF Effect
  <2>2. \A k \in Keys : (Writing(k)' <=> k = c.key) /\ ~Writing(k)
    BY <1>5, <1>6, <1>9 DEF Opens
  <2>3. Entries' = spec
    BY <1>7, <1>8, <2>1, <2>2
  <2>4. Entries = spec
    BY <2>2, EntriesAreFiles DEF Inv
  <2> QED BY <2>3, <2>4
<1>10. CASE c.do = "write spec"
  <2>1. spec' = [spec EXCEPT ![c.key] = c.value] /\ c.value \in op.grants[c.key]
    BY <1>3, <1>5, <1>10 DEF Effect, Allowed
  <2>2. \A k \in Keys : ~Writing(k)' /\ (Writing(k) <=> k = c.key)
    BY <1>5, <1>6, <1>10 DEF Opens
  <2>3. Entries' = spec'
    BY <2>2, EntriesAreFilesNext DEF Inv
  <2>4. Entries = [k \in Keys |-> IF k = c.key THEN before ELSE spec[k]]
    BY <2>2 DEF Entries
  <2>5. Entries' = [Entries EXCEPT ![c.key] = c.value]
    BY <1>4, <1>7, <2>1, <2>3, <2>4
  <2> QED BY <1>4, <2>1, <2>5
<1>11. CASE c.do = "unlink spec"
  <2>1. spec' = [spec EXCEPT ![c.key] = c.value] /\ c.value \in op.grants[c.key]
    BY <1>3, <1>5, <1>11 DEF Effect, Allowed
  <2>2. \A k \in Keys : ~Writing(k)' /\ ~Writing(k)
    BY <1>5, <1>6, <1>11 DEF Opens
  <2>3. Entries' = spec' /\ Entries = spec
    BY <2>2, EntriesAreFiles, EntriesAreFilesNext DEF Inv
  <2> QED BY <1>4, <2>1, <2>3
<1>12. CASE c.do \notin {"open spec", "write spec", "unlink spec"}
  <2>1. spec' = spec
    BY <1>5, <1>12 DEF Effect
  <2>2. \A k \in Keys : ~Writing(k)' /\ ~Writing(k)
    BY <1>5, <1>6, <1>12 DEF Opens
  <2> QED BY <2>1, <2>2, EntriesAreFiles, EntriesAreFilesNext DEF Inv
<1> QED BY <1>9, <1>10, <1>11, <1>12

\* The steps of the map, spelt out.
LEMMA MapSteps ==
  /\ Entries' = Entries /\ op'.grants = op.grants => UNCHANGED <<Entries, op.grants>>
  /\ Entries' = Entries /\ op'.grants = Everywhere({}) => Map!Next
  /\ /\ op.grants = Everywhere({}) /\ op'.grants \in [Keys -> SUBSET (Docs \cup {Missing})]
     /\ Entries' = Entries
     => Map!Next
  /\ \A k \in Keys : \A v \in op.grants[k] :
       Entries' = [Entries EXCEPT ![k] = v] /\ op'.grants = op.grants => Map!Next
  /\ \A k \in Keys :
       /\ Entries' = [Entries EXCEPT ![k] = Torn] /\ op.grants[k] \cap Docs # {}
       /\ op'.grants = op.grants \/ op'.grants = Everywhere({})
       => Map!Next
<1>1. Entries' = Entries /\ op'.grants = Everywhere({}) => Map!Next
  BY DEF Map!Next, Map!End, Map!Nothing, Everywhere
<1>2. /\ op.grants = Everywhere({}) /\ op'.grants \in [Keys -> SUBSET (Docs \cup {Missing})]
      /\ Entries' = Entries
      => Map!Next
  BY DEF Map!Next, Map!Begin, Map!Nothing, Everywhere
<1>3. \A k \in Keys : \A v \in op.grants[k] :
        Entries' = [Entries EXCEPT ![k] = v] /\ op'.grants = op.grants => Map!Next
  BY DEF Map!Next, Map!Store
<1>4. \A k \in Keys :
       /\ Entries' = [Entries EXCEPT ![k] = Torn] /\ op.grants[k] \cap Docs # {}
       /\ op'.grants = op.grants \/ op'.grants = Everywhere({})
       => Map!Next
  BY DEF Map!Next, Map!Lose, Map!Nothing, Everywhere
<1> QED BY <1>1, <1>2, <1>3, <1>4

\* Every step of the store is a step of the map, or leaves it alone.
LEMMA StepMaps ==
  ASSUME Inv, Inv', [Next]_vars
  PROVE  [Map!Next]_<<Entries, op.grants>>
<1>1. CASE Agent \/ Restore
  <2>1. op.kind = "none" /\ Entries' = Entries
    BY <1>1, BeginMaps
  <2>2. op.grants = Everywhere({})
    BY <2>1, IdleType DEF Inv, Control
  <2>3. op'.grants \in [Keys -> SUBSET (Docs \cup {Missing})]
    BY DEF Inv, TypeOK, Operations, Values
  <2> QED BY <2>1, <2>2, <2>3, MapSteps
<1>2. CASE NextRuntime
  <2>1. todo = <<>> /\ todo' \in Seq(Unbegun(op'.grants)) /\ op'.grants = op.grants /\ spec' = spec
    BY <1>2, NextRuntimeOp
  <2>2. Entries' = Entries
    BY <2>1, NotWriting, EntriesAreFiles, EntriesAreFilesNext DEF Inv
  <2> QED BY <2>1, <2>2, MapSteps
<1>3. CASE Proceed
  <2>1. op' = op
    BY <1>3 DEF Proceed
  <2> QED BY <1>3, <2>1, ProceedMaps, MapSteps
<1>4. ASSUME spec' = spec, \A k \in Keys : ~Writing(k)',
             op'.grants = op.grants \/ op'.grants = Everywhere({})
      PROVE  [Map!Next]_<<Entries, op.grants>>
  <2>1. CASE \E k \in Keys : Writing(k)
    <3>1. PICK k \in Keys : Writing(k)
      BY <2>1
    <3>2. Entries' = [Entries EXCEPT ![k] = Torn] /\ op.grants[k] \cap Docs # {}
      BY <1>4, <3>1, CutShortMaps
    <3> QED BY <1>4, <3>2, MapSteps
  <2>2. CASE \A k \in Keys : ~Writing(k)
    <3>1. Entries' = Entries
      BY <1>4, <2>2, EntriesAreFiles, EntriesAreFilesNext DEF Inv
    <3> QED BY <1>4, <3>1, MapSteps
  <2> QED BY <2>1, <2>2
<1>5. CASE Fail
  <2>1. spec' = spec /\ todo # <<>>
    BY <1>5 DEF Fail, files
  <2>2. CASE Head(todo).must
    <3>1. op' = Idle /\ todo' = <<>>
      BY <1>5, <2>2 DEF Fail, Ends
    <3> QED BY <1>4, <2>1, <3>1, NotWriting, IdleType
  <2>3. CASE ~Head(todo).must
    <3>1. op' = op /\ todo' = Tail(todo)
      BY <1>5, <2>3 DEF Fail
    <3>2. todo' \in Seq(Unbegun(op'.grants))
      BY <2>1, <3>1, NextCall DEF Inv
    <3> QED BY <1>4, <2>1, <3>1, <3>2, NotWriting
  <2> QED BY <2>2, <2>3
<1>6. CASE Return \/ Kill
  <2>1. spec' = spec /\ op' = Idle /\ todo' = <<>>
    BY <1>6 DEF Return, Kill, Ends, files
  <2> QED BY <1>4, <2>1, NotWriting, IdleType
<1>7. CASE Backup \/ KillBackup \/ UNCHANGED vars
  <2>1. UNCHANGED <<spec, op, todo, before>>
    BY <1>7, BackupSteps DEF vars, files
  <2>2. Entries' = Entries
    BY <2>1 DEF Entries, Writing
  <2> QED BY <2>1, <2>2, MapSteps
<1> QED BY <1>1, <1>2, <1>3, <1>5, <1>6, <1>7 DEF Next, Step

\* The spec files are a durable map (ImplementsDurableMap): whatever operation
\* of the agent or restore is in progress, whichever of its system calls fail and
\* wherever it is killed, files change only to the document the operation may
\* store under that key, and only a file being overwritten can be lost.
THEOREM FilesAreAMap == Spec => ImplementsDurableMap
<1>1. Init => Map!Init
  <2> SUFFICES ASSUME Init PROVE Map!Init
    OBVIOUS
  <2>1. todo = <<>> /\ spec = Everywhere(Missing) /\ op = Idle
    BY DEF Init
  <2>2. Entries = spec
    BY <2>1, NotWriting, EntriesAreFiles, InitInv DEF Inv
  <2> QED BY <2>1, <2>2, IdleType DEF Map!Init, Map!Nothing, Everywhere
<1>2. Inv /\ Inv' /\ [Next]_vars => [Map!Next]_<<Entries, op.grants>>
  BY StepMaps
<1> QED BY <1>1, <1>2, InvAlways, PTL DEF Spec, ImplementsDurableMap, Map!Spec

-----------------------------------------------------------------------------
(* Backups *)

\* What a backup that goes on has read and could have found.
LEMMA BackupSeenStep ==
  ASSUME Inv, Inv', BackupSeen, Next
  PROVE  BackupSeen'
<1> SUFFICES ASSUME cmd'.pc = "read", NEW j \in Keys
             PROVE  /\ cmd'.docs[j] # Missing => cmd'.docs[j] \in held'[j]
                    /\ ~cmd'.vanished /\ j \notin cmd'.names /\ cmd'.docs[j] = Missing =>
                         Missing \in held'[j]
  BY DEF BackupSeen
<1>1. Step /\ held' = [k \in Keys |-> held[k] \cup {spec'[k]}]
  BY DEF Next, Observe
<1>2. held'[j] = held[j] \cup {spec'[j]}
  BY <1>1
<1>3. cmd \in Backups /\ spec \in [Keys -> Held]
  BY DEF Inv, TypeOK
<1>4. CASE BeginBackup
  <2>1. cmd' = [NoBackup EXCEPT !.pc = "read", !.names = Present(spec)] /\ spec' = spec
    BY <1>4 DEF BeginBackup, files
  <2>2. cmd'.docs = NoBackup.docs /\ cmd'.names = Present(spec)
    BY <2>1 DEF NoBackup
  <2>3. cmd'.docs[j] = Missing
    BY <2>2, NoBackupType
  <2>4. j \notin cmd'.names => spec[j] = Missing
    BY <2>2 DEF Present
  <2> QED BY <1>2, <2>1, <2>3, <2>4
<1>5. CASE BackupRead
  <2>1. cmd.pc = "read" /\ spec' = spec
    BY <1>5 DEF BackupRead, Reads, files
  <2>2. /\ cmd.docs[j] # Missing => cmd.docs[j] \in held[j]
        /\ ~cmd.vanished /\ j \notin cmd.names /\ cmd.docs[j] = Missing => Missing \in held[j]
    BY <2>1 DEF BackupSeen
  <2>3. PICK k \in Keys :
          \/ /\ spec[k] \in Docs
             /\ cmd' = [cmd EXCEPT !.names = @ \ {k}, !.docs[k] = spec[k]]
          \/ cmd' = [cmd EXCEPT !.names = {}, !.vanished = TRUE]
          \/ cmd' = NoBackup
    BY <1>5 DEF BackupRead, Reads
  <2>4. CASE spec[k] \in Docs /\ cmd' = [cmd EXCEPT !.names = @ \ {k}, !.docs[k] = spec[k]]
    <3>1. /\ cmd'.names = cmd.names \ {k} /\ cmd'.vanished = cmd.vanished
          /\ cmd'.docs = [cmd.docs EXCEPT ![k] = spec[k]]
      BY <1>3, <2>4 DEF Backups
    <3>2. cmd'.docs[j] = IF j = k THEN spec[k] ELSE cmd.docs[j]
      BY <1>3, <3>1 DEF Backups
    <3> QED BY <1>2, <2>1, <2>2, <2>4, <3>1, <3>2, Distinct
  <2>5. CASE cmd' = [cmd EXCEPT !.names = {}, !.vanished = TRUE]
    <3>1. cmd'.docs = cmd.docs /\ cmd'.vanished
      BY <1>3, <2>5 DEF Backups
    <3> QED BY <1>2, <2>2, <3>1
  <2>6. CASE cmd' = NoBackup
    BY <2>6, NoBackupType
  <2> QED BY <2>3, <2>4, <2>5, <2>6
<1>6. CASE BackupWrite \/ KillBackup
  <2>1. cmd' = NoBackup
    BY <1>6 DEF BackupWrite, KillBackup, Reads
  <2> QED BY <2>1, NoBackupType
<1>7. CASE cmd' = cmd
  BY <1>2, <1>7 DEF BackupSeen
<1>8. CASE Agent \/ NextRuntime \/ Proceed \/ Fail \/ Return \/ Kill \/ Restore
  <2>1. cmd' = cmd
    BY <1>8 DEF Agent, Start, Resync, RemoveRuntime, Apply, NextRuntime, Proceed, Fail, Return,
                Kill, Restore
  <2> QED BY <1>7, <2>1
<1> QED BY <1>1, <1>4, <1>5, <1>6, <1>8 DEF Step, Backup

\* What the backup has read so far was in the files since it listed them.
THEOREM BackupSeenAlways == Spec => []BackupSeen
<1>1. Init => BackupSeen
  BY NoBackupType DEF Init, BackupSeen
<1>2. Inv /\ Inv' /\ BackupSeen /\ [Next]_vars => BackupSeen'
  <2>1. UNCHANGED vars /\ BackupSeen => BackupSeen'
    BY DEF vars, BackupSeen
  <2> QED BY <2>1, BackupSeenStep
<1> QED BY <1>1, <1>2, InvAlways, PTL DEF Spec

\* A backup that succeeds while the agent works has every Runtime whose document
\* was on disk all the time, and no document that was not (BackupComplete): LoadAll
\* in BackupTo, as long as no listed file vanishes before its turn.
THEOREM BackupsComplete == Spec => []BackupComplete
<1>1. BackupSeen => BackupComplete
  <2> SUFFICES ASSUME BackupSeen, Archiving, ~cmd.vanished, NEW k \in Keys
               PROVE  Archived(k)
    BY DEF BackupComplete
  <2>1. /\ cmd.docs[k] # Missing => cmd.docs[k] \in held[k]
        /\ cmd.docs[k] = Missing => Missing \in held[k]
    BY DEF BackupSeen, Archiving
  <2>2. Merged[k] = IF cmd.docs[k] # Missing THEN cmd.docs[k] ELSE legacy[k]
    BY DEF Merged
  <2> QED BY <2>1, <2>2 DEF Archived
<1> QED BY <1>1, BackupSeenAlways, PTL

-----------------------------------------------------------------------------
(* What clients were told *)

\* The elements of a sequence are its first and those of the rest.
LEMMA ElementsTail ==
  ASSUME NEW S, NEW t \in Seq(S), t # <<>>
  PROVE  Elements(t) = {Head(t)} \cup Elements(Tail(t)) /\ Head(t) \in Elements(t)
<1>1. /\ Len(t) \in Nat /\ Len(t) >= 1 /\ DOMAIN t = 1..Len(t) /\ Head(t) = t[1]
      /\ DOMAIN Tail(t) = 1..(Len(t) - 1)
      /\ \A j \in 1..(Len(t) - 1) : Tail(t)[j] = t[j + 1]
  BY TailElements
<1>2. Head(t) \in Elements(t)
  BY <1>1 DEF Elements
<1>3. ASSUME NEW x \in Elements(Tail(t)) PROVE x \in Elements(t)
  <2>1. PICK j \in 1..(Len(t) - 1) : x = Tail(t)[j]
    BY <1>1, <1>3 DEF Elements
  <2>2. j + 1 \in 1..Len(t) /\ x = t[j + 1]
    BY <1>1, <2>1
  <2> QED BY <1>1, <2>2 DEF Elements
<1>4. ASSUME NEW x \in Elements(t), x # Head(t) PROVE x \in Elements(Tail(t))
  <2>1. PICK j \in 1..Len(t) : x = t[j]
    BY <1>1, <1>4 DEF Elements
  <2>2. j # 1
    BY <1>1, <1>4, <2>1
  <2>3. j - 1 \in 1..(Len(t) - 1) /\ (j - 1) + 1 = j
    BY <1>1, <2>2
  <2>4. Tail(t)[j - 1] = x
    BY <1>1, <2>1, <2>3
  <2> QED BY <1>1, <2>3, <2>4 DEF Elements
<1> QED BY <1>2, <1>3, <1>4

\* The elements of a sequence with one more in front.
LEMMA ElementsPush ==
  ASSUME NEW S, NEW x \in S, NEW t \in Seq(S)
  PROVE  Elements(<<x>> \o t) = {x} \cup Elements(t)
<1>1. PICK u : u = <<x>> \o t
  OBVIOUS
<1>2. u \in Seq(S) /\ u # <<>> /\ Head(u) = x /\ Tail(u) = t
  BY <1>1, PushHead
<1>3. Elements(u) = {Head(u)} \cup Elements(Tail(u))
  BY <1>2, ElementsTail
<1> QED BY <1>1, <1>2, <1>3

\* The elements of a concatenation.
LEMMA ElementsConcat ==
  ASSUME NEW S, NEW s \in Seq(S), NEW t \in Seq(S)
  PROVE  Elements(s \o t) = Elements(s) \cup Elements(t)
<1>1. PICK u : u = s \o t
  OBVIOUS
<1>2. /\ Len(s) \in Nat /\ Len(t) \in Nat /\ DOMAIN s = 1..Len(s) /\ DOMAIN t = 1..Len(t)
  BY LenProperties
<1>3. /\ u \in Seq(S) /\ Len(u) = Len(s) + Len(t)
      /\ \A i \in 1..(Len(s) + Len(t)) : u[i] = IF i <= Len(s) THEN s[i] ELSE t[i - Len(s)]
  BY <1>1, ConcatProperties
<1>4. DOMAIN u = 1..(Len(s) + Len(t))
  BY <1>3, LenProperties
<1>5. ASSUME NEW x \in Elements(u) PROVE x \in Elements(s) \cup Elements(t)
  <2>1. PICK i \in 1..(Len(s) + Len(t)) : x = u[i]
    BY <1>4, <1>5 DEF Elements
  <2>2. CASE i <= Len(s)
    <3>1. i \in 1..Len(s) /\ x = s[i]
      BY <1>2, <1>3, <2>1, <2>2
    <3> QED BY <1>2, <3>1 DEF Elements
  <2>3. CASE ~(i <= Len(s))
    <3>1. i - Len(s) \in 1..Len(t) /\ x = t[i - Len(s)]
      BY <1>2, <1>3, <2>1, <2>3
    <3> QED BY <1>2, <3>1 DEF Elements
  <2> QED BY <2>2, <2>3
<1>6. ASSUME NEW x \in Elements(s) PROVE x \in Elements(u)
  <2>1. PICK i \in 1..Len(s) : x = s[i]
    BY <1>2, <1>6 DEF Elements
  <2>2. i \in 1..(Len(s) + Len(t)) /\ i <= Len(s)
    BY <1>2, <2>1
  <2> QED BY <1>3, <1>4, <2>1, <2>2 DEF Elements
<1>7. ASSUME NEW x \in Elements(t) PROVE x \in Elements(u)
  <2>1. PICK i \in 1..Len(t) : x = t[i]
    BY <1>2, <1>7 DEF Elements
  <2>2. i + Len(s) \in 1..(Len(s) + Len(t)) /\ ~(i + Len(s) <= Len(s)) /\ i + Len(s) - Len(s) = i
    BY <1>2, <2>1
  <2>3. u[i + Len(s)] = x
    BY <1>3, <2>1, <2>2
  <2> QED BY <1>4, <2>2, <2>3 DEF Elements
<1> QED BY <1>1, <1>5, <1>6, <1>7

\* The elements of short sequences.
LEMMA SmallElements ==
  ASSUME NEW a, NEW b, NEW c, NEW d
  PROVE  /\ Elements(<<>>) = {} /\ Elements(<<a>>) = {a} /\ Elements(<<a, b>>) = {a, b}
         /\ Elements(<<a, b, c>>) = {a, b, c} /\ Elements(<<a, b, c, d>>) = {a, b, c, d}
<1>1. Elements(<<>>) = {}
  BY DEF Elements
<1>2. Elements(<<a>>) = {a}
  BY DEF Elements
<1>3. Elements(<<a, b>>) = {a, b}
  BY DEF Elements
<1>4. Elements(<<a, b, c>>) = {a, b, c}
  BY DEF Elements
<1>5. Elements(<<a, b, c, d>>) = {a, b, c, d}
  BY DEF Elements
<1> QED BY <1>1, <1>2, <1>3, <1>4, <1>5

\* A call of the store, from its system calls.
LEMMA GroupOf ==
  ASSUME NEW x, NEW y, NEW k, NEW j
  PROVE  /\ Spares(Must(<<x, y>>), j)
         /\ ~Opens(x) /\ ~Opens(y) => Spares(Try(<<x, y>>), j)
         /\ ~Opens(x) => Spares(Try(<<x>>), j)
         /\ Stores(x, k) \/ Stores(y, k) => Delivers(Must(<<x, y>>), k)
<1>1. PICK s, t : s = <<x, y>> /\ t = <<x>>
  OBVIOUS
<1>2. Elements(s) = {x, y} /\ Elements(t) = {x}
  BY <1>1, SmallElements
<1>3. Must(s).must = TRUE /\ Must(s).calls = s /\ Try(s).calls = s /\ Try(t).calls = t
  BY DEF Must, Try
<1>4. Spares(Must(s), j)
  BY <1>3 DEF Spares
<1>5. ~Opens(x) /\ ~Opens(y) => Spares(Try(s), j)
  BY <1>2, <1>3 DEF Spares
<1>6. ~Opens(x) => Spares(Try(t), j)
  BY <1>2, <1>3 DEF Spares
<1>7. Stores(x, k) \/ Stores(y, k) => Delivers(Must(s), k)
  BY <1>2, <1>3 DEF Delivers
<1> QED BY <1>1, <1>4, <1>5, <1>6, <1>7

\* Which system calls open and which store.
LEMMA CallFacts ==
  ASSUME NEW k, NEW d
  PROVE  /\ ~Opens(Call("open status", k, d)) /\ ~Opens(Call("write status", k, d))
         /\ ~Opens(Call("append event", k, d))
         /\ Stores(Call("write spec", k, d), k) /\ Stores(Call("unlink spec", k, d), k)
BY DEF Call, Opens, Stores

\* A call whose error is not ignored spares every file.
LEMMA MustSpares ==
  ASSUME NEW s, NEW j
  PROVE  Spares(Must(s), j)
BY DEF Must, Spares

\* Which calls of the store deliver a document and which leave it alone.
LEMMA GroupFacts ==
  ASSUME NEW k \in Keys, NEW d
  PROVE  /\ \A j : Spares(Try(SaveStatus(k, d)), j) /\ Spares(Try(AppendEvent(k, d)), j)
         /\ Delivers(Must(SaveRuntime(k, d)), k) /\ Delivers(Must(DeleteRuntime(k)), k)
<1>1. \A j : Spares(Try(SaveStatus(k, d)), j)
  BY CallFacts, GroupOf DEF SaveStatus
<1>2. \A j : Spares(Try(AppendEvent(k, d)), j)
  BY CallFacts, GroupOf DEF AppendEvent
<1>3. Delivers(Must(SaveRuntime(k, d)), k)
  BY CallFacts, GroupOf DEF SaveRuntime
<1>4. Delivers(Must(DeleteRuntime(k)), k)
  BY CallFacts, GroupOf DEF DeleteRuntime
<1> QED BY <1>1, <1>2, <1>3, <1>4

\* An operation that will answer for k makes a call that delivers, and ignores
\* no error of one that opens k's spec file.
LEMMA ApplyDelivers ==
  ASSUME NEW k \in Keys, NEW d \in Docs, NEW v \in Docs, NEW calls,
         calls \in {ApplyWrites(k, v), RollbackWrites(k, d, v)}
  PROVE  /\ \E group \in Elements(calls) : Delivers(group, k)
         /\ \A group \in Elements(calls), j \in Keys : Spares(group, j)
<1>1. PICK e, w \in Docs :
        calls = <<Try(AppendEvent(k, e)), Try(SaveStatus(k, w)), Must(SaveRuntime(k, v)),
                  Must(SaveStatus(k, v))>>
  BY DEF ApplyWrites, RollbackWrites
<1>2. PICK a, b, c, f : /\ a = Try(AppendEvent(k, e)) /\ b = Try(SaveStatus(k, w))
                        /\ c = Must(SaveRuntime(k, v)) /\ f = Must(SaveStatus(k, v))
  OBVIOUS
<1>3. Elements(calls) = {a, b, c, f}
  <2>1. calls = <<a, b, c, f>>
    BY <1>1, <1>2
  <2>2. Elements(<<a, b, c, f>>) = {a, b, c, f}
    BY DEF Elements
  <2> QED BY <2>1, <2>2
<1>4. \A j : Spares(a, j) /\ Spares(b, j)
  BY <1>2, GroupFacts
<1>5. \A j : Spares(c, j) /\ Spares(f, j)
  BY <1>2, MustSpares
<1>6. Delivers(c, k)
  BY <1>2, GroupFacts
<1> QED BY <1>3, <1>4, <1>5, <1>6

\* What Remove has to do deletes its own runtime's file, and spares every other's.
LEMMA RemoveDelivers ==
  ASSUME NEW k \in Keys, NEW p, NEW calls,
         calls \in {<<>> \o <<Must(DeleteRuntime(k))>>,
                    <<Try(SaveStatus(k, p))>> \o <<Must(DeleteRuntime(k))>>}
  PROVE  /\ \E group \in Elements(calls) : Delivers(group, k)
         /\ \A group \in Elements(calls), j \in Keys : Spares(group, j)
<1>1. PICK a, b : a = Try(SaveStatus(k, p)) /\ b = Must(DeleteRuntime(k))
  OBVIOUS
<1>2. PICK r, s, t : r = <<>> /\ s = <<a>> /\ t = <<b>>
  OBVIOUS
<1>3. r \in Seq({a, b}) /\ s \in Seq({a, b}) /\ t \in Seq({a, b})
  BY <1>2, SmallSequences
<1>4. Elements(r) = {} /\ Elements(s) = {a} /\ Elements(t) = {b}
  BY <1>2, SmallElements
<1>5. Elements(r \o t) = {b} /\ Elements(s \o t) = {a, b}
  BY <1>3, <1>4, ElementsConcat, SMTT(30)
<1>6. Elements(calls) = {b} \/ Elements(calls) = {a, b}
  BY <1>1, <1>2, <1>5
<1>7. (\A j : Spares(a, j) /\ Spares(b, j)) /\ Delivers(b, k)
  BY <1>1, GroupFacts, MustSpares
<1> QED BY <1>6, <1>7

\* What a restore has to do for a runtime writes the archive's document of it, and
\* spares every other's.
LEMMA RestoreDelivers ==
  ASSUME NEW k \in Keys, archive.docs[k] \in Docs,
         archive.statuses[k] \in Values, archive.events[k] \in Seq(Docs)
  PROVE  /\ \E group \in Elements(RestoreWrites(k)) : Delivers(group, k)
         /\ \A group \in Elements(RestoreWrites(k)), j \in Keys : Spares(group, j)
<1>1. PICK st, es, d : st = archive.statuses[k] /\ es = archive.events[k] /\ d = archive.docs[k]
  OBVIOUS
<1>2. PICK S : S = {Must(x) : x \in {SaveRuntime(k, d), SaveStatus(k, st), WriteEvents(k, es)}}
  OBVIOUS
<1>3. PICK a, b, c : /\ a = <<Must(SaveRuntime(k, d))>> /\ b = StatusWrites(k)
                     /\ c = EventWrites(k)
  OBVIOUS
<1>4. /\ Must(SaveRuntime(k, d)) \in S /\ Must(SaveStatus(k, st)) \in S
      /\ Must(WriteEvents(k, es)) \in S
  BY <1>2
<1>5. a \in Seq(S) /\ b \in Seq(S) /\ c \in Seq(S)
  BY <1>1, <1>3, <1>4, SmallSequences DEF StatusWrites, EventWrites
<1>u. PICK u : u = b \o c
  OBVIOUS
<1>6. u \in Seq(S) /\ Elements(u) = Elements(b) \cup Elements(c)
  BY <1>5, <1>u, ConcatProperties, ElementsConcat
<1>7. Elements(a \o u) = Elements(a) \cup Elements(u)
  BY <1>5, <1>6, ElementsConcat
<1>8. RestoreWrites(k) = a \o u
  BY <1>1, <1>3, <1>u DEF RestoreWrites
<1>9. Elements(a) = {Must(SaveRuntime(k, d))}
  BY <1>3, SmallElements
<1>10. Elements(b) \subseteq {Must(SaveStatus(k, st))} /\ Elements(c) \subseteq {Must(WriteEvents(k, es))}
  BY <1>1, <1>3, SmallElements DEF StatusWrites, EventWrites
<1>11. (\A s, j : Spares(Must(s), j)) /\ Delivers(Must(SaveRuntime(k, d)), k)
  BY GroupFacts, MustSpares
<1> QED BY <1>6, <1>7, <1>8, <1>9, <1>10, <1>11

\* A system call that succeeds: what was pending stays so, unless it has just
\* been stored.
LEMMA ProceedPending ==
  ASSUME Inv, Proceed, NEW k \in Keys
  PROVE  /\ Pending(k) /\ ~Stores(Head(Head(todo).calls), k) => Pending(k)'
         /\ (\A group \in Elements(todo) : Spares(group, k)) =>
              /\ \A group \in Elements(todo') : Spares(group, k)
              /\ Opens(Head(Head(todo).calls)) /\ Head(Head(todo).calls).key = k => Pending(k)'
<1> DEFINE c == Head(todo)
           left == [calls |-> Tail(c.calls), must |-> c.must]
<1>1. /\ todo # <<>> /\ todo' = IF Len(c.calls) = 1 THEN Tail(todo) ELSE <<left>> \o Tail(todo)
  BY DEF Proceed
<1>2. /\ c \in Begun(op.grants) /\ c.calls \in Seq(SysCall) /\ c.calls # <<>> /\ c \in StoreCall
      /\ todo \in Seq(StoreCall)
  BY <1>1, NextCall DEF Inv, TypeOK
<1>3. Elements(todo) = {c} \cup Elements(Tail(todo)) /\ Tail(todo) \in Seq(StoreCall)
  BY <1>1, <1>2, ElementsTail, TailElements
<1>4. Elements(c.calls) = {Head(c.calls)} \cup Elements(Tail(c.calls))
  BY <1>2, ElementsTail
<1>5. left.calls = Tail(c.calls) /\ left.must = c.must
  OBVIOUS
<1>6. Opens(Head(c.calls)) => Len(c.calls) # 1
  <2>1. PICK s : s = c.calls
    OBVIOUS
  <2>2. WellFormed(s, op.grants) /\ s \in Seq(SysCall) /\ s # <<>>
    BY <1>2, <2>1 DEF Begun
  <2>3. DOMAIN s = 1..Len(s) /\ Head(s) = s[1] /\ Len(s) \in Nat /\ Len(s) >= 1
    BY <2>2, TailElements
  <2>4. 1 \in DOMAIN s /\ (Len(s) = 1 => 1 + 1 \notin DOMAIN s)
    BY <2>3
  <2> QED BY <2>1, <2>2, <2>3, <2>4 DEF WellFormed
<1>7. Opens(Head(c.calls)) =>
        Head(Tail(c.calls)) \in Elements(left.calls)
        /\ Completes(Head(c.calls), Head(Tail(c.calls)))
  <2> SUFFICES ASSUME Opens(Head(c.calls))
               PROVE  Head(Tail(c.calls)) \in Elements(left.calls)
                      /\ Completes(Head(c.calls), Head(Tail(c.calls)))
    OBVIOUS
  <2>1. Tail(c.calls) # <<>> /\ Completes(Head(c.calls), Head(Tail(c.calls)))
    BY <1>2, <1>6, TailWellFormed
  <2>2. Tail(c.calls) \in Seq(SysCall)
    BY <1>2, TailElements
  <2> QED BY <1>5, <2>1, <2>2, ElementsTail
<1>8. Len(c.calls) # 1 => Elements(todo') = {left} \cup Elements(Tail(todo))
  <2> SUFFICES ASSUME Len(c.calls) # 1
               PROVE  Elements(todo') = {left} \cup Elements(Tail(todo))
    OBVIOUS
  <2>1. left \in StoreCall
    BY <1>2, TailWellFormed DEF Begun
  <2>2. PICK x, t : x = left /\ t = Tail(todo)
    OBVIOUS
  <2>3. x \in StoreCall /\ t \in Seq(StoreCall)
    BY <1>3, <2>1, <2>2
  <2>4. Elements(<<x>> \o t) = {x} \cup Elements(t)
    BY <2>3, ElementsPush
  <2> QED BY <1>1, <2>2, <2>4
<1>9. Len(c.calls) = 1 => Elements(todo') = Elements(Tail(todo)) /\ Elements(c.calls) = {Head(c.calls)}
  <2> SUFFICES ASSUME Len(c.calls) = 1
               PROVE  Elements(todo') = Elements(Tail(todo)) /\ Elements(c.calls) = {Head(c.calls)}
    OBVIOUS
  <2>1. todo' = Tail(todo)
    BY <1>1
  <2>2. PICK s : s = c.calls
    OBVIOUS
  <2>3. DOMAIN s = 1..1 /\ Head(s) = s[1]
    BY <1>2, <2>2, TailElements
  <2>4. Elements(s) = {Head(s)}
    BY <2>3 DEF Elements
  <2> QED BY <2>1, <2>2, <2>4
<1> HIDE DEF c, left
<1>10. ASSUME Pending(k), ~Stores(Head(c.calls), k) PROVE Pending(k)'
  <2>1. PICK group \in Elements(todo) : Delivers(group, k)
    BY <1>10 DEF Pending
  <2>2. CASE group \in Elements(Tail(todo))
    BY <1>8, <1>9, <2>1, <2>2 DEF Pending
  <2>3. CASE group = c
    <3>1. Len(c.calls) # 1
      BY <1>9, <1>10, <2>1, <2>3 DEF Delivers
    <3>2. Delivers(left, k)
      BY <1>4, <1>5, <1>10, <2>1, <2>3 DEF Delivers
    <3> QED BY <1>8, <3>1, <3>2 DEF Pending
  <2> QED BY <1>3, <2>1, <2>2, <2>3
<1>11. ASSUME \A group \in Elements(todo) : Spares(group, k)
       PROVE  \A group \in Elements(todo') : Spares(group, k)
  <2>1. Spares(left, k)
    BY <1>3, <1>4, <1>5, <1>11 DEF Spares
  <2> QED BY <1>3, <1>8, <1>9, <1>11, <2>1
<1>12. ASSUME \A group \in Elements(todo) : Spares(group, k),
              Opens(Head(c.calls)), Head(c.calls).key = k
       PROVE  Pending(k)'
  <2>1. c.must
    BY <1>3, <1>4, <1>12 DEF Spares
  <2>2. Stores(Head(Tail(c.calls)), k)
    BY <1>7, <1>12, CompletesWrites DEF Stores, Writes
  <2>3. Delivers(left, k)
    BY <1>5, <1>7, <1>12, <2>1, <2>2 DEF Delivers
  <2> QED BY <1>6, <1>8, <1>12, <2>3 DEF Pending
<1> QED BY <1>10, <1>11, <1>12 DEF c

\* Apply or Remove begins: it will answer for k, and what clients were told of
\* the others stays.
LEMMA ClientAcked ==
  ASSUME Inv, AckedKept, NEW k \in Keys, NEW v \in Values, NEW ack \in {v, Unknown}, NEW calls,
         Serves, Begins(k, v, ack, calls), specs' = [specs EXCEPT ![k] = v],
         UNCHANGED <<spec, legacy, up, acked>>,
         ack = v => /\ \E group \in Elements(calls) : Delivers(group, k)
                    /\ \A group \in Elements(calls), j \in Keys : Spares(group, j)
  PROVE  AckedKept' /\ AcksDelivered'
<1>1. /\ op'.kind = "client" /\ op'.rest = {} /\ op'.about = {k} /\ op'.acks = Everywhere(ack)
      /\ op'.grants = Only(k, {v}) /\ todo' = calls
  BY BeginsType
<1>2. op'.acks[k] = ack /\ op'.grants[k] = {v} /\ \A j \in Keys \ {k} : op'.grants[j] = {}
  BY <1>1 DEF Only, Everywhere
<1>3. op.about = {} /\ up
  BY IdleType DEF Inv, Control, Serves
<1>4. specs'[k] = v /\ \A j \in Keys \ {k} : specs'[j] = specs[j]
  BY DEF Inv, TypeOK
<1>5. AckedKept'
  BY <1>1, <1>3, <1>4 DEF AckedKept, Covered
<1>6. ASSUME ack # Unknown
      PROVE  /\ op'.grants[k] \subseteq {op'.acks[k]} /\ specs'[k] = op'.acks[k] /\ Pending(k)'
             /\ \A group \in Elements(todo') : Spares(group, k)
  BY <1>1, <1>2, <1>4, <1>6 DEF Pending
<1>7. AcksDelivered'
  BY <1>1, <1>2, <1>6 DEF AcksDelivered
<1> QED BY <1>5, <1>7

\* A loop begins.
LEMMA LoopAcked ==
  ASSUME Inv, AckedKept, Resync \/ Start \/ Restore
  PROVE  AckedKept' /\ AcksDelivered'
<1>1. op.kind = "none" /\ UNCHANGED <<spec, legacy, up, acked>>
  BY DEF Resync, Start, Restore, Serves, files
<1>2. op.about = {}
  BY <1>1, IdleType DEF Inv, Control
<1>3. CASE Resync
  <2>1. op'.about = {} /\ op'.kind = "resync" /\ specs' = specs /\ up
    BY <1>3 DEF Resync, BeginsLoop, Operation, Serves
  <2>2. AckedKept'
    BY <1>1, <1>2, <2>1 DEF AckedKept, Covered
  <2> QED BY <2>1, <2>2 DEF AcksDelivered
<1>4. CASE Start
  <2>1. op'.about = {} /\ op'.kind = "load" /\ specs' = LoadAll /\ Loadable
    BY <1>4 DEF Start, BeginsLoop, Operation
  <2>2. \A k \in Keys : Covered(k) => LoadAll[k] = acked[k]
    BY <1>2, <2>1 DEF AckedKept, Covered, LoadAll, Loadable
  <2>3. AckedKept'
    BY <1>1, <1>2, <2>1, <2>2 DEF AckedKept, Covered
  <2> QED BY <2>1, <2>3 DEF AcksDelivered
<1>5. CASE Restore
  <2>1. /\ ~up /\ archive \notin {Missing, Torn}
        /\ BeginsLoop("restore", [k \in Keys |-> {archive.docs[k]} \ {Missing}],
                      Present(archive.docs), archive.docs, Present(archive.docs))
    BY <1>5 DEF Restore
  <2>2. archive.docs \in [Keys -> Values]
    BY <2>1, MemoryType DEF Inv
  <2>3. archive.docs \in [Keys -> Values \cup {Unknown}]
    BY <2>2
  <2>4. /\ op'.kind = "restore" /\ op'.about = Present(archive.docs)
        /\ op'.grants = [k \in Keys |-> {archive.docs[k]} \ {Missing}]
        /\ op'.acks = archive.docs /\ op'.rest = Present(archive.docs) /\ todo' = <<>>
    BY <2>1, <2>2, <2>3, LoopGrants, BeginsLoopType
  <2>5. AckedKept'
    BY <1>1, <1>2, <2>1, <2>4 DEF AckedKept, Covered
  <2>6. Elements(todo') = {}
    BY <2>4, SmallElements
  <2>7. \A k \in op'.about : k \in Keys /\ k \in op'.rest /\ op'.grants[k] \subseteq {op'.acks[k]}
    BY <2>4 DEF Present
  <2>8. AcksDelivered'
    BY <2>4, <2>6, <2>7 DEF AcksDelivered
  <2> QED BY <2>5, <2>8
<1> QED BY <1>3, <1>4, <1>5

\* A loop goes on: what it has visited before is stored, what it visits now is
\* pending.
LEMMA NextRuntimeAcked ==
  ASSUME Inv, AckedKept, AcksDelivered, NextRuntime
  PROVE  AckedKept' /\ AcksDelivered'
<1>1. /\ op'.kind = op.kind /\ op'.grants = op.grants
      /\ op'.about = op.about /\ op'.acks = op.acks /\ op'.rest \subseteq op.rest
      /\ op.kind \in {"resync", "load", "restore"} /\ todo = <<>>
      /\ UNCHANGED <<spec, legacy, archive, up, specs, acked>>
  BY NextRuntimeOp
<1>2. AckedKept'
  BY <1>1 DEF AckedKept, Covered
<1>3. CASE op.kind # "restore"
  <2>1. op.about = {}
    BY <1>1, <1>3 DEF Inv, Control
  <2> QED BY <1>1, <1>2, <2>1 DEF AcksDelivered
<1>4. CASE op.kind = "restore"
  <2>1. PICK k \in Keys : /\ First(op.rest, k) /\ op' = [op EXCEPT !.rest = @ \ {k}]
                          /\ todo' = RestoreWrites(k)
    BY <1>4 DEF NextRuntime
  <2>2. k \in op.rest /\ op'.rest = op.rest \ {k}
    BY <2>1 DEF First, Inv, TypeOK, Operations
  <2>3. archive \notin {Missing, Torn} /\ k \in Present(archive.docs)
    BY <1>4, <2>2 DEF Inv, Control
  <2>4. archive.docs[k] \in Docs /\ archive.statuses[k] \in Values /\ archive.events[k] \in Seq(Docs)
    BY <2>3, MemoryType DEF Inv, Present, Values
  <2>5. /\ Pending(k)' /\ \A group \in Elements(todo'), j \in Keys : Spares(group, j)
    BY <2>1, <2>4, RestoreDelivers DEF Pending
  <2>6. ~\E j : Pending(j)
    BY <1>1, SmallElements DEF Pending
  <2>7. op.about \subseteq Keys
    BY DEF Inv, TypeOK, Operations
  <2>8. ASSUME NEW j \in op.about, op.acks[j] # Unknown
        PROVE  /\ op.grants[j] \subseteq {op.acks[j]}
               /\ j \notin op'.rest => spec[j] = op.acks[j] \/ Pending(j)'
               /\ \A group \in Elements(todo') : Spares(group, j)
    <3>1. /\ op.grants[j] \subseteq {op.acks[j]}
          /\ j \notin op.rest => spec[j] = op.acks[j]
      BY <2>6, <2>8 DEF AcksDelivered
    <3> QED BY <2>2, <2>5, <2>7, <3>1
  <2>9. AcksDelivered'
    BY <1>1, <1>4, <2>8 DEF AcksDelivered
  <2> QED BY <1>2, <2>9
<1> QED BY <1>3, <1>4

\* A system call that succeeds.
LEMMA ProceedAcked ==
  ASSUME Inv, AckedKept, AcksDelivered, Proceed
  PROVE  AckedKept' /\ AcksDelivered'
<1>1. PICK c : c = Head(Head(todo).calls)
  OBVIOUS
<1>2. todo # <<>> /\ UNCHANGED <<legacy, archive, up, specs, op, acked>>
  BY DEF Proceed
<1>3. c \in SysCall /\ Allowed(c, op.grants)
  BY <1>1, <1>2, NextCall DEF Inv
<1>4. c.key \in Keys
  BY <1>3 DEF SysCall
<1>5. Effect(c)
  BY <1>1, ProceedCalls DEF Inv
<1>6. spec \in [Keys -> Held]
  BY DEF Inv, TypeOK
<1>7. ASSUME NEW k \in Keys
      PROVE  \/ Opens(c) /\ c.key = k /\ spec'[k] = Torn
             \/ Stores(c, k) /\ spec'[k] \in op.grants[k]
             \/ ~Stores(c, k) /\ ~(Opens(c) /\ c.key = k) /\ spec'[k] = spec[k]
  <2>1. CASE c.do = "open spec"
    <3>1. spec' = [spec EXCEPT ![c.key] = Torn]
      BY <1>5, <2>1 DEF Effect
    <3> QED BY <1>6, <2>1, <3>1 DEF Opens, Stores
  <2>2. CASE c.do \in {"write spec", "unlink spec"}
    <3>1. spec' = [spec EXCEPT ![c.key] = c.value]
      BY <1>5, <2>2 DEF Effect
    <3>2. c.value \in op.grants[c.key]
      BY <1>3, <2>2 DEF Allowed
    <3> QED BY <1>4, <1>6, <2>2, <3>1, <3>2 DEF Opens, Stores
  <2>3. CASE c.do \notin {"open spec", "write spec", "unlink spec"}
    <3>1. spec' = spec
      BY <1>5, <2>3 DEF Effect
    <3> QED BY <2>3, <3>1 DEF Opens, Stores
  <2> QED BY <2>1, <2>2, <2>3
<1>8. op.kind \in {"client", "resync", "load", "restore"}
  BY <1>2 DEF Inv, TypeOK, Operations, Control
<1>9. AckedKept'
  <2> SUFFICES ASSUME NEW k \in Keys, Covered(k), k \notin op.about
               PROVE  spec'[k] \in {acked[k], Torn}
    BY <1>2 DEF AckedKept, Covered
  <2>1. spec[k] \in {acked[k], Torn}
    BY DEF AckedKept
  <2>2. op.grants[k] \subseteq {acked[k]}
    <3>1. CASE op.kind = "client"
      BY <3>1 DEF AcksDelivered
    <3>2. CASE op.kind \in {"resync", "load"}
      <4>1. op.grants[k] = {specs[k]} \ {Missing} /\ (op.kind = "resync" => up)
        BY <3>2 DEF Inv, Control
      <4>2. specs[k] = acked[k]
        BY <3>2, <4>1 DEF AckedKept
      <4> QED BY <4>1, <4>2
    <3>3. CASE op.kind = "restore"
      <4>1. op.grants[k] = {archive.docs[k]} \ {Missing} /\ k \notin Present(archive.docs)
        BY <3>3 DEF Inv, Control
      <4> QED BY <4>1 DEF Present
    <3> QED BY <1>8, <3>1, <3>2, <3>3
  <2> QED BY <1>7, <2>1, <2>2
<1>10. AcksDelivered'
  <2>1. op.about \subseteq Keys
    BY DEF Inv, TypeOK, Operations
  <2>2. ASSUME NEW k \in op.about, op.acks[k] # Unknown
        PROVE  /\ op.grants[k] \subseteq {op.acks[k]}
               /\ op.kind = "client" => specs[k] = op.acks[k]
               /\ k \notin op.rest => spec'[k] = op.acks[k] \/ Pending(k)'
               /\ \A group \in Elements(todo') : Spares(group, k)
    <3>1. /\ op.grants[k] \subseteq {op.acks[k]}
          /\ op.kind = "client" => specs[k] = op.acks[k]
          /\ k \notin op.rest => spec[k] = op.acks[k] \/ Pending(k)
          /\ \A group \in Elements(todo) : Spares(group, k)
      BY <2>2 DEF AcksDelivered
    <3>2. /\ Pending(k) /\ ~Stores(c, k) => Pending(k)'
          /\ \A group \in Elements(todo') : Spares(group, k)
          /\ Opens(c) /\ c.key = k => Pending(k)'
      BY <1>1, <2>1, <2>2, <3>1, ProceedPending
    <3> QED BY <1>7, <2>1, <2>2, <3>1, <3>2
  <2> QED BY <1>2, <2>2 DEF AcksDelivered
<1> QED BY <1>9, <1>10

\* An operation that ends with an error or with its process: nothing is known of
\* the Runtimes it would have answered for.
LEMMA EndsUnknown ==
  ASSUME Inv, AckedKept, Ends(Everywhere(Unknown)), UNCHANGED <<spec, legacy>>,
         up' => up /\ specs' = specs
  PROVE  AckedKept' /\ AcksDelivered'
<1>1. /\ acked' = [k \in Keys |-> IF k \in op.about THEN Unknown ELSE acked[k]] /\ op' = Idle
  BY DEF Ends, Everywhere
<1>2. op'.about = {} /\ op'.kind = "none"
  BY <1>1, IdleType
<1>3. \A k \in Keys : Covered(k)' => Covered(k) /\ k \notin op.about /\ acked'[k] = acked[k]
  BY <1>1 DEF Covered
<1>4. AckedKept'
  BY <1>2, <1>3 DEF AckedKept
<1>5. AcksDelivered'
  BY <1>2 DEF AcksDelivered
<1> QED BY <1>4, <1>5

\* A system call that fails.
LEMMA FailAcked ==
  ASSUME Inv, AckedKept, AcksDelivered, Fail
  PROVE  AckedKept' /\ AcksDelivered'
<1>1. todo # <<>> /\ UNCHANGED <<spec, legacy, archive, up>>
  BY DEF Fail, files
<1>2. CASE Head(todo).must
  <2>1. /\ Ends(Everywhere(Unknown))
        /\ specs' = IF op.kind = "load" THEN Everywhere(Missing) ELSE specs
    BY <1>2 DEF Fail
  <2>2. up' => up /\ specs' = specs
    BY <1>1, <2>1 DEF Inv, Control
  <2> QED BY <1>1, <2>1, <2>2, EndsUnknown
<1>3. CASE ~Head(todo).must
  <2>1. todo' = Tail(todo) /\ UNCHANGED <<op, specs, acked>>
    BY <1>3 DEF Fail
  <2>2. Elements(todo) = {Head(todo)} \cup Elements(todo')
    BY <1>1, <2>1, ElementsTail DEF Inv, TypeOK
  <2>3. \A k : Pending(k) => Pending(k)'
    BY <1>3, <2>2 DEF Pending, Delivers
  <2>4. AckedKept'
    BY <1>1, <2>1 DEF AckedKept, Covered
  <2>5. AcksDelivered'
    BY <1>1, <2>1, <2>2, <2>3 DEF AcksDelivered
  <2> QED BY <2>4, <2>5
<1> QED BY <1>2, <1>3

\* An operation that returns has stored what it answers.
LEMMA ReturnAcked ==
  ASSUME Inv, AckedKept, AcksDelivered, Return
  PROVE  AckedKept' /\ AcksDelivered'
<1>1. /\ todo = <<>> /\ op.rest = {} /\ up' = (up \/ op.kind = "load") /\ op.kind # "none"
      /\ UNCHANGED <<spec, legacy, specs>>
      /\ acked' = [k \in Keys |-> IF k \in op.about THEN op.acks[k] ELSE acked[k]] /\ op' = Idle
  BY DEF Return, files, Ends
<1>2. op'.about = {} /\ op'.kind = "none"
  BY <1>1, IdleType
<1>3. ~\E k : Pending(k)
  BY <1>1, SmallElements DEF Pending
<1>4. AckedKept'
  <2> SUFFICES ASSUME NEW k \in Keys, Covered(k)'
               PROVE  /\ spec[k] \in {acked'[k], Torn}
                      /\ up \/ op.kind = "load" => specs[k] = acked'[k]
    BY <1>1, <1>2 DEF AckedKept
  <2>1. CASE k \in op.about
    <3>1. acked'[k] = op.acks[k] /\ op.acks[k] # Unknown
      BY <1>1, <2>1 DEF Covered
    <3>2. spec[k] = op.acks[k] /\ (op.kind = "client" => specs[k] = op.acks[k])
      BY <1>1, <1>3, <2>1, <3>1 DEF AcksDelivered
    <3>3. op.kind \in {"client", "restore"}
      BY <1>1, <2>1 DEF Inv, Control, TypeOK, Operations
    <3>4. op.kind = "restore" => ~up
      BY DEF Inv, Control
    <3> QED BY <3>1, <3>2, <3>3, <3>4
  <2>2. CASE k \notin op.about
    <3>1. acked'[k] = acked[k] /\ Covered(k)
      BY <1>1, <2>2 DEF Covered
    <3> QED BY <2>2, <3>1 DEF AckedKept
  <2> QED BY <2>1, <2>2
<1>5. AcksDelivered'
  BY <1>2 DEF AcksDelivered
<1> QED BY <1>4, <1>5

\* Every step keeps what clients were told.
LEMMA NextAcked == Inv /\ AckedKept /\ AcksDelivered /\ [Next]_vars => AckedKept' /\ AcksDelivered'
<1> SUFFICES ASSUME Inv, AckedKept, AcksDelivered, [Next]_vars
             PROVE  AckedKept' /\ AcksDelivered'
  OBVIOUS
<1>1. ASSUME NEW k \in Keys, NEW d \in Docs, Apply(k, d)
      PROVE  AckedKept' /\ AcksDelivered'
  <2>1. Serves /\ UNCHANGED <<spec, legacy, up, acked>>
    BY <1>1 DEF Apply, files
  <2>2. PICK v \in Docs, ack \in Docs \cup {Unknown} : \E calls :
          /\ Begins(k, v, ack, calls) /\ specs' = [specs EXCEPT ![k] = v] /\ ack \in {v, Unknown}
          /\ ack = v => calls \in {ApplyWrites(k, v), RollbackWrites(k, d, v)}
    <3>1. \/ Begins(k, d, d, ApplyWrites(k, d)) /\ specs' = [specs EXCEPT ![k] = d]
          \/ Begins(k, d, Unknown, FailedWrites(k, d)) /\ specs' = [specs EXCEPT ![k] = d]
          \/ /\ Previous(k) \in Docs /\ specs' = [specs EXCEPT ![k] = Previous(k)]
             /\ Begins(k, Previous(k), Previous(k), RollbackWrites(k, d, Previous(k)))
      BY <1>1 DEF Apply
    <3> QED BY <3>1, Distinct
  <2>3. PICK calls : /\ Begins(k, v, ack, calls) /\ specs' = [specs EXCEPT ![k] = v]
                     /\ ack \in {v, Unknown}
                     /\ ack = v => calls \in {ApplyWrites(k, v), RollbackWrites(k, d, v)}
    BY <2>2
  <2>4. ack = v => /\ \E group \in Elements(calls) : Delivers(group, k)
                   /\ \A group \in Elements(calls), j \in Keys : Spares(group, j)
    BY <2>3, ApplyDelivers
  <2>5. v \in Values
    BY DEF Values
  <2> QED BY <2>1, <2>3, <2>4, <2>5, ClientAcked
<1>2. ASSUME NEW k \in Keys, RemoveRuntime(k)
      PROVE  AckedKept' /\ AcksDelivered'
  <2>1. /\ Serves /\ UNCHANGED <<spec, legacy, up, acked>>
        /\ specs' = [specs EXCEPT ![k] = Missing]
    BY <1>2 DEF RemoveRuntime, files
  <2>2. PICK calls :
          /\ Begins(k, Missing, Missing, calls)
          /\ calls = (IF Previous(k) \in Docs THEN <<Try(SaveStatus(k, Previous(k)))>> ELSE <<>>)
                       \o <<Must(DeleteRuntime(k))>>
    BY <1>2 DEF RemoveRuntime
  <2>3. /\ \E group \in Elements(calls) : Delivers(group, k)
        /\ \A group \in Elements(calls), j \in Keys : Spares(group, j)
    BY <2>2, RemoveDelivers
  <2>4. Missing \in Values
    BY DEF Values
  <2> QED BY <2>1, <2>2, <2>3, <2>4, ClientAcked
<1>3. CASE Agent
  BY <1>1, <1>2, <1>3, LoopAcked DEF Agent
<1>4. CASE Restore
  BY <1>4, LoopAcked
<1>5. CASE Kill
  <2>1. Ends(Everywhere(Unknown)) /\ up' = FALSE /\ UNCHANGED <<spec, legacy>>
    BY <1>5 DEF Kill, files
  <2> QED BY <2>1, EndsUnknown
<1>6. CASE Backup \/ KillBackup \/ UNCHANGED vars
  <2>1. UNCHANGED <<spec, legacy, up, specs, op, todo, acked>>
    BY <1>6, BackupSteps DEF vars, files
  <2>2. AckedKept'
    BY <2>1 DEF AckedKept, Covered
  <2>3. AcksDelivered'
    BY <2>1 DEF AcksDelivered, Pending
  <2> QED BY <2>2, <2>3
<1> QED BY <1>3, <1>4, <1>5, <1>6, NextRuntimeAcked, ProceedAcked, FailAcked, ReturnAcked
       DEF Next, Step

\* An operation stores what it answers, and what was answered stays.
THEOREM AcksKept == Spec => [](AckedKept /\ AcksDelivered)
<1>1. Init => AckedKept /\ AcksDelivered
  BY IdleType DEF Init, AckedKept, AcksDelivered, Covered, Everywhere
<1> QED BY <1>1, NextAcked, InvAlways, PTL DEF Spec

\* A document a client was told is applied, rolled back to, restored or deleted
\* is what the spec file holds until another operation on that Runtime ends,
\* through restarts, failures and operations on others, unless a write was cut
\* short; and it is what the agent has in memory after a restart (AckedSurvives).
THEOREM AnswersSurvive == Spec => []AckedSurvives
<1>1. Inv /\ AckedKept => AckedSurvives
  <2> SUFFICES ASSUME Inv, AckedKept, NEW k \in Keys, Covered(k)
               PROVE  /\ spec[k] \in {acked[k], Torn} \/ k \in op.about
                      /\ up /\ op.kind = "none" => specs[k] = acked[k]
    BY DEF AckedSurvives
  <2>1. op.kind = "none" => op.about = {}
    BY IdleType DEF Inv, Control
  <2> QED BY <2>1 DEF AckedKept
<1> QED BY <1>1, InvAlways, AcksKept, PTL

-----------------------------------------------------------------------------
(* The restore command *)

\* A system call of the first of the calls left.
LEMMA ProceedFrom ==
  ASSUME Proceed, NEW S, NEW s, NEW r \in Seq(S), Must(s) \in S, todo = <<Must(s)>> \o r
  PROVE  /\ Effect(Head(s)) /\ UNCHANGED <<archive, op>>
         /\ todo' = IF Len(s) = 1 THEN r ELSE <<Must(Tail(s))>> \o r
<1>1. Head(todo) = Must(s) /\ Tail(todo) = r
  BY PushHead
<1>2. Must(s).calls = s /\ Must(s).must = TRUE
  BY DEF Must
<1>3. /\ Effect(Head(Head(todo).calls)) /\ UNCHANGED <<archive, op>>
      /\ todo' = IF Len(Head(todo).calls) = 1 THEN Tail(todo)
                 ELSE <<[calls |-> Tail(Head(todo).calls), must |-> Head(todo).must]>> \o Tail(todo)
  BY DEF Proceed
<1>4. Must(Tail(s)) = [calls |-> Tail(s), must |-> TRUE]
  BY DEF Must
<1> QED BY <1>1, <1>2, <1>3, <1>4

\* What a system call does to the status and event files.
LEMMA EffectOnFiles ==
  ASSUME NEW f, NEW k, NEW v, Effect(Call(f, k, v))
  PROVE  /\ f \in {"open spec", "write spec"} => status' = status /\ events' = events
         /\ f = "open status" => status' = [status EXCEPT ![k] = Torn] /\ events' = events
         /\ f = "write status" => status' = [status EXCEPT ![k] = v] /\ events' = events
         /\ f = "open events" => status' = status /\ events' = [events EXCEPT ![k] = <<>>]
<1>1. PICK c : c = Call(f, k, v)
  OBVIOUS
<1>2. c.do = f /\ c.key = k /\ c.value = v
  BY <1>1 DEF Call
<1>3. Effect(c)
  BY <1>1
<1>4. f \in {"open spec", "write spec"} => status' = status /\ events' = events
  BY <1>2, <1>3 DEF Effect
<1>5. f = "open status" => status' = [status EXCEPT ![k] = Torn] /\ events' = events
  BY <1>2, <1>3 DEF Effect
<1>6. f = "write status" => status' = [status EXCEPT ![k] = v] /\ events' = events
  BY <1>2, <1>3 DEF Effect
<1>7. f = "open events" => status' = status /\ events' = [events EXCEPT ![k] = <<>>]
  BY <1>2, <1>3 DEF Effect
<1> QED BY <1>4, <1>5, <1>6, <1>7

\* Appending an event.
LEMMA AppendEffect ==
  ASSUME NEW k, NEW v, Effect(Call("append event", k, v))
  PROVE  status' = status /\ events' = [events EXCEPT ![k] = Append(events[k], v)]
<1>1. PICK c : c = Call("append event", k, v)
  OBVIOUS
<1>2. c.do = "append event" /\ c.key = k /\ c.value = v
  BY <1>1 DEF Call
<1>3. Effect(c)
  BY <1>1
<1>4. status' = status
  BY <1>2, <1>3 DEF Effect
<1>5. events' = [events EXCEPT ![k] = Append(events[k], v)]
  BY <1>2, <1>3 DEF Effect
<1> QED BY <1>4, <1>5

\* One of two system calls, or the second alone.
LEMMA HeadOfTwo ==
  ASSUME NEW a, NEW b
  PROVE  /\ Head(<<a, b>>) = a /\ Len(<<a, b>>) # 1 /\ Tail(<<a, b>>) = <<b>>
         /\ Head(<<b>>) = b /\ Len(<<b>>) = 1
OBVIOUS

\* The appends that are left when m events are written.
LEMMA AppendsLeft ==
  ASSUME NEW k \in Keys, NEW es \in Seq(Docs), NEW m \in 0..(Len(es) - 1)
  PROVE  /\ Appends(k, es, m) \in Seq(SysCall) /\ Appends(k, es, m) # <<>>
         /\ Head(Appends(k, es, m)) = Call("append event", k, es[m + 1])
         /\ Len(Appends(k, es, m)) = Len(es) - m /\ m + 1 \in 1..Len(es)
         /\ m + 1 < Len(es) => Tail(Appends(k, es, m)) = Appends(k, es, m + 1)
         /\ Append(SubSeq(es, 1, m), es[m + 1]) = SubSeq(es, 1, m + 1)
<1>1. Len(es) \in Nat /\ \A i \in 1..Len(es) : es[i] \in Docs
  BY LenProperties
<1>2. \A x \in Docs : Call("append event", k, x) \in SysCall
  BY DEF Call, SysCall, SysCalls, Values
<1>3. ASSUME NEW n \in 0..(Len(es) - 1)
      PROVE  /\ Appends(k, es, n) \in Seq(SysCall) /\ Len(Appends(k, es, n)) = Len(es) - n
             /\ Appends(k, es, n) # <<>>
             /\ \A i \in 1..(Len(es) - n) : Appends(k, es, n)[i] = Call("append event", k, es[n + i])
  <2>1. PICK t : t = Appends(k, es, n)
    OBVIOUS
  <2>2. /\ DOMAIN t = 1..(Len(es) - n)
        /\ \A i \in 1..(Len(es) - n) : t[i] = Call("append event", k, es[n + i])
    BY <2>1 DEF Appends
  <2>3. Len(es) - n \in Nat /\ Len(es) - n >= 1 /\ \A i \in 1..(Len(es) - n) : n + i \in 1..Len(es)
    BY <1>1, <1>3
  <2>4. \A i \in 1..(Len(es) - n) : t[i] \in SysCall
    BY <1>1, <1>2, <2>2, <2>3
  <2>5. t = [i \in 1..(Len(es) - n) |-> t[i]]
    BY <2>1, <2>2 DEF Appends
  <2>6. t \in [1..(Len(es) - n) -> SysCall]
    BY <2>4, <2>5
  <2>7. t \in Seq(SysCall)
    BY <2>3, <2>6, SeqDef
  <2>8. Len(t) \in Nat /\ 1..Len(t) = 1..(Len(es) - n)
    BY <2>2, <2>7, LenProperties
  <2>9. Len(t) = Len(es) - n
    BY <2>3, <2>8
  <2>10. t # <<>>
    BY <2>3, <2>7, <2>9, EmptySeq
  <2> QED BY <2>1, <2>2, <2>7, <2>9, <2>10
<1>4. m + 1 \in 1..Len(es) /\ 1 \in 1..(Len(es) - m)
  BY <1>1
<1>5. PICK t : t = Appends(k, es, m)
  OBVIOUS
<1>6. /\ t \in Seq(SysCall) /\ Len(t) = Len(es) - m /\ t # <<>>
      /\ \A i \in 1..(Len(es) - m) : t[i] = Call("append event", k, es[m + i])
  BY <1>3, <1>5
<1>7. Head(t) = Call("append event", k, es[m + 1])
  <2>1. Head(t) = t[1]
    BY <1>6, TailElements
  <2> QED BY <1>4, <1>6, <2>1
<1>8. ASSUME m + 1 < Len(es) PROVE Tail(t) = Appends(k, es, m + 1)
  <2>1. PICK u : u = Appends(k, es, m + 1)
    OBVIOUS
  <2>2. m + 1 \in 0..(Len(es) - 1)
    BY <1>1, <1>8
  <2>3. /\ u \in Seq(SysCall) /\ Len(u) = Len(es) - (m + 1)
        /\ \A i \in 1..(Len(es) - (m + 1)) : u[i] = Call("append event", k, es[(m + 1) + i])
    BY <1>3, <2>1, <2>2
  <2>4. /\ Tail(t) \in Seq(SysCall) /\ Len(Tail(t)) = Len(t) - 1
        /\ \A i \in 1..(Len(t) - 1) : Tail(t)[i] = t[i + 1]
    BY <1>6, TailElements
  <2>5. Len(Tail(t)) = Len(es) - m - 1 /\ Len(t) - 1 = Len(es) - m - 1
    BY <1>6, <2>4
  <2>6. /\ Len(es) - m - 1 = Len(es) - (m + 1)
        /\ \A i \in 1..(Len(es) - m - 1) :
             i + 1 \in 1..(Len(es) - m) /\ i \in 1..(Len(es) - (m + 1)) /\ m + (i + 1) = (m + 1) + i
    BY <1>1, SMT
  <2>7. Len(Tail(t)) = Len(u)
    BY <2>3, <2>5, <2>6
  <2>8. ASSUME NEW i \in 1..(Len(es) - m - 1) PROVE Tail(t)[i] = u[i]
    <3>1. Tail(t)[i] = t[i + 1]
      BY <2>4, <2>5
    <3>2. t[i + 1] = Call("append event", k, es[m + (i + 1)])
      BY <1>6, <2>6
    <3>3. u[i] = Call("append event", k, es[(m + 1) + i])
      BY <2>3, <2>6
    <3> QED BY <2>6, <3>1, <3>2, <3>3
  <2>9. \A i \in 1..Len(Tail(t)) : Tail(t)[i] = u[i]
    BY <2>5, <2>8
  <2> QED BY <2>1, <2>3, <2>4, <2>7, <2>9, SeqEqual
<1>9. Append(SubSeq(es, 1, m), es[m + 1]) = SubSeq(es, 1, m + 1)
  <2>1. SubSeq(es, 1, m + 1) = SubSeq(es, 1, (m + 1) - 1) \o <<es[m + 1]>>
    BY <1>4, SubSeqRecursiveSecond
  <2>2. (m + 1) - 1 = m
    BY <1>1
  <2>3. SubSeq(es, 1, m) \in Seq(Docs)
    BY <1>1, SubSeqProperties
  <2> QED BY <1>1, <1>4, <2>1, <2>2, <2>3, AppendIsConcat
<1> QED BY <1>4, <1>5, <1>6, <1>7, <1>8, <1>9

\* A call of the store, and those restore makes after it.
LEMMA RestoreSequences ==
  ASSUME NEW k, NEW s
  PROVE  \E S : /\ Must(s) \in S /\ StatusWrites(k) \in Seq(S) /\ EventWrites(k) \in Seq(S)
                /\ StatusWrites(k) \o EventWrites(k) \in Seq(S)
<1>1. PICK a, b, c : /\ a = Must(s) /\ b = Must(SaveStatus(k, archive.statuses[k]))
                     /\ c = Must(WriteEvents(k, archive.events[k]))
  OBVIOUS
<1>2. PICK S : S = {a, b, c}
  OBVIOUS
<1>3. StatusWrites(k) \in Seq(S) /\ EventWrites(k) \in Seq(S)
  BY <1>1, <1>2, SmallSequences DEF StatusWrites, EventWrites
<1> QED BY <1>1, <1>2, <1>3, ConcatProperties

\* The files of other Runtimes.
Frame(k) ==
  \A j \in Keys \ {k} : status'[j] = status[j] /\ events'[j] = events[j]

\* Where restore is with k after a step: at one of its files, or done.
Onward(k) ==
  \/ (AtSpec(k) \/ AtStatus(k) \/ AtEvents(k))'
  \/ (todo = <<>> /\ Restored(k))'

\* Once the status is restored, only the events are left.
LEMMA ToEvents ==
  ASSUME NEW k, archive' = archive, todo' = EventWrites(k), StatusRestored(k)'
  PROVE  Onward(k)
<1>1. CASE archive.events[k] # <<>>
  <2>1. todo' = <<Must(WriteEvents(k, archive.events[k]))>>
    BY <1>1 DEF EventWrites
  <2>2. AtEvents(k)'
    BY <1>1, <2>1 DEF AtEvents
  <2> QED BY <2>2 DEF Onward
<1>2. CASE archive.events[k] = <<>>
  <2>1. todo' = <<>> /\ Restored(k)'
    BY <1>2 DEF EventWrites, Restored
  <2> QED BY <2>1 DEF Onward
<1> QED BY <1>1, <1>2

\* A system call on k's spec file.
LEMMA SpecProceeds ==
  ASSUME Proceed, NEW k \in Keys, AtSpec(k)
  PROVE  Frame(k) /\ Onward(k)
<1>1. PICK d, r, a, b : /\ d = archive.docs[k] /\ r = StatusWrites(k) \o EventWrites(k)
                        /\ a = Call("open spec", k, d) /\ b = Call("write spec", k, d)
  OBVIOUS
<1>2. PICK s \in {<<a, b>>, <<b>>} : todo = <<Must(s)>> \o r
  BY <1>1 DEF AtSpec, SaveRuntime
<1>3. PICK S : /\ Must(s) \in S /\ StatusWrites(k) \in Seq(S) /\ EventWrites(k) \in Seq(S)
               /\ r \in Seq(S)
  BY <1>1, RestoreSequences
<1>4. /\ Effect(Head(s)) /\ UNCHANGED <<archive, op>>
      /\ todo' = IF Len(s) = 1 THEN r ELSE <<Must(Tail(s))>> \o r
  BY <1>2, <1>3, ProceedFrom
<1>5. StatusWrites(k)' = StatusWrites(k) /\ EventWrites(k)' = EventWrites(k)
  BY <1>4 DEF StatusWrites, EventWrites
<1>6. CASE s = <<a, b>>
  <2>1. Head(s) = a /\ todo' = <<Must(<<b>>)>> \o r
    BY <1>4, <1>6, HeadOfTwo
  <2>2. status' = status /\ events' = events
    <3>1. Effect(Call("open spec", k, d))
      BY <1>1, <1>4, <2>1
    <3> QED BY <3>1, EffectOnFiles
  <2>3. AtSpec(k)'
    BY <1>1, <1>4, <1>5, <2>1 DEF AtSpec
  <2> QED BY <2>2, <2>3 DEF Onward, Frame
<1>7. CASE s = <<b>>
  <2>1. Head(s) = b /\ todo' = r
    BY <1>4, <1>7, HeadOfTwo
  <2>2. status' = status /\ events' = events
    <3>1. Effect(Call("write spec", k, d))
      BY <1>1, <1>4, <2>1
    <3> QED BY <3>1, EffectOnFiles
  <2>3. CASE archive.statuses[k] # Missing
    <3>1. StatusWrites(k) = <<Must(SaveStatus(k, archive.statuses[k]))>>
      BY <2>3 DEF StatusWrites
    <3>2. todo' = <<Must(SaveStatus(k, archive.statuses[k]))>> \o EventWrites(k)
      BY <1>1, <2>1, <3>1
    <3>3. AtStatus(k)'
      BY <1>4, <1>5, <2>3, <3>2 DEF AtStatus
    <3> QED BY <2>2, <3>3 DEF Onward, Frame
  <2>4. CASE archive.statuses[k] = Missing
    <3>1. StatusWrites(k) = <<>>
      BY <2>4 DEF StatusWrites
    <3>2. todo' = EventWrites(k)
      BY <1>1, <1>3, <2>1, <3>1, ConcatEmptySeq
    <3>3. StatusRestored(k)'
      BY <1>4, <2>4 DEF StatusRestored
    <3> QED BY <1>4, <2>2, <3>2, <3>3, ToEvents DEF Frame
  <2> QED BY <2>3, <2>4
<1> QED BY <1>2, <1>6, <1>7

\* A system call on k's status file.
LEMMA StatusProceeds ==
  ASSUME Inv, Proceed, NEW k \in Keys, AtStatus(k)
  PROVE  Frame(k) /\ Onward(k)
<1>1. PICK d, r, a, b : /\ d = archive.statuses[k] /\ r = EventWrites(k)
                        /\ a = Call("open status", k, d) /\ b = Call("write status", k, d)
  OBVIOUS
<1>2. PICK s \in {<<a, b>>, <<b>>} : todo = <<Must(s)>> \o r
  BY <1>1 DEF AtStatus, SaveStatus
<1>3. PICK S : Must(s) \in S /\ r \in Seq(S)
  BY <1>1, RestoreSequences
<1>4. /\ Effect(Head(s)) /\ UNCHANGED <<archive, op>>
      /\ todo' = IF Len(s) = 1 THEN r ELSE <<Must(Tail(s))>> \o r
  BY <1>2, <1>3, ProceedFrom
<1>5. EventWrites(k)' = EventWrites(k)
  BY <1>4 DEF EventWrites
<1>t. status \in [Keys -> Held] /\ archive.statuses[k] # Missing
  BY DEF Inv, TypeOK, AtStatus
<1>6. CASE s = <<a, b>>
  <2>1. Head(s) = a /\ todo' = <<Must(<<b>>)>> \o r
    BY <1>4, <1>6, HeadOfTwo
  <2>2. status' = [status EXCEPT ![k] = Torn] /\ events' = events
    <3>1. Effect(Call("open status", k, d))
      BY <1>1, <1>4, <2>1
    <3> QED BY <3>1, EffectOnFiles
  <2>3. AtStatus(k)'
    BY <1>1, <1>4, <1>5, <1>t, <2>1 DEF AtStatus
  <2>4. Frame(k)
    BY <1>t, <2>2 DEF Frame
  <2> QED BY <2>3, <2>4 DEF Onward
<1>7. CASE s = <<b>>
  <2>1. Head(s) = b /\ todo' = r
    BY <1>4, <1>7, HeadOfTwo
  <2>2. status' = [status EXCEPT ![k] = d] /\ events' = events
    <3>1. Effect(Call("write status", k, d))
      BY <1>1, <1>4, <2>1
    <3> QED BY <3>1, EffectOnFiles
  <2>3. StatusRestored(k)'
    BY <1>1, <1>4, <1>t, <2>2 DEF StatusRestored
  <2>4. Frame(k)
    BY <1>t, <2>2 DEF Frame
  <2> QED BY <1>1, <1>4, <2>1, <2>3, <2>4, ToEvents
<1> QED BY <1>2, <1>6, <1>7

\* The system calls that write all events.
LEMMA WriteEventsForm ==
  ASSUME NEW k \in Keys, NEW es \in Seq(Docs), es # <<>>
  PROVE  /\ 0 \in 0..(Len(es) - 1) /\ SubSeq(es, 1, 0) = <<>> /\ SubSeq(es, 1, Len(es)) = es
         /\ Head(WriteEvents(k, es)) = Call("open events", k, Missing)
         /\ Tail(WriteEvents(k, es)) = Appends(k, es, 0) /\ Len(WriteEvents(k, es)) # 1
<1>1. Len(es) \in Nat /\ Len(es) # 0
  BY LenProperties, EmptySeq
<1>2. 0 \in 0..(Len(es) - 1)
  BY <1>1
<1>3. PICK c, t : c = Call("open events", k, Missing) /\ t = Appends(k, es, 0)
  OBVIOUS
<1>4. t \in Seq(SysCall) /\ Len(t) = Len(es) - 0
  BY <1>2, <1>3, AppendsLeft
<1>5. c \in SysCall
  BY <1>3 DEF Call, SysCall, SysCalls, Values
<1>6. t = [i \in 1..Len(es) |-> Call("append event", k, es[i])]
  <2>1. Len(es) - 0 = Len(es) /\ \A i \in 1..Len(es) : 0 + i = i
    BY <1>1
  <2>2. t = [i \in 1..(Len(es) - 0) |-> Call("append event", k, es[0 + i])]
    BY <1>3 DEF Appends
  <2>3. t = [i \in 1..Len(es) |-> Call("append event", k, es[0 + i])]
    BY <2>1, <2>2
  <2> QED BY <2>1, <2>3
<1>7. WriteEvents(k, es) = <<c>> \o t
  BY <1>3, <1>6 DEF WriteEvents
<1>8. Head(<<c>> \o t) = c /\ Tail(<<c>> \o t) = t
  BY <1>4, <1>5, PushHead
<1>9. Len(<<c>> \o t) # 1
  <2>1. <<c>> \o t \in Seq(SysCall) /\ <<c>> \o t # <<>>
    BY <1>4, <1>5, PushHead
  <2>2. Len(Tail(<<c>> \o t)) = Len(<<c>> \o t) - 1 /\ Len(<<c>> \o t) \in Nat
    BY <2>1, TailElements
  <2> QED BY <1>1, <1>4, <1>8, <2>2
<1>10. SubSeq(es, 1, 0) = <<>> /\ SubSeq(es, 1, Len(es)) = es
  BY <1>1, SubSeqEmpty, SubSeqFull
<1> QED BY <1>2, <1>3, <1>7, <1>8, <1>9, <1>10

\* A system call on k's event file.
LEMMA EventsProceed ==
  ASSUME Inv, Proceed, NEW k \in Keys, AtEvents(k), archive \in Archives
  PROVE  Frame(k) /\ Onward(k)
<1>1. PICK es : es = archive.events[k]
  OBVIOUS
<1>2. es \in Seq(Docs) /\ es # <<>> /\ StatusRestored(k)
  BY <1>1 DEF Archives, AtEvents
<1>3. events \in [Keys -> Seq(Docs)]
  BY DEF Inv, TypeOK
<1>4. ASSUME NEW s, todo = <<Must(s)>>
      PROVE  /\ Effect(Head(s)) /\ UNCHANGED <<archive, op>>
             /\ todo' = IF Len(s) = 1 THEN <<>> ELSE <<Must(Tail(s))>>
  <2>1. PICK S : S = {Must(s), Must(Tail(s))}
    OBVIOUS
  <2>2. Must(s) \in S /\ <<>> \in Seq(S)
    BY <2>1, SmallSequences
  <2>3. <<Must(s)>> \in Seq(S) /\ <<Must(Tail(s))>> \in Seq(S)
    BY <2>1, SmallSequences
  <2>4. <<Must(s)>> \o <<>> = <<Must(s)>> /\ <<Must(Tail(s))>> \o <<>> = <<Must(Tail(s))>>
    BY <2>3, ConcatEmptySeq
  <2>5. todo = <<Must(s)>> \o <<>>
    BY <1>4, <2>4
  <2>6. /\ Effect(Head(s)) /\ UNCHANGED <<archive, op>>
        /\ todo' = IF Len(s) = 1 THEN <<>> ELSE <<Must(Tail(s))>> \o <<>>
    BY <2>2, <2>5, ProceedFrom
  <2> QED BY <2>4, <2>6
<1>5. ASSUME status' = status, archive' = archive PROVE StatusRestored(k)'
  BY <1>2, <1>5 DEF StatusRestored
<1>6. ASSUME todo = <<Must(WriteEvents(k, es))>> PROVE Frame(k) /\ Onward(k)
  <2>1. /\ 0 \in 0..(Len(es) - 1) /\ SubSeq(es, 1, 0) = <<>>
        /\ Head(WriteEvents(k, es)) = Call("open events", k, Missing)
        /\ Tail(WriteEvents(k, es)) = Appends(k, es, 0) /\ Len(WriteEvents(k, es)) # 1
    BY <1>2, WriteEventsForm
  <2>2. /\ Effect(Call("open events", k, Missing)) /\ archive' = archive
        /\ todo' = <<Must(Appends(k, es, 0))>>
    BY <1>4, <1>6, <2>1
  <2>3. status' = status /\ events' = [events EXCEPT ![k] = <<>>]
    BY <2>2, EffectOnFiles
  <2>4. events'[k] = SubSeq(es, 1, 0) /\ Frame(k)
    BY <1>3, <2>1, <2>3 DEF Frame
  <2>5. AtEvents(k)'
    BY <1>1, <1>2, <1>5, <2>1, <2>2, <2>3, <2>4 DEF AtEvents
  <2> QED BY <2>4, <2>5 DEF Onward
<1>7. ASSUME NEW m \in 0..(Len(es) - 1), todo = <<Must(Appends(k, es, m))>>,
             events[k] = SubSeq(es, 1, m)
      PROVE  Frame(k) /\ Onward(k)
  <2>1. /\ Head(Appends(k, es, m)) = Call("append event", k, es[m + 1])
        /\ Len(Appends(k, es, m)) = Len(es) - m
        /\ m + 1 < Len(es) => Tail(Appends(k, es, m)) = Appends(k, es, m + 1)
        /\ Append(SubSeq(es, 1, m), es[m + 1]) = SubSeq(es, 1, m + 1)
    BY <1>2, AppendsLeft
  <2>2. /\ Effect(Call("append event", k, es[m + 1])) /\ archive' = archive
        /\ todo' = IF Len(es) - m = 1 THEN <<>> ELSE <<Must(Tail(Appends(k, es, m)))>>
    BY <1>4, <1>7, <2>1
  <2>3. status' = status /\ events' = [events EXCEPT ![k] = Append(events[k], es[m + 1])]
    <3>1. PICK x : x = es[m + 1]
      OBVIOUS
    <3>2. Effect(Call("append event", k, x))
      BY <2>2, <3>1
    <3>3. status' = status /\ events' = [events EXCEPT ![k] = Append(events[k], x)]
      BY <3>2, AppendEffect
    <3> QED BY <3>1, <3>3
  <2>4. events'[k] = SubSeq(es, 1, m + 1) /\ Frame(k)
    BY <1>3, <1>7, <2>1, <2>3 DEF Frame
  <2>5. Len(es) \in Nat
    BY <1>2, LenProperties
  <2>6. CASE Len(es) - m = 1
    <3>1. m + 1 = Len(es)
      BY <2>5, <2>6
    <3>2. todo' = <<>> /\ events'[k] = es
      BY <1>2, <2>2, <2>4, <2>6, <3>1, WriteEventsForm
    <3>3. Restored(k)'
      BY <1>1, <1>5, <2>2, <2>3, <3>2 DEF Restored
    <3> QED BY <2>4, <3>2, <3>3 DEF Onward
  <2>7. CASE Len(es) - m # 1
    <3>1. m + 1 < Len(es) /\ m + 1 \in 0..(Len(es) - 1)
      BY <2>5, <2>7
    <3>2. todo' = <<Must(Appends(k, es, m + 1))>>
      BY <2>1, <2>2, <2>7, <3>1
    <3>3. AtEvents(k)'
      BY <1>1, <1>2, <1>5, <2>2, <2>3, <2>4, <3>1, <3>2 DEF AtEvents
    <3> QED BY <2>4, <3>3 DEF Onward
  <2> QED BY <2>6, <2>7
<1> QED BY <1>1, <1>6, <1>7 DEF AtEvents

\* A system call of the restore command.
LEMMA ProceedRestores ==
  ASSUME Inv, RestoreProgress, Proceed
  PROVE  RestoreProgress'
<1>1. UNCHANGED <<op, archive>> /\ todo # <<>>
  BY DEF Proceed
<1>2. SUFFICES ASSUME op.kind = "restore" PROVE RestoreProgress'
  BY <1>1 DEF RestoreProgress
<1>3. PICK V : V = Present(archive.docs) \ op.rest
  OBVIOUS
<1>4. V \subseteq Keys /\ V = (Present(archive.docs) \ op.rest)'
  BY <1>1, <1>3 DEF Present
<1>5. archive \in Archives
  BY <1>2, MemoryType DEF Inv, Control
<1>6. PICK k \in V : /\ AtSpec(k) \/ AtStatus(k) \/ AtEvents(k)
                     /\ \A j \in V \ {k} : Restored(j)
  BY <1>1, <1>2, <1>3 DEF RestoreProgress
<1>7. Frame(k) /\ Onward(k)
  BY <1>4, <1>5, <1>6, SpecProceeds, StatusProceeds, EventsProceed
<1>8. \A j \in V \ {k} : Restored(j)'
  BY <1>1, <1>4, <1>6, <1>7 DEF Frame, Restored, StatusRestored
<1>9. CASE (todo = <<>> /\ Restored(k))'
  <2>1. todo' = <<>> /\ \A j \in V : Restored(j)'
    BY <1>8, <1>9
  <2> QED BY <1>4, <2>1 DEF RestoreProgress
<1>10. CASE (AtSpec(k) \/ AtStatus(k) \/ AtEvents(k))'
  BY <1>4, <1>8, <1>10 DEF RestoreProgress
<1> QED BY <1>7, <1>9, <1>10 DEF Onward

\* While restore writes a Runtime's files, its next call is one whose error ends it.
LEMMA AtFiles ==
  ASSUME NEW j, AtSpec(j) \/ AtStatus(j) \/ AtEvents(j)
  PROVE  todo # <<>> /\ Head(todo).must
<1>1. \E s : \/ todo = <<Must(s)>> \o (StatusWrites(j) \o EventWrites(j))
             \/ todo = <<Must(s)>> \o EventWrites(j) \/ todo = <<Must(s)>>
  BY DEF AtSpec, AtStatus, AtEvents
<1>2. PICK s : \/ todo = <<Must(s)>> \o (StatusWrites(j) \o EventWrites(j))
               \/ todo = <<Must(s)>> \o EventWrites(j) \/ todo = <<Must(s)>>
  BY <1>1
<1>3. PICK S : /\ Must(s) \in S /\ EventWrites(j) \in Seq(S)
               /\ StatusWrites(j) \o EventWrites(j) \in Seq(S)
  BY RestoreSequences
<1>4. todo # <<>> /\ Head(todo) = Must(s)
  BY <1>2, <1>3, PushHead
<1> QED BY <1>4 DEF Must

\* Between two Runtimes, those visited are restored.
LEMMA VisitedRestored ==
  ASSUME RestoreProgress, op.kind = "restore", todo = <<>>, NEW j \in Present(archive.docs) \ op.rest
  PROVE  Restored(j)
BY AtFiles DEF RestoreProgress

\* The restore command goes on with the next Runtime of the archive.
LEMMA NextRuntimeRestores ==
  ASSUME Inv, RestoreProgress, NextRuntime
  PROVE  RestoreProgress'
<1>1. /\ op'.kind = op.kind /\ todo = <<>>
      /\ UNCHANGED <<status, events, archive>>
  BY NextRuntimeOp DEF NextRuntime, files
<1>2. SUFFICES ASSUME op.kind = "restore" PROVE RestoreProgress'
  BY <1>1 DEF RestoreProgress
<1>3. PICK k \in Keys : /\ First(op.rest, k) /\ op' = [op EXCEPT !.rest = @ \ {k}]
                        /\ todo' = RestoreWrites(k)
  BY <1>2 DEF NextRuntime
<1>4. k \in op.rest /\ op'.rest = op.rest \ {k}
  BY <1>3 DEF First, Inv, TypeOK, Operations
<1>5. k \in Present(archive.docs)
  BY <1>2, <1>4 DEF Inv, Control
<1>6. PICK V : V = Present(archive.docs) \ op.rest
  OBVIOUS
<1>7. /\ (Present(archive.docs) \ op.rest)' = V \cup {k} /\ k \notin V
  BY <1>1, <1>4, <1>5, <1>6 DEF Present
<1>8. \A j \in V : Restored(j)
  BY <1>1, <1>2, <1>6, VisitedRestored
<1>9. \A j \in V : Restored(j)'
  BY <1>1, <1>8 DEF Restored, StatusRestored
<1>10. AtSpec(k)'
  <2>1. todo' = <<Must(SaveRuntime(k, archive.docs[k]))>> \o (StatusWrites(k) \o EventWrites(k))
    BY <1>3 DEF RestoreWrites
  <2>2. (StatusWrites(k) \o EventWrites(k))' = StatusWrites(k) \o EventWrites(k)
    BY <1>1 DEF StatusWrites, EventWrites
  <2> QED BY <1>1, <2>1, <2>2 DEF AtSpec
<1> QED BY <1>7, <1>9, <1>10 DEF RestoreProgress

\* Every step keeps what the restore command has done.
LEMMA NextRestores == Inv /\ RestoreProgress /\ [Next]_vars => RestoreProgress'
<1> SUFFICES ASSUME Inv, RestoreProgress, [Next]_vars PROVE RestoreProgress'
  OBVIOUS
<1>1. ASSUME op' = Idle PROVE RestoreProgress'
  BY <1>1, IdleType DEF RestoreProgress
<1>2. ASSUME NEW kind, NEW g, NEW a, NEW acks, NEW rest,
             op' = Operation(kind, g, a, acks, rest),
             kind # "restore" \/ (rest = Present(archive'.docs) /\ todo' = <<>>)
      PROVE  RestoreProgress'
  <2>1. op'.kind = kind /\ op'.rest = rest
    BY <1>2 DEF Operation
  <2>2. kind # "restore" => RestoreProgress'
    BY <2>1 DEF RestoreProgress
  <2>3. ASSUME rest = Present(archive'.docs), todo' = <<>> PROVE RestoreProgress'
    <3>1. (Present(archive.docs) \ op.rest)' = {}
      BY <2>1, <2>3 DEF Present
    <3> QED BY <2>3, <3>1 DEF RestoreProgress
  <2> QED BY <1>2, <2>2, <2>3
<1>3. CASE Agent
  <2>1. CASE Start \/ Resync
    BY <2>1, <1>2 DEF Start, Resync, BeginsLoop
  <2>2. CASE \E k \in Keys : RemoveRuntime(k) \/ \E d \in Docs : Apply(k, d)
    BY <2>2, <1>2 DEF RemoveRuntime, Apply, Begins
  <2> QED BY <1>3, <2>1, <2>2 DEF Agent
<1>4. CASE Restore
  <2>1. PICK names : /\ names = Present(archive.docs) /\ archive' = archive
                     /\ BeginsLoop("restore", [k \in Keys |-> {archive.docs[k]} \ {Missing}],
                                   names, archive.docs, names)
    BY <1>4 DEF Restore
  <2> QED BY <1>2, <2>1 DEF BeginsLoop
<1>5. CASE Kill \/ Return
  BY <1>1, <1>5 DEF Kill, Return, Ends
<1>6. CASE Fail
  <2>1. CASE Head(todo).must
    BY <1>1, <1>6, <2>1 DEF Fail, Ends
  <2>2. CASE ~Head(todo).must
    <3>1. todo # <<>> /\ op' = op
      BY <1>6, <2>2 DEF Fail
    <3>2. ASSUME op.kind = "restore" PROVE FALSE
      <4>1. PICK k : AtSpec(k) \/ AtStatus(k) \/ AtEvents(k)
        BY <3>1, <3>2 DEF RestoreProgress
      <4> QED BY <2>2, <4>1, AtFiles
    <3> QED BY <3>1, <3>2 DEF RestoreProgress
  <2> QED BY <2>1, <2>2
<1>7. CASE Backup \/ KillBackup
  <2>1. /\ op.kind = "restore" => cmd.pc # "idle"
        /\ UNCHANGED <<status, events, op, todo>>
    BY <1>7, BackupSteps
  <2>2. op.kind # "restore"
    BY <2>1 DEF Inv, Control
  <2> QED BY <2>1, <2>2 DEF RestoreProgress
<1>8. CASE UNCHANGED vars
  <2>1. UNCHANGED <<status, events, op, todo, archive>>
    BY <1>8 DEF vars, files
  <2>2. \A j : /\ StatusWrites(j)' = StatusWrites(j) /\ EventWrites(j)' = EventWrites(j)
               /\ StatusRestored(j)' = StatusRestored(j)
    BY <2>1 DEF StatusWrites, EventWrites, StatusRestored
  <2>3. \A j : Restored(j)' <=> Restored(j)
    BY <2>1, <2>2 DEF Restored
  <2>4. \A j : AtSpec(j)' <=> AtSpec(j)
    BY <2>1, <2>2 DEF AtSpec
  <2>5. \A j : AtStatus(j)' <=> AtStatus(j)
    BY <2>1, <2>2 DEF AtStatus
  <2>6. \A j : AtEvents(j)' <=> AtEvents(j)
    BY <2>1, <2>2 DEF AtEvents
  <2>7. (Present(archive.docs) \ op.rest)' = Present(archive.docs) \ op.rest
    BY <2>1 DEF Present
  <2> QED BY <2>1, <2>3, <2>4, <2>5, <2>6, <2>7 DEF RestoreProgress
<1> QED BY <1>3, <1>4, <1>5, <1>6, <1>7, <1>8, ProceedRestores, NextRuntimeRestores
       DEF Next, Step

\* What the restore command has passed is restored, and where it is it has
\* written what it should have.
THEOREM RestoreProgresses == Spec => []RestoreProgress
<1>1. Init => RestoreProgress
  BY IdleType DEF Init, RestoreProgress
<1> QED BY <1>1, NextRestores, InvAlways, PTL DEF Spec

\* A restore that succeeds has written the archive's document, status and events
\* of every Runtime in it (RestoreFrom), whatever a restore that was killed or
\* failed had left before (RestoreBrings).
THEOREM RestoresComplete == Spec => []RestoreBrings
<1>1. Inv /\ AcksDelivered /\ RestoreProgress => RestoreBrings
  <2> SUFFICES ASSUME Inv, AcksDelivered, RestoreProgress,
                      op.kind = "restore", todo = <<>>, op.rest = {},
                      NEW k \in Present(archive.docs)
               PROVE  /\ spec[k] = archive.docs[k]
                      /\ archive.statuses[k] # Missing => status[k] = archive.statuses[k]
                      /\ archive.events[k] # <<>> => events[k] = archive.events[k]
    BY DEF RestoreBrings
  <2>1. op.about = Present(archive.docs) /\ op.acks = archive.docs /\ archive \notin {Missing, Torn}
    BY DEF Inv, Control
  <2>2. archive.docs[k] # Unknown
    BY <2>1, MemoryType, Distinct DEF Inv, Present, Values
  <2>3. ~Pending(k)
    BY SmallElements DEF Pending
  <2>4. spec[k] = archive.docs[k]
    BY <2>1, <2>2, <2>3 DEF AcksDelivered
  <2>5. Restored(k)
    BY VisitedRestored
  <2> QED BY <2>4, <2>5 DEF Restored, StatusRestored
<1> QED BY <1>1, InvAlways, AcksKept, RestoreProgresses, PTL

=============================================================================
