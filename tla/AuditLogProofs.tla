--------------------------- MODULE AuditLogProofs ---------------------------
(***************************************************************************)
(* Proofs about AuditLog for every set of contexts, every configuration of *)
(* sinks and every batch size.                                             *)
(***************************************************************************)
EXTENDS AuditLog, SequenceTheorems, TLAPS

Typed ==
    /\ TypeOK
    /\ Len(events) <= MaxEvents
    /\ closing # 0 => current < Len(Configs)
    /\ buffer \in [Sinks -> Seq(DOMAIN events)]
    /\ stored \in [Sinks -> Seq(DOMAIN events)]
    /\ lost \in [Sinks -> SUBSET DOMAIN events]

(* How far an event's write is; the predecessor of an event has been       *)
(* written, or its write has raised, before the event is emitted.          *)
Progress ==
    \A e \in DOMAIN events :
        /\ events[e].tried <= Len(SinksOf(e))
        /\ events[e].status = "writing" => events[e].tried < Len(SinksOf(e))
        /\ events[e].status = "returned" => events[e].tried = Len(SinksOf(e))
        /\ events[e].prev # 0 =>
              events[e].prev < e /\ events[events[e].prev].status # "writing"

(* A context writes an event of its own, and what a context will link to   *)
(* next is that event or one whose write is over.                          *)
WritersOwn ==
    \A c \in Contexts :
        /\ writer[c] # 0 => events[writer[c]].status = "writing"
        /\ \A d \in Contexts : writer[c] # 0 /\ writer[c] = writer[d] => c = d
        /\ chain[c] # 0 => writer[c] = chain[c] \/ events[chain[c]].status # "writing"

WriteInv == Typed /\ Progress /\ WritersOwn

(* What a sink has of the events it took, in order. *)
Held(s) == stored[s] \o buffer[s]
-----------------------------------------------------------------------------
(* Sequences.                                                              *)

(* What Append does to length, elements and injectivity.                   *)
LEMMA AppendElements ==
    ASSUME NEW S, NEW q \in Seq(S), NEW e \in S
    PROVE  /\ Append(q, e) \in Seq(S) /\ Len(Append(q, e)) = Len(q) + 1
           /\ ToSet(Append(q, e)) = ToSet(q) \cup {e}
           /\ \A i \in 1 .. Len(q) : Append(q, e)[i] = q[i]
           /\ Append(q, e)[Len(q) + 1] = e
           /\ IsInjective(q) /\ e \notin ToSet(q) => IsInjective(Append(q, e))
<1>1. /\ Append(q, e) \in Seq(S) /\ Len(Append(q, e)) = Len(q) + 1
      /\ \A i \in 1 .. Len(q) : Append(q, e)[i] = q[i]
      /\ Append(q, e)[Len(q) + 1] = e
  OBVIOUS
<1>2. /\ DOMAIN q = 1 .. Len(q) /\ Len(q) \in Nat
      /\ DOMAIN Append(q, e) = 1 .. (Len(q) + 1)
  OBVIOUS
<1>3. ToSet(Append(q, e)) = ToSet(q) \cup {e}
  BY <1>1, <1>2 DEF ToSet
<1>4. ASSUME IsInjective(q), e \notin ToSet(q) PROVE IsInjective(Append(q, e))
  BY <1>1, <1>2, <1>4 DEF ToSet, IsInjective
<1> QED BY <1>1, <1>3, <1>4

(* What concatenation does to length, elements and injectivity.            *)
LEMMA ConcatElements ==
    ASSUME NEW S, NEW q \in Seq(S), NEW r \in Seq(S)
    PROVE  /\ q \o r \in Seq(S) /\ Len(q \o r) = Len(q) + Len(r)
           /\ ToSet(q \o r) = ToSet(q) \cup ToSet(r)
           /\ \A i \in 1 .. Len(q) : (q \o r)[i] = q[i]
           /\ IsInjective(q \o r) => IsInjective(q) /\ ToSet(q) \cap ToSet(r) = {}
           /\ q \o <<>> = q
<1>1. q \o r \in Seq(S) /\ Len(q \o r) = Len(q) + Len(r)
      /\ \A i \in 1 .. Len(q) : (q \o r)[i] = q[i]
  OBVIOUS
<1>2. \A i \in 1 .. Len(r) : (q \o r)[Len(q) + i] = r[i]
  OBVIOUS
<1>3. ToSet(q \o r) = ToSet(q) \cup ToSet(r)
  <2>1. ASSUME NEW x \in ToSet(q \o r) PROVE x \in ToSet(q) \cup ToSet(r)
    <3>1. PICK i \in 1 .. (Len(q) + Len(r)) : x = (q \o r)[i]
      BY <1>1 DEF ToSet
    <3>2. CASE i \in 1 .. Len(q)
      BY <1>1, <3>1, <3>2 DEF ToSet
    <3>3. CASE i \notin 1 .. Len(q)
      <4>1. i - Len(q) \in 1 .. Len(r) /\ i = Len(q) + (i - Len(q))
        BY <3>3
      <4>2. x = r[i - Len(q)]
        BY <1>2, <3>1, <4>1
      <4> QED BY <4>1, <4>2 DEF ToSet
    <3> QED BY <3>2, <3>3
  <2>2. ASSUME NEW x \in ToSet(q) \cup ToSet(r) PROVE x \in ToSet(q \o r)
    <3>1. CASE x \in ToSet(q)
      BY <1>1, <3>1 DEF ToSet
    <3>2. CASE x \in ToSet(r)
      <4>1. PICK i \in 1 .. Len(r) : x = r[i]
        BY <3>2 DEF ToSet
      <4>2. Len(q) + i \in 1 .. Len(q \o r)
        BY <1>1
      <4> QED BY <1>1, <1>2, <4>1, <4>2 DEF ToSet
    <3> QED BY <3>1, <3>2
  <2> QED BY <2>1, <2>2
<1>4. ASSUME IsInjective(q \o r) PROVE IsInjective(q) /\ ToSet(q) \cap ToSet(r) = {}
  <2>1. IsInjective(q)
    BY <1>1, <1>4 DEF IsInjective
  <2>2. ASSUME NEW i \in DOMAIN q, NEW j \in DOMAIN r PROVE q[i] # r[j]
    <3>1. i \in DOMAIN (q \o r) /\ Len(q) + j \in DOMAIN (q \o r) /\ i # Len(q) + j
      BY <1>1
    <3> QED BY <1>1, <1>2, <1>4, <3>1 DEF IsInjective
  <2> QED BY <2>1, <2>2 DEF ToSet
<1>5. q \o <<>> = q
  OBVIOUS
<1> QED BY <1>1, <1>3, <1>4, <1>5

(* Appending to the right part appends to the whole.                       *)
LEMMA ConcatAppend ==
    ASSUME NEW S, NEW q \in Seq(S), NEW r \in Seq(S), NEW e \in S
    PROVE  q \o Append(r, e) = Append(q \o r, e) /\ q \o <<e>> = Append(q, e)
OBVIOUS

-----------------------------------------------------------------------------
(* What a step does to one sink: nothing to the events it has, one more,   *)
(* or the loss of what is in its buffer.                                   *)
Keeps(s) == Held(s)' = Held(s) /\ lost'[s] = lost[s]

Takes(s, e) == Held(s)' = Append(Held(s), e) /\ lost'[s] = lost[s]

Drops(s, more) ==
    Held(s)' = stored[s] /\ lost'[s] = lost[s] \cup ToSet(buffer[s]) \cup more

(* A flush moves the buffer to the store, or drops it when put_object      *)
(* raises; other sinks are left alone.                                     *)
LEMMA FlushEffect ==
    ASSUME Typed, NEW s \in S3, NEW raised \in BOOLEAN, FlushLocked(s, buffer[s], raised)
    PROVE  /\ Keeps(s) \/ (Drops(s, {}) /\ raised)
           /\ \A t \in Sinks \ {s} : Keeps(t)
<1> DEFINE D == DOMAIN events
<1>1. /\ buffer \in [Sinks -> Seq(D)] /\ stored \in [Sinks -> Seq(D)]
      /\ lost \in [Sinks -> SUBSET D] /\ s \in Sinks
  BY DEF Typed, Sinks
<1> HIDE DEF D
<1>2. /\ buffer'[s] = <<>> /\ \A t \in Sinks \ {s} : buffer'[t] = buffer[t]
      /\ \A t \in Sinks \ {s} : stored'[t] = stored[t] /\ lost'[t] = lost[t]
      /\ \/ stored'[s] = stored[s] \o buffer[s] /\ lost'[s] = lost[s]
         \/ raised /\ stored'[s] = stored[s] /\ lost'[s] = lost[s] \cup ToSet(buffer[s])
  BY <1>1 DEF FlushLocked, Put
<1>3. stored[s] \in Seq(D) /\ buffer[s] \in Seq(D)
  BY <1>1
<1>4. stored[s] \o <<>> = stored[s] /\ (stored[s] \o buffer[s]) \o <<>> = stored[s] \o buffer[s]
  BY <1>3, ConcatElements
<1> QED BY <1>2, <1>4 DEF Keeps, Drops, Held

(* A write gives one sink the event, or that sink drops events because its *)
(* back end raised.                                                        *)
LEMMA WriteEffect ==
    ASSUME Typed, NEW s \in Sinks, NEW e, e \in DOMAIN events, NEW raised \in BOOLEAN,
           Write(s, e, raised)
    PROVE  /\ Takes(s, e) \/ (Drops(s, {e}) /\ raised)
           /\ \A t \in Sinks \ {s} : Keeps(t)
<1> DEFINE D == DOMAIN events
<1>1. /\ buffer \in [Sinks -> Seq(D)] /\ stored \in [Sinks -> Seq(D)]
      /\ lost \in [Sinks -> SUBSET D] /\ e \in D
      /\ s \notin S3 => buffer[s] = <<>>
  BY DEF Typed, TypeOK
<1> HIDE DEF D
<1>2. stored[s] \in Seq(D) /\ buffer[s] \in Seq(D)
  BY <1>1
<1>3. /\ Append(buffer[s], e) \in Seq(D)
      /\ ToSet(Append(buffer[s], e)) = ToSet(buffer[s]) \cup {e}
  BY <1>1, <1>2, AppendElements
<1>7. ToSet(<<e>>) = {e} /\ ToSet(<<>>) = {}
  BY DEF ToSet
<1>4. /\ stored[s] \o <<>> = stored[s] /\ (stored[s] \o <<e>>) \o <<>> = stored[s] \o <<e>>
      /\ (stored[s] \o Append(buffer[s], e)) \o <<>> = stored[s] \o Append(buffer[s], e)
      /\ stored[s] \o Append(buffer[s], e) = Append(stored[s] \o buffer[s], e)
      /\ stored[s] \o <<e>> = Append(stored[s], e)
  BY <1>1, <1>2, <1>3, ConcatElements, ConcatAppend
<1>5. CASE s \in Stdout \cup CloudWatch
  <2>1. buffer' = buffer /\ buffer[s] = <<>>
    BY <1>1, <1>5, AuditAssumption DEF Write
  <2>2. Put(s, <<e>>, raised)
    BY <1>5, AuditAssumption DEF Write
  <2>3. \A t \in Sinks \ {s} : stored'[t] = stored[t] /\ lost'[t] = lost[t]
    BY <1>1, <2>2 DEF Put
  <2>4. \/ stored'[s] = stored[s] \o <<e>> /\ lost'[s] = lost[s]
        \/ raised /\ stored'[s] = stored[s] /\ lost'[s] = lost[s] \cup {e}
    BY <1>1, <1>7, <2>2 DEF Put
  <2> QED BY <1>7, <1>4, <2>1, <2>3, <2>4 DEF Takes, Drops, Keeps, Held
<1>6. CASE s \in S3
  <2>1. CASE ~BatchFull(Buffered(s, e))
    <3>1. buffer' = [buffer EXCEPT ![s] = Append(buffer[s], e)] /\ UNCHANGED <<stored, lost>>
      BY <1>6, <2>1, AuditAssumption DEF Write, Buffered
    <3> QED BY <1>1, <1>4, <3>1 DEF Takes, Keeps, Held
  <2>2. CASE BatchFull(Buffered(s, e))
    <3>1. FlushLocked(s, Append(buffer[s], e), raised)
      BY <1>6, <2>2, AuditAssumption DEF Write, Buffered
    <3>2. /\ buffer'[s] = <<>> /\ \A t \in Sinks \ {s} : buffer'[t] = buffer[t]
          /\ \A t \in Sinks \ {s} : stored'[t] = stored[t] /\ lost'[t] = lost[t]
          /\ \/ stored'[s] = stored[s] \o Append(buffer[s], e) /\ lost'[s] = lost[s]
             \/ raised /\ stored'[s] = stored[s]
                /\ lost'[s] = lost[s] \cup (ToSet(buffer[s]) \cup {e})
      BY <1>1, <1>3, <3>1 DEF FlushLocked, Put
    <3> QED BY <1>4, <3>2 DEF Takes, Drops, Keeps, Held
  <2> QED BY <2>1, <2>2
<1> QED BY <1>5, <1>6 DEF Sinks
-----------------------------------------------------------------------------
(* Type correctness.                                                       *)

(* The types of the sinks' variables, when the events are those in D. *)
SinksTyped(D) ==
    /\ buffer \in [Sinks -> Seq(D)] /\ stored \in [Sinks -> Seq(D)]
    /\ lost \in [Sinks -> SUBSET D]
    /\ failed \subseteq Sinks
    /\ \A s \in Sinks : Len(buffer[s]) < MaxBatch /\ (s \notin S3 => buffer[s] = <<>>)

ControlTyped ==
    /\ events \in Seq(EventRecord) /\ Len(events) <= MaxEvents
    /\ chain \in [Contexts -> 0 .. Len(events)]
    /\ writer \in [Contexts -> 0 .. Len(events)]
    /\ current \in DOMAIN Configs
    /\ closing \in 0 .. Len(Configs[current])
    /\ closing # 0 => current < Len(Configs)
    /\ flusher \in [S3 -> BOOLEAN]
    /\ exited \in BOOLEAN

(* The types of the sinks and of the rest, apart.                          *)
LEMMA TypedParts == Typed <=> ControlTyped /\ SinksTyped(DOMAIN events)
<1>1. Typed => ControlTyped
  BY DEF Typed, TypeOK, ControlTyped
<1>2. Typed => SinksTyped(DOMAIN events)
  BY DEF Typed, TypeOK, SinksTyped
<1>3. ControlTyped /\ SinksTyped(DOMAIN events) => Typed
  BY DEF Typed, TypeOK, ControlTyped, SinksTyped
<1> QED BY <1>1, <1>2, <1>3

(* put_object keeps the types, and a sink that loses an event has failed.  *)
LEMMA PutTypes ==
    ASSUME NEW D, SinksTyped(D), NEW s \in Sinks, NEW batch \in Seq(D),
           NEW raised \in BOOLEAN, Put(s, batch, raised)
    PROVE  /\ stored' \in [Sinks -> Seq(D)] /\ lost' \in [Sinks -> SUBSET D]
           /\ failed' \subseteq Sinks /\ failed \subseteq failed'
           /\ \A t \in Sinks : lost'[t] # lost[t] => t \in failed'
<1>1. ToSet(batch) \subseteq D
  BY DEF ToSet
<1>2. stored[s] \o batch \in Seq(D)
  BY ConcatElements DEF SinksTyped
<1>3. stored' \in [Sinks -> Seq(D)]
  BY <1>2 DEF Put, SinksTyped
<1>4. lost' \in [Sinks -> SUBSET D]
  BY <1>1 DEF Put, SinksTyped
<1>5. failed' \subseteq Sinks /\ failed \subseteq failed'
  BY DEF Put, SinksTyped
<1>6. ASSUME NEW t \in Sinks, lost'[t] # lost[t] PROVE t \in failed'
  BY <1>6 DEF Put, SinksTyped
<1> QED BY <1>3, <1>4, <1>5, <1>6

(* The same for a flush under _buffer_lock.                                *)
LEMMA FlushTypes ==
    ASSUME NEW D, SinksTyped(D), NEW s \in Sinks, NEW batch \in Seq(D),
           NEW raised \in BOOLEAN, FlushLocked(s, batch, raised)
    PROVE  /\ SinksTyped(D)' /\ failed \subseteq failed'
           /\ \A t \in Sinks : lost'[t] # lost[t] => t \in failed'
<1>1. Put(s, batch, raised)
  BY DEF FlushLocked
<1>2. <<>> \in Seq(D) /\ Len(<<>>) < MaxBatch
  BY AuditAssumption
<1>4. \A t \in Sinks : buffer'[t] = IF t = s THEN <<>> ELSE buffer[t]
  BY DEF FlushLocked, SinksTyped
<1>3. /\ buffer' \in [Sinks -> Seq(D)]
      /\ \A t \in Sinks : Len(buffer'[t]) < MaxBatch /\ (t \notin S3 => buffer'[t] = <<>>)
  <2>1. buffer' \in [Sinks -> Seq(D)]
    BY <1>2 DEF FlushLocked, SinksTyped
  <2> QED BY <1>2, <1>4, <2>1 DEF SinksTyped
<1>5. /\ stored' \in [Sinks -> Seq(D)] /\ lost' \in [Sinks -> SUBSET D]
      /\ failed' \subseteq Sinks /\ failed \subseteq failed'
      /\ \A t \in Sinks : lost'[t] # lost[t] => t \in failed'
  BY <1>1, PutTypes
<1> QED BY <1>3, <1>5 DEF SinksTyped

(* The same for a write of one event.                                      *)
LEMMA WriteTypes ==
    ASSUME NEW D, SinksTyped(D), NEW s \in Sinks, NEW e \in D, NEW raised \in BOOLEAN,
           Write(s, e, raised)
    PROVE  /\ SinksTyped(D)' /\ failed \subseteq failed'
           /\ \A t \in Sinks : lost'[t] # lost[t] => t \in failed'
<1>1. <<e>> \in Seq(D) /\ Append(buffer[s], e) \in Seq(D)
      /\ Len(Append(buffer[s], e)) \in Nat
  BY AppendElements DEF SinksTyped
<1>2. CASE UNCHANGED buffer /\ \E r \in BOOLEAN : Put(s, <<e>>, r)
  <2>1. /\ stored' \in [Sinks -> Seq(D)] /\ lost' \in [Sinks -> SUBSET D]
        /\ failed' \subseteq Sinks /\ failed \subseteq failed'
        /\ \A t \in Sinks : lost'[t] # lost[t] => t \in failed'
    BY <1>1, <1>2, PutTypes
  <2> QED BY <1>2, <2>1 DEF SinksTyped
<1>3. CASE /\ s \in S3 /\ ~BatchFull(Buffered(s, e))
           /\ buffer' = [buffer EXCEPT ![s] = Buffered(s, e)]
           /\ UNCHANGED <<stored, lost, failed>>
  <2>1. Len(Append(buffer[s], e)) < MaxBatch
    BY <1>1, <1>3, AuditAssumption DEF BatchFull, Buffered
  <2> QED BY <1>1, <1>3, <2>1 DEF SinksTyped, Buffered
<1>4. CASE FlushLocked(s, Append(buffer[s], e), raised)
  BY <1>1, <1>4, FlushTypes
<1> QED BY <1>2, <1>3, <1>4 DEF Write, Buffered

(* Sinks typed for some events are typed for more of them.                 *)
LEMMA MoreEvents ==
    ASSUME NEW D, NEW E, D \subseteq E, SinksTyped(D)
    PROVE  SinksTyped(E)
<1>1. \A q \in Seq(D) : q \in Seq(E)
  BY SeqMonotonic
<1> QED BY <1>1 DEF SinksTyped

(* At the start nothing was emitted.                                       *)
LEMMA WriteInvInit == Init => WriteInv
<1> SUFFICES ASSUME Init PROVE WriteInv
  OBVIOUS
<1>1. events = <<>> /\ events \in Seq(EventRecord) /\ Len(events) = 0 /\ DOMAIN events = {}
  BY DEF Init
<1>2. /\ 1 \in DOMAIN Configs /\ Configs[1] \in Seq(Sinks) /\ 0 \in 0 .. Len(Configs[1])
  BY AuditAssumption
<1>3. ControlTyped
  <2>1. 0 \in 0 .. Len(events) /\ Len(events) <= MaxEvents
    BY <1>1, AuditAssumption
  <2> QED BY <1>1, <1>2, <2>1 DEF Init, ControlTyped
<1>4. SinksTyped(DOMAIN events)
  <2>1. <<>> \in Seq(DOMAIN events) /\ Len(<<>>) < MaxBatch
    BY AuditAssumption
  <2> QED BY <2>1 DEF Init, SinksTyped
<1>5. Progress /\ WritersOwn
  BY <1>1 DEF Init, Progress, WritersOwn
<1> QED BY <1>3, <1>4, <1>5, TypedParts DEF WriteInv

(* What an event writes to. *)
LEMMA SinksOfEvents ==
    ASSUME Typed, NEW e, e \in DOMAIN events
    PROVE  /\ events[e] \in EventRecord
           /\ SinksOf(e) \in Seq(Sinks) /\ SinksOf(e) # <<>> /\ IsInjective(SinksOf(e))
           /\ Len(SinksOf(e)) \in Nat \ {0} /\ DOMAIN SinksOf(e) = 1 .. Len(SinksOf(e))
           /\ events[e].tried \in Nat
<1>1. events[e] \in EventRecord
  BY DEF Typed, TypeOK
<1>2. events[e].cfg \in DOMAIN Configs /\ events[e].tried \in Nat
  BY <1>1 DEF EventRecord
<1>3. Configs[events[e].cfg] \in Seq(Sinks)
  BY <1>2, AuditAssumption
<1> QED BY <1>1, <1>2, <1>3, AuditAssumption DEF SinksOf

(* The record of an event after one more sink.                             *)
LEMMA Written ==
    ASSUME NEW r \in EventRecord, NEW status \in {"writing", "returned", "raised"}
    PROVE  LET new == [r EXCEPT !.tried = @ + 1, !.status = status] IN
           /\ new \in EventRecord /\ new.cfg = r.cfg /\ new.prev = r.prev
           /\ new.tried = r.tried + 1 /\ new.status = status
<1>1. r.tried + 1 \in Nat
  BY DEF EventRecord
<1>2. ASSUME NEW n \in Nat PROVE [r EXCEPT !.tried = n, !.status = status] \in EventRecord
  BY DEF EventRecord
<1>3. [r EXCEPT !.tried = @ + 1, !.status = status] \in EventRecord
  BY <1>1, <1>2
<1>4. LET new == [r EXCEPT !.tried = @ + 1, !.status = status] IN
      new.cfg = r.cfg /\ new.prev = r.prev /\ new.tried = r.tried + 1 /\ new.status = status
  BY DEF EventRecord
<1> QED BY <1>3, <1>4

(* A context's write of its event to the next sink. *)
LEMMA WriteNextEffect ==
    ASSUME WriteInv, NEW c \in Contexts, WriteNext(c)
    PROVE  LET e == writer[c] IN
           /\ e \in DOMAIN events /\ events[e].status = "writing"
           /\ events[e].tried + 1 \in 1 .. Len(SinksOf(e)) /\ NextSink(e) \in Sinks
           /\ \E raised \in BOOLEAN : Write(NextSink(e), e, raised)
           /\ events' \in Seq(EventRecord) /\ Len(events') = Len(events)
           /\ DOMAIN events' = DOMAIN events
           /\ \A d \in DOMAIN events : d # e => events'[d] = events[d]
           /\ events'[e].cfg = events[e].cfg /\ events'[e].prev = events[e].prev
           /\ events'[e].tried = events[e].tried + 1
           /\ \A d \in Contexts : d # c => writer'[d] = writer[d]
           /\ writer'[c] \in {0, e}
           /\ writer'[c] = e <=> events'[e].status = "writing"
           /\ events'[e].status = "writing" => events'[e].tried < Len(SinksOf(e))
           /\ events'[e].status = "returned" => events'[e].tried = Len(SinksOf(e))
<1> DEFINE e == writer[c]
<1>1. e \in DOMAIN events /\ events[e].status = "writing"
  BY DEF WriteInv, WritersOwn, WriteNext, Typed, TypeOK
<1>2. events[e].tried + 1 \in 1 .. Len(SinksOf(e)) /\ NextSink(e) \in Sinks
  <2>1. events[e].tried < Len(SinksOf(e)) /\ events[e].tried \in Nat
        /\ SinksOf(e) \in Seq(Sinks)
    BY <1>1, SinksOfEvents DEF WriteInv, Progress
  <2> QED BY <2>1 DEF NextSink
<1>3. PICK raised \in BOOLEAN :
        LET finished == raised \/ events[e].tried + 1 = Len(SinksOf(e)) IN
        /\ Write(NextSink(e), e, raised)
        /\ events' = [events EXCEPT ![e] =
               [events[e] EXCEPT !.tried = @ + 1,
                                 !.status = IF raised THEN "raised"
                                            ELSE IF finished THEN "returned"
                                            ELSE "writing"]]
        /\ writer' = [writer EXCEPT ![c] = IF finished THEN 0 ELSE e]
  BY DEF WriteNext
<1> DEFINE finished == raised \/ events[e].tried + 1 = Len(SinksOf(e))
           status == IF raised THEN "raised" ELSE IF finished THEN "returned" ELSE "writing"
           new == [events[e] EXCEPT !.tried = @ + 1, !.status = status]
<1>4. events' = [events EXCEPT ![e] = new]
  BY <1>3
<1>5. events[e] \in EventRecord
  BY <1>1, SinksOfEvents DEF WriteInv
<1>6. /\ new \in EventRecord /\ new.cfg = events[e].cfg /\ new.prev = events[e].prev
      /\ new.tried = events[e].tried + 1 /\ new.status = status
  <2>1. status \in {"writing", "returned", "raised"}
    OBVIOUS
  <2> HIDE DEF status
  <2> QED BY <1>5, <2>1, Written
<1>7. /\ events \in Seq(EventRecord) /\ writer \in [Contexts -> 0 .. Len(events)]
      /\ events[e].tried \in Nat /\ Len(SinksOf(e)) \in Nat
  BY <1>1, SinksOfEvents DEF WriteInv, Typed, TypeOK
<1> HIDE DEF new
<1>8. /\ events' \in Seq(EventRecord) /\ Len(events') = Len(events)
      /\ DOMAIN events' = DOMAIN events /\ events'[e] = new
      /\ \A d \in DOMAIN events : d # e => events'[d] = events[d]
  BY <1>1, <1>4, <1>6, <1>7
<1>9. /\ \A d \in Contexts : d # c => writer'[d] = writer[d]
      /\ writer'[c] = IF finished THEN 0 ELSE e
      /\ e # 0
  BY <1>3, <1>7 DEF WriteNext
<1>10. /\ writer'[c] = e <=> status = "writing"
       /\ status = "writing" => events[e].tried + 1 < Len(SinksOf(e))
       /\ status = "returned" => events[e].tried + 1 = Len(SinksOf(e))
  BY <1>2, <1>7, <1>9
<1> HIDE DEF e, finished, status
<1>11. \E r \in BOOLEAN : Write(NextSink(e), e, r)
  BY <1>3
<1> QED BY <1>1, <1>2, <1>6, <1>8, <1>9, <1>10, <1>11 DEF e

(* The steps that leave the events and the contexts alone. *)
LEMMA ControlStays ==
    ASSUME WriteInv, UNCHANGED <<events, writer>>, 
           chain' \in [Contexts -> 0 .. Len(events)],
           \A c \in Contexts : chain'[c] # 0 =>
               writer[c] = chain'[c] \/ events[chain'[c]].status # "writing"
    PROVE  Progress' /\ WritersOwn'
BY DEF WriteInv, Progress, WritersOwn, SinksOf

(* TypedParts, read in the next state.                                     *)
LEMMA TypedNext ==
    ASSUME ControlTyped', NEW D, D = DOMAIN events', SinksTyped(D)'
    PROVE  Typed'
<1>1. (ControlTyped /\ SinksTyped(DOMAIN events))' => Typed'
  BY TypedParts, PTL
<1>2. SinksTyped(DOMAIN events)'
  BY DEF SinksTyped
<1> QED BY <1>1, <1>2

(* Writers own their events and progress sink by sink, whatever step is    *)
(* taken.                                                                  *)
LEMMA WriteInvStep == WriteInv /\ [Next]_vars => WriteInv'
<1> SUFFICES ASSUME WriteInv, [Next]_vars PROVE WriteInv'
  OBVIOUS
<1>0. PICK D : D = DOMAIN events
  OBVIOUS
<1>1. ControlTyped /\ SinksTyped(D)
  BY <1>0, TypedParts DEF WriteInv
<1>2. Len(events) \in Nat /\ D = 1 .. Len(events)
  BY <1>0, <1>1 DEF ControlTyped
<1>3. ASSUME UNCHANGED <<events, writer>>, SinksTyped(D)',
             chain' \in [Contexts -> 0 .. Len(events)],
             \A c \in Contexts : chain'[c] # 0 =>
                 writer[c] = chain'[c] \/ events[chain'[c]].status # "writing",
             current' \in DOMAIN Configs, closing' \in 0 .. Len(Configs[current']),
             closing' # 0 => current' < Len(Configs),
             flusher' \in [S3 -> BOOLEAN], exited' \in BOOLEAN
      PROVE  WriteInv'
  <2>1. ControlTyped'
    BY <1>1, <1>3 DEF ControlTyped
  <2>2. Progress' /\ WritersOwn'
    BY <1>3, ControlStays
  <2> QED BY <1>0, <1>3, <2>1, <2>2, TypedNext DEF WriteInv
<1>4. \A c \in Contexts : chain[c] # 0 =>
          writer[c] = chain[c] \/ events[chain[c]].status # "writing"
  BY DEF WriteInv, WritersOwn
<1>5. ASSUME NEW c \in Contexts, NewRequest(c) PROVE WriteInv'
  <2>1. SinksTyped(D)'
    BY <1>1, <1>5 DEF NewRequest, sinkVars, SinksTyped
  <2>2. chain' \in [Contexts -> 0 .. Len(events)] /\ chain' = [chain EXCEPT ![c] = 0]
    BY <1>1, <1>2, <1>5 DEF NewRequest, ControlTyped
  <2>3. \A b \in Contexts : chain'[b] # 0 =>
                 writer[b] = chain'[b] \/ events[chain'[b]].status # "writing"
    BY <1>1, <1>4, <2>2 DEF ControlTyped
  <2> QED BY <1>1, <1>3, <1>5, <2>1, <2>2, <2>3 DEF NewRequest, ControlTyped
<1>6. ASSUME NEW c \in Contexts, NEW d \in Contexts, CopyContext(c, d) PROVE WriteInv'
  <2>1. SinksTyped(D)'
    BY <1>1, <1>6 DEF CopyContext, sinkVars, SinksTyped
  <2>2. chain' \in [Contexts -> 0 .. Len(events)] /\ chain' = [chain EXCEPT ![c] = chain[d]]
    BY <1>1, <1>2, <1>6 DEF CopyContext, ControlTyped
  <2>3. \A b \in Contexts : chain'[b] # 0 =>
                 writer[b] = chain'[b] \/ events[chain'[b]].status # "writing"
    BY <1>1, <1>4, <1>6, <2>2 DEF ControlTyped, CopyContext
  <2> QED BY <1>1, <1>3, <1>6, <2>1, <2>2, <2>3 DEF CopyContext, ControlTyped
<1>7. ASSUME NEW c \in Contexts, Emit(c) PROVE WriteInv'
  <2> DEFINE n == Len(events) + 1
             rec == [prev |-> chain[c], cfg |-> current, tried |-> 0, status |-> "writing"]
  <2>1. rec \in EventRecord /\ n \in 1 .. MaxEvents
    BY <1>1, <1>2, <1>7, AuditAssumption DEF ControlTyped, EventRecord, Emit
  <2>2. events' = Append(events, rec) /\ chain' = [chain EXCEPT ![c] = n]
        /\ writer' = [writer EXCEPT ![c] = n] /\ writer[c] = 0
        /\ UNCHANGED <<current, closing, sinkVars, flusher, exited>>
    BY <1>7 DEF Emit
  <2>3. /\ events' \in Seq(EventRecord) /\ Len(events') = n /\ DOMAIN events' = 1 .. n
        /\ events'[n] = rec /\ \A e \in D : events'[e] = events[e]
    BY <1>1, <1>2, <2>1, <2>2 DEF ControlTyped
  <2> HIDE DEF rec
  <2>4. PICK E : E = DOMAIN events'
    OBVIOUS
  <2>5. SinksTyped(E)'
    <3>1. SinksTyped(E)
      BY <1>1, <1>2, <2>3, <2>4, MoreEvents
    <3> QED BY <2>2, <3>1 DEF SinksTyped, sinkVars
  <2>6. ControlTyped'
    <3>1. \A x \in 0 .. Len(events) : x \in 0 .. n
      BY <1>2
    <3>2. chain' \in [Contexts -> 0 .. n] /\ writer' \in [Contexts -> 0 .. n]
      BY <1>1, <1>2, <2>2, <3>1 DEF ControlTyped
    <3>3. n <= MaxEvents
      BY <2>1
    <3> HIDE DEF n
    <3> QED BY <1>1, <2>2, <2>3, <3>2, <3>3 DEF ControlTyped
  <2>7. rec.prev = chain[c] /\ rec.cfg = current /\ rec.tried = 0 /\ rec.status = "writing"
    BY DEF rec
  <2>8. ASSUME NEW e \in D
        PROVE  events'[e] = events[e] /\ SinksOf(e)' = SinksOf(e) /\ events[e] \in EventRecord
               /\ e # n
    BY <1>1, <1>2, <2>3 DEF SinksOf, ControlTyped
  <2>9. Len(Configs[current]) \in Nat \ {0}
    BY <1>1, AuditAssumption DEF ControlTyped
  <2>10. Progress'
    <3> SUFFICES ASSUME NEW e \in 1 .. n
                 PROVE  /\ events'[e].tried <= Len(SinksOf(e)')
                        /\ events'[e].status = "writing" => events'[e].tried < Len(SinksOf(e)')
                        /\ events'[e].status = "returned" => events'[e].tried = Len(SinksOf(e)')
                        /\ events'[e].prev # 0 =>
                              events'[e].prev < e /\ events'[events'[e].prev].status # "writing"
      BY <2>3 DEF Progress
    <3>1. CASE e \in D
      <4>1. events[e].prev \in 0 .. MaxEvents
        BY <2>8, <3>1 DEF EventRecord
      <4>2. events[e].prev # 0 => events[e].prev < e /\ events[events[e].prev].status # "writing"
        BY <1>0, <3>1 DEF WriteInv, Progress
      <4>3. events[e].prev # 0 => events[e].prev \in D
        BY <1>2, <3>1, <4>1, <4>2
      <4> QED BY <1>0, <2>8, <3>1, <4>2, <4>3 DEF WriteInv, Progress
    <3>2. CASE e = n
      <4>1. SinksOf(e)' = Configs[current]
        BY <2>3, <2>7, <3>2 DEF SinksOf
      <4>2. chain[c] \in 0 .. Len(events)
        BY <1>1 DEF ControlTyped
      <4>3. chain[c] # 0 => chain[c] \in D /\ events[chain[c]].status # "writing"
        BY <1>2, <1>4, <2>2, <4>2
      <4> QED BY <1>2, <2>3, <2>7, <2>8, <2>9, <3>2, <4>1, <4>2, <4>3
    <3> QED BY <1>2, <3>1, <3>2
  <2>11. WritersOwn'
    <3>1. \A b \in Contexts : b # c =>
            /\ writer'[b] = writer[b] /\ chain'[b] = chain[b]
            /\ writer[b] \in 0 .. Len(events) /\ chain[b] \in 0 .. Len(events)
      BY <1>1, <2>2 DEF ControlTyped
    <3>2. writer'[c] = n /\ chain'[c] = n
      BY <1>1, <2>2 DEF ControlTyped
    <3>3. events'[n].status = "writing"
      BY <2>3, <2>7
    <3>4. ASSUME NEW b \in Contexts
          PROVE  /\ writer'[b] # 0 => events'[writer'[b]].status = "writing"
                 /\ chain'[b] # 0 =>
                       writer'[b] = chain'[b] \/ events'[chain'[b]].status # "writing"
      <4>1. CASE b = c
        BY <3>2, <3>3, <4>1
      <4>2. CASE b # c
        <5>1. /\ writer[b] # 0 => writer[b] \in D /\ events[writer[b]].status = "writing"
              /\ chain[b] # 0 => chain[b] \in D
          BY <1>2, <3>1, <4>2 DEF WriteInv, WritersOwn
        <5> QED BY <1>4, <2>8, <3>1, <4>2, <5>1
      <4> QED BY <4>1, <4>2
    <3>5. ASSUME NEW a \in Contexts, NEW b \in Contexts, writer'[a] # 0, writer'[a] = writer'[b]
          PROVE  a = b
      BY <1>2, <3>1, <3>2, <3>5 DEF WriteInv, WritersOwn
    <3> QED BY <3>4, <3>5 DEF WritersOwn
  <2> QED BY <2>4, <2>5, <2>6, <2>10, <2>11, TypedNext DEF WriteInv
<1>8. ASSUME NEW c \in Contexts, WriteNext(c) PROVE WriteInv'
  <2>0. PICK e : e = writer[c]
    OBVIOUS
  <2>1. /\ e \in D /\ events[e].status = "writing"
        /\ NextSink(e) \in Sinks
        /\ \E raised \in BOOLEAN : Write(NextSink(e), e, raised)
        /\ events' \in Seq(EventRecord) /\ Len(events') = Len(events)
        /\ DOMAIN events' = D
        /\ \A d \in D : d # e => events'[d] = events[d]
        /\ events'[e].cfg = events[e].cfg /\ events'[e].prev = events[e].prev
        /\ events'[e].tried = events[e].tried + 1
        /\ events[e].tried + 1 \in 1 .. Len(SinksOf(e))
        /\ \A d \in Contexts : d # c => writer'[d] = writer[d]
        /\ writer'[c] \in {0, e}
        /\ writer'[c] = e <=> events'[e].status = "writing"
        /\ events'[e].status = "writing" => events'[e].tried < Len(SinksOf(e))
        /\ events'[e].status = "returned" => events'[e].tried = Len(SinksOf(e))
    BY <1>0, <1>8, <2>0, WriteNextEffect
  <2>2. UNCHANGED <<chain, current, closing, flusher, exited>>
    BY <1>8 DEF WriteNext
  <2>3. SinksTyped(D)'
    BY <1>1, <2>1, WriteTypes
  <2>4. ControlTyped'
    <3>1. writer' \in [Contexts -> 0 .. Len(events)]
      <4>1. \E v : writer' = [writer EXCEPT ![c] = v]
        BY <1>8 DEF WriteNext
      <4>2. \A d \in Contexts : writer'[d] \in 0 .. Len(events)
        BY <1>1, <1>2, <2>1 DEF ControlTyped
      <4> QED BY <1>1, <4>1, <4>2 DEF ControlTyped
    <3> QED BY <1>1, <2>1, <2>2, <3>1 DEF ControlTyped
  <2>5. \A d \in D : SinksOf(d)' = SinksOf(d)
    BY <2>1 DEF SinksOf
  <2>6. Progress'
    <3> SUFFICES ASSUME NEW d \in D
                 PROVE  /\ events'[d].tried <= Len(SinksOf(d))
                        /\ events'[d].status = "writing" => events'[d].tried < Len(SinksOf(d))
                        /\ events'[d].status = "returned" => events'[d].tried = Len(SinksOf(d))
                        /\ events'[d].prev # 0 =>
                              events'[d].prev < d /\ events'[events'[d].prev].status # "writing"
      BY <2>1, <2>5 DEF Progress
    <3>1. /\ events[d].prev # 0 =>
              events[d].prev < d /\ events[events[d].prev].status # "writing"
          /\ events'[d].prev = events[d].prev /\ events[d].prev \in 0 .. MaxEvents
      <4>1. events[d] \in EventRecord
        BY <1>0, SinksOfEvents DEF WriteInv
      <4> QED BY <1>0, <2>1, <4>1 DEF WriteInv, Progress, EventRecord
    <3>2. events[d].prev # 0 => events[d].prev \in D /\ events[d].prev # e
      BY <1>2, <2>1, <3>1
    <3>3. CASE d = e
      BY <2>1, <3>1, <3>2, <3>3
    <3>4. CASE d # e
      BY <1>0, <2>1, <3>1, <3>2, <3>4 DEF WriteInv, Progress
    <3> QED BY <3>3, <3>4
  <2>7. WritersOwn'
    <3>1. ASSUME NEW b \in Contexts, b # c, writer[b] # 0
          PROVE  writer[b] \in D /\ writer[b] # e /\ events[writer[b]].status = "writing"
      BY <1>1, <1>2, <1>8, <2>0, <3>1 DEF WriteInv, WritersOwn, ControlTyped, WriteNext
    <3>2. ASSUME NEW b \in Contexts
          PROVE  /\ writer'[b] # 0 => events'[writer'[b]].status = "writing"
                 /\ chain'[b] # 0 =>
                       writer'[b] = chain'[b] \/ events'[chain'[b]].status # "writing"
      <4>1. chain[b] # 0 => chain[b] \in D
        BY <1>1, <1>2 DEF ControlTyped
      <4>2. CASE b = c
        BY <1>4, <2>0, <2>1, <2>2, <4>1, <4>2
      <4>3. CASE b # c
        <5>1. chain[b] = e => events'[e].status # "writing" \/ writer[b] = e
          BY <1>4, <2>1, <4>1
        <5> QED BY <1>4, <2>1, <2>2, <3>1, <4>1, <4>3, <5>1
      <4> QED BY <4>2, <4>3
    <3>3. ASSUME NEW a \in Contexts, NEW b \in Contexts, writer'[a] # 0, writer'[a] = writer'[b]
          PROVE  a = b
      BY <2>1, <3>1, <3>3 DEF WriteInv, WritersOwn
    <3> QED BY <3>2, <3>3 DEF WritersOwn
  <2> QED BY <1>0, <2>1, <2>3, <2>4, <2>6, <2>7, TypedNext DEF WriteInv
<1>9. ASSUME NEW s \in S3, FlushLoop(s) PROVE WriteInv'
  <2>1. PICK raised \in BOOLEAN : FlushLocked(s, buffer[s], raised)
                                  /\ flusher' = [flusher EXCEPT ![s] = ~raised]
    BY <1>9 DEF FlushLoop
  <2>2. s \in Sinks /\ buffer[s] \in Seq(D)
    BY <1>1 DEF Sinks, SinksTyped
  <2>3. UNCHANGED <<events, chain, writer, current, closing, exited>>
    BY <1>9 DEF FlushLoop
  <2>4. SinksTyped(D)'
    BY <1>1, <2>1, <2>2, FlushTypes
  <2>5. flusher' \in [S3 -> BOOLEAN]
    BY <1>1, <2>1 DEF ControlTyped
  <2> QED BY <1>1, <1>3, <1>4, <2>3, <2>4, <2>5 DEF ControlTyped
<1>10. ASSUME SetAuditSink PROVE WriteInv'
  <2>1. SinksTyped(D)'
    BY <1>1, <1>10 DEF SetAuditSink, sinkVars, SinksTyped
  <2>2. closing' = 1 /\ 1 \in 0 .. Len(Configs[current])
    BY <1>1, <1>10, AuditAssumption DEF SetAuditSink, ControlTyped
  <2> QED BY <1>1, <1>3, <1>4, <1>10, <2>1, <2>2 DEF SetAuditSink, ControlTyped
<1>11. ASSUME CloseNext PROVE WriteInv'
  <2>1. UNCHANGED <<events, chain, writer, flusher, exited>>
    BY <1>11 DEF CloseNext
  <2>2. SinksTyped(D)'
    <3> DEFINE s == Configs[current][closing]
    <3>1. CASE UNCHANGED sinkVars
      BY <1>1, <3>1 DEF sinkVars, SinksTyped
    <3>2. CASE s \in S3 /\ \E raised \in BOOLEAN : FlushLocked(s, buffer[s], raised)
      <4>1. s \in Sinks /\ buffer[s] \in Seq(D)
        BY <1>1, <3>2 DEF Sinks, SinksTyped
      <4> QED BY <1>1, <3>2, <4>1, FlushTypes
    <3> QED BY <1>11, <3>1, <3>2 DEF CloseNext
  <2>3. /\ current' \in DOMAIN Configs /\ closing' \in 0 .. Len(Configs[current'])
        /\ closing' # 0 => current' < Len(Configs)
    <3>1. /\ current \in 1 .. Len(Configs) /\ Len(Configs) \in Nat
          /\ closing \in 1 .. Len(Configs[current]) /\ current < Len(Configs)
      BY <1>1, <1>11, AuditAssumption DEF ControlTyped, CloseNext
    <3>2. /\ Len(Configs[current]) \in Nat /\ Len(Configs[current + 1]) \in Nat
          /\ DOMAIN Configs = 1 .. Len(Configs)
      BY <3>1, AuditAssumption
    <3>3. \/ closing' = 0 /\ current' = current
          \/ closing' = closing + 1 /\ current' = current /\ closing < Len(Configs[current])
          \/ closing' = 0 /\ current' = current + 1
      BY <1>11 DEF CloseNext
    <3> QED BY <3>1, <3>2, <3>3
  <2> QED BY <1>1, <1>3, <1>4, <2>1, <2>2, <2>3 DEF ControlTyped
<1>12. ASSUME Exit PROVE WriteInv'
  <2>1. SinksTyped(D)'
    <3>1. ASSUME NEW s \in Sinks PROVE ToSet(buffer[s]) \subseteq D
      BY <1>1 DEF SinksTyped, ToSet
    <3>2. <<>> \in Seq(D) /\ Len(<<>>) < MaxBatch
      BY AuditAssumption
    <3>3. lost' \in [Sinks -> SUBSET D]
      BY <1>1, <1>12, <3>1 DEF SinksTyped, Exit
    <3> QED BY <1>1, <1>12, <3>2, <3>3 DEF Exit, SinksTyped
  <2> QED BY <1>1, <1>3, <1>4, <1>12, <2>1 DEF Exit, ControlTyped
<1>13. ASSUME UNCHANGED vars PROVE WriteInv'
  <2>1. SinksTyped(D)'
    BY <1>1, <1>13 DEF vars, SinksTyped
  <2> QED BY <1>1, <1>3, <1>4, <1>13, <2>1 DEF vars, ControlTyped
<1> QED BY <1>5, <1>6, <1>7, <1>8, <1>9, <1>10, <1>11, <1>12, <1>13 DEF Next
-----------------------------------------------------------------------------
(* Every step, seen from one sink.                                         *)

(* The events that were emitted stay, and a write that is over is over. *)
LEMMA EventsStay ==
    ASSUME WriteInv, [Next]_vars, NEW d, d \in DOMAIN events
    PROVE  /\ d \in DOMAIN events' /\ events'[d].prev = events[d].prev
           /\ events'[d].cfg = events[d].cfg
           /\ events[d].status # "writing" => events'[d] = events[d]
<1>1. events \in Seq(EventRecord)
  BY DEF WriteInv, Typed, TypeOK
<1>2. ASSUME NEW c \in Contexts, Emit(c)
      PROVE  d \in DOMAIN events' /\ events'[d] = events[d]
  BY <1>1, <1>2 DEF Emit
<1>3. ASSUME NEW c \in Contexts, WriteNext(c)
      PROVE  /\ d \in DOMAIN events' /\ events'[d].prev = events[d].prev
             /\ events'[d].cfg = events[d].cfg
             /\ events[d].status # "writing" => events'[d] = events[d]
  BY <1>3, WriteNextEffect
<1>4. CASE UNCHANGED events
  BY <1>4
<1> QED BY <1>2, <1>3, <1>4 DEF Next, NewRequest, CopyContext, FlushLoop, SetAuditSink,
        CloseNext, Exit, vars

(* What a sink was given depends on the events only.                       *)
LEMMA SameTaken ==
    ASSUME UNCHANGED events, NEW s
    PROVE  TakenBy(s)' = TakenBy(s)
BY DEF TakenBy, Reached, SinksOf

(* WriteNext offers the event to exactly one sink, for the first time.     *)
LEMMA WriteTaken ==
    ASSUME WriteInv, NEW c \in Contexts, WriteNext(c), NEW s \in Sinks, NEW e, e = writer[c]
    PROVE  /\ s # NextSink(e) => TakenBy(s)' = TakenBy(s)
           /\ s = NextSink(e) => e \notin TakenBy(s) /\ TakenBy(s)' = TakenBy(s) \cup {e}
<1>1. /\ e \in DOMAIN events
      /\ DOMAIN events' = DOMAIN events
      /\ \A d \in DOMAIN events : d # e => events'[d] = events[d]
      /\ events'[e].cfg = events[e].cfg
      /\ events'[e].tried = events[e].tried + 1
      /\ events[e].tried + 1 \in 1 .. Len(SinksOf(e))
  BY WriteNextEffect
<1>2. /\ SinksOf(e) \in Seq(Sinks) /\ IsInjective(SinksOf(e)) /\ events[e].tried \in Nat
      /\ DOMAIN SinksOf(e) = 1 .. Len(SinksOf(e))
  BY <1>1, SinksOfEvents DEF WriteInv
<1>3. \A d \in DOMAIN events : d # e => Reached(d)' = Reached(d)
  BY <1>1 DEF Reached, SinksOf
<1>4. SinksOf(e)' = SinksOf(e)
  BY <1>1 DEF SinksOf
<1>5. Reached(e)' = Reached(e) \cup {NextSink(e)}
  <2>1. Reached(e)' = {SinksOf(e)[i] : i \in 1 .. (events[e].tried + 1)}
    BY <1>1, <1>4 DEF Reached
  <2>2. 1 .. (events[e].tried + 1) = (1 .. events[e].tried) \cup {events[e].tried + 1}
    BY <1>2
  <2> QED BY <2>1, <2>2 DEF Reached, NextSink
<1>6. NextSink(e) \notin Reached(e)
  <2>1. PICK q : q = SinksOf(e)
    OBVIOUS
  <2>2. PICK n : n = events[e].tried
    OBVIOUS
  <2>3. ASSUME NEW i \in 1 .. n PROVE q[i] # q[n + 1]
    <3>1. i \in DOMAIN q /\ n + 1 \in DOMAIN q /\ i # n + 1
      BY <1>1, <1>2, <2>1, <2>2, <2>3
    <3> QED BY <1>2, <2>1, <3>1 DEF IsInjective
  <2> QED BY <2>1, <2>2, <2>3 DEF Reached, NextSink
<1>7. \A d \in DOMAIN events : d \in TakenBy(s) <=> s \in Reached(d)
  BY DEF TakenBy
<1>8. \A d : d \in TakenBy(s)' <=> d \in DOMAIN events /\ s \in Reached(d)'
  BY <1>1 DEF TakenBy
<1>9. TakenBy(s) \subseteq DOMAIN events
  BY DEF TakenBy
<1>10. CASE s = NextSink(e)
  <2>1. e \notin TakenBy(s) /\ e \in TakenBy(s)'
    BY <1>1, <1>5, <1>6, <1>7, <1>8, <1>10
  <2>2. \A d : d # e => (d \in TakenBy(s)' <=> d \in TakenBy(s))
    BY <1>3, <1>7, <1>8, <1>9
  <2> QED BY <1>10, <2>1, <2>2
<1>11. CASE s # NextSink(e)
  <2>1. e \in TakenBy(s)' <=> e \in TakenBy(s)
    BY <1>1, <1>5, <1>7, <1>8, <1>11
  <2>2. \A d : d # e => (d \in TakenBy(s)' <=> d \in TakenBy(s))
    BY <1>3, <1>7, <1>8, <1>9
  <2>3. TakenBy(s)' = TakenBy(s)
    BY <2>1, <2>2
  <2> QED BY <1>11, <2>3
<1> QED BY <1>10, <1>11

(* A new event has not been offered to any sink.                           *)
LEMMA EmitTaken ==
    ASSUME WriteInv, NEW c \in Contexts, Emit(c), NEW s \in Sinks
    PROVE  TakenBy(s)' = TakenBy(s)
<1>1. events \in Seq(EventRecord)
  BY DEF WriteInv, Typed, TypeOK
<1> DEFINE rec == [prev |-> chain[c], cfg |-> current, tried |-> 0, status |-> "writing"]
<1>2. events' = Append(events, rec) /\ rec.tried = 0
  BY DEF Emit
<1> HIDE DEF rec
<1>3. /\ DOMAIN events = 1 .. Len(events) /\ DOMAIN events' = 1 .. (Len(events) + 1)
      /\ \A d \in DOMAIN events : events'[d] = events[d]
      /\ events'[Len(events) + 1] = rec /\ Len(events) \in Nat
  BY <1>1, <1>2
<1>4. \A d \in DOMAIN events : Reached(d)' = Reached(d)
  BY <1>3 DEF Reached, SinksOf
<1>5. PICK n : n = Len(events) + 1
  OBVIOUS
<1>6. Reached(n)' = {}
  <2>1. events'[n].tried = 0
    BY <1>2, <1>3, <1>5
  <2> QED BY <2>1 DEF Reached
<1>7. DOMAIN events' = DOMAIN events \cup {n}
  BY <1>3, <1>5
<1>8. \A d : d \in TakenBy(s)' <=> d \in DOMAIN events \cup {n} /\ s \in Reached(d)'
  BY <1>7 DEF TakenBy
<1>9. \A d : d \in TakenBy(s) <=> d \in DOMAIN events /\ s \in Reached(d)
  BY DEF TakenBy
<1> QED BY <1>4, <1>6, <1>8, <1>9

(* A step leaves a sink's events alone, loses its buffer, or gives it one  *)
(* event that it has not taken before; and a loss has a cause.             *)
LEMMA SinkStep ==
    ASSUME WriteInv, [Next]_vars, NEW s \in Sinks
    PROVE  /\ \/ Keeps(s) /\ TakenBy(s)' = TakenBy(s)
              \/ Drops(s, {}) /\ TakenBy(s)' = TakenBy(s)
              \/ \E e \in DOMAIN events \ TakenBy(s) :
                    /\ events[e].status = "writing"
                    /\ TakenBy(s)' = TakenBy(s) \cup {e}
                    /\ Takes(s, e) \/ Drops(s, {e})
           /\ lost'[s] # lost[s] => s \in failed' \/ exited'
           /\ s \in failed => s \in failed'
           /\ exited => exited'
<1>0. PICK D : D = DOMAIN events
  OBVIOUS
<1>1. Typed /\ SinksTyped(D)
  BY <1>0, TypedParts DEF WriteInv
<1>2. ASSUME UNCHANGED <<events, sinkVars, exited>>
      PROVE  Keeps(s) /\ TakenBy(s)' = TakenBy(s) /\ lost' = lost /\ failed' = failed
  BY <1>2, SameTaken DEF Keeps, Held, sinkVars
<1>3. ASSUME NEW t \in S3, NEW raised \in BOOLEAN, FlushLocked(t, buffer[t], raised),
             UNCHANGED <<events, exited>>
      PROVE  /\ Keeps(s) \/ Drops(s, {})
             /\ TakenBy(s)' = TakenBy(s)
             /\ lost'[s] # lost[s] => s \in failed'
             /\ failed \subseteq failed'
  <2>1. t \in Sinks /\ buffer[t] \in Seq(D)
    BY <1>1 DEF SinksTyped, Sinks
  <2>2. failed \subseteq failed' /\ (lost'[s] # lost[s] => s \in failed')
    BY <1>1, <1>3, <2>1, FlushTypes
  <2>3. Keeps(s) \/ Drops(s, {})
    BY <1>1, <1>3, FlushEffect
  <2> QED BY <1>3, <2>2, <2>3, SameTaken
<1>4. CASE \E c \in Contexts : NewRequest(c)
  BY <1>2, <1>4 DEF NewRequest
<1>5. CASE \E c, d \in Contexts : CopyContext(c, d)
  BY <1>2, <1>5 DEF CopyContext
<1>6. CASE \E c \in Contexts : Emit(c)
  BY <1>6, EmitTaken DEF Emit, sinkVars, Keeps, Held
<1>7. CASE \E c \in Contexts : WriteNext(c)
  <2>1. PICK c \in Contexts : WriteNext(c)
    BY <1>7
  <2>2. PICK e : e = writer[c]
    OBVIOUS
  <2>3. /\ e \in DOMAIN events /\ events[e].status = "writing" /\ NextSink(e) \in Sinks
        /\ \E raised \in BOOLEAN : Write(NextSink(e), e, raised)
    BY <2>1, <2>2, WriteNextEffect
  <2>4. PICK raised \in BOOLEAN : Write(NextSink(e), e, raised)
    BY <2>3
  <2>5. /\ Takes(NextSink(e), e) \/ Drops(NextSink(e), {e})
        /\ \A t \in Sinks \ {NextSink(e)} : Keeps(t)
    BY <1>1, <2>3, <2>4, WriteEffect
  <2>6. failed \subseteq failed' /\ (lost'[s] # lost[s] => s \in failed')
    BY <1>0, <1>1, <2>3, <2>4, WriteTypes
  <2>7. exited' = exited
    BY <2>1 DEF WriteNext
  <2>8. /\ s # NextSink(e) => TakenBy(s)' = TakenBy(s)
        /\ s = NextSink(e) => e \notin TakenBy(s) /\ TakenBy(s)' = TakenBy(s) \cup {e}
    BY <2>1, <2>2, WriteTaken
  <2>9. CASE s = NextSink(e)
    <3>1. e \in DOMAIN events \ TakenBy(s) /\ TakenBy(s)' = TakenBy(s) \cup {e}
      BY <2>3, <2>8, <2>9
    <3>2. Takes(s, e) \/ Drops(s, {e})
      BY <2>5, <2>9
    <3> QED BY <2>3, <2>6, <2>7, <3>1, <3>2
  <2>10. CASE s # NextSink(e)
    BY <2>5, <2>6, <2>7, <2>8, <2>10
  <2> QED BY <2>9, <2>10
<1>8. CASE \E t \in S3 : FlushLoop(t)
  BY <1>3, <1>8 DEF FlushLoop
<1>9. CASE SetAuditSink
  BY <1>2, <1>9 DEF SetAuditSink
<1>10. CASE CloseNext
  <2>1. UNCHANGED <<events, exited>>
    BY <1>10 DEF CloseNext
  <2>2. \/ UNCHANGED sinkVars
        \/ \E t \in S3 : \E raised \in BOOLEAN : FlushLocked(t, buffer[t], raised)
    BY <1>10 DEF CloseNext
  <2> QED BY <1>2, <1>3, <2>1, <2>2
<1>11. CASE Exit
  <2>1. Held(s)' = stored[s]
    <3>1. stored[s] \in Seq(D) /\ buffer'[s] = <<>> /\ stored'[s] = stored[s]
      BY <1>1, <1>11 DEF SinksTyped, Exit
    <3> QED BY <3>1, ConcatElements DEF Held
  <2>2. Drops(s, {})
    BY <1>11, <2>1 DEF Drops, Exit
  <2> QED BY <1>11, <2>2, SameTaken DEF Exit
<1>12. CASE UNCHANGED vars
  BY <1>2, <1>12 DEF vars, sinkVars
<1> QED BY <1>4, <1>5, <1>6, <1>7, <1>8, <1>9, <1>10, <1>11, <1>12 DEF Next
-----------------------------------------------------------------------------
(* The properties of one sink.                                             *)

Once(s) ==
    /\ IsInjective(Held(s))
    /\ ToSet(Held(s)) \cap lost[s] = {}
    /\ ToSet(Held(s)) \cup lost[s] = TakenBy(s)

Excused(s, p) ==
    \/ p \in lost[s]
    \/ s \notin ToSet(SinksOf(p))
    \/ s \notin Reached(p) /\ events[p].status = "raised"

(* The predecessor of the event at position j of q is before it in q. *)
Preceded(s, q, j) ==
    events[q[j]].prev # 0 =>
        \/ \E i \in 1 .. (j - 1) : q[i] = events[q[j]].prev
        \/ Excused(s, events[q[j]].prev)

Linked(s) == \A j \in DOMAIN Held(s) : Preceded(s, Held(s), j)

Sinkwise ==
    /\ EachEventOnce <=> \A s \in Sinks : Once(s)
    /\ PredecessorBeforeEvent <=> \A s \in Sinks : Linked(s)

(* The two properties speak of each sink by itself.                        *)
LEMMA SinkBySink == Sinkwise
BY DEF Sinkwise, EachEventOnce, PredecessorBeforeEvent, Once, Linked, Preceded, Excused, Held

(* What a sink has, as sequences of emitted events. *)
LEMMA HeldTypes ==
    ASSUME Typed, NEW s \in Sinks, NEW D, D = DOMAIN events
    PROVE  /\ stored[s] \in Seq(D) /\ buffer[s] \in Seq(D) /\ Held(s) \in Seq(D)
           /\ ToSet(Held(s)) = ToSet(stored[s]) \cup ToSet(buffer[s])
           /\ IsInjective(Held(s)) =>
                 IsInjective(stored[s]) /\ ToSet(stored[s]) \cap ToSet(buffer[s]) = {}
           /\ Len(stored[s]) \in Nat /\ Len(stored[s]) <= Len(Held(s))
           /\ DOMAIN stored[s] = 1 .. Len(stored[s])
           /\ \A i \in 1 .. Len(stored[s]) : Held(s)[i] = stored[s][i]
<1>1. PICK q, r : q = stored[s] /\ r = buffer[s]
  OBVIOUS
<1>2. q \in Seq(D) /\ r \in Seq(D)
  BY <1>1 DEF Typed
<1>3. Len(q) \in Nat /\ Len(r) \in Nat /\ DOMAIN q = 1 .. Len(q)
  BY <1>2
<1>4. /\ q \o r \in Seq(D) /\ Len(q \o r) = Len(q) + Len(r)
      /\ ToSet(q \o r) = ToSet(q) \cup ToSet(r)
      /\ \A i \in 1 .. Len(q) : (q \o r)[i] = q[i]
      /\ IsInjective(q \o r) => IsInjective(q) /\ ToSet(q) \cap ToSet(r) = {}
  BY <1>2, ConcatElements
<1>5. PICK h : h = q \o r
  OBVIOUS
<1>6. Held(s) = h
  BY <1>1, <1>5 DEF Held
<1>7. Len(q) <= Len(h)
  BY <1>3, <1>4, <1>5
<1> QED BY <1>1, <1>2, <1>3, <1>4, <1>5, <1>6, <1>7

(* No step duplicates or silently loses an event of a sink.                *)
LEMMA OnceStep ==
    ASSUME WriteInv, NEW s \in Sinks, Once(s), [Next]_vars
    PROVE  Once(s)'
<1>0. PICK D : D = DOMAIN events
  OBVIOUS
<1>1. /\ Held(s) \in Seq(D)
      /\ ToSet(Held(s)) = ToSet(stored[s]) \cup ToSet(buffer[s])
      /\ IsInjective(Held(s)) =>
            IsInjective(stored[s]) /\ ToSet(stored[s]) \cap ToSet(buffer[s]) = {}
  BY <1>0, HeldTypes DEF WriteInv
<1>2. CASE Keeps(s) /\ TakenBy(s)' = TakenBy(s)
  BY <1>2 DEF Keeps, Once
<1>3. CASE Drops(s, {}) /\ TakenBy(s)' = TakenBy(s)
  BY <1>1, <1>3 DEF Drops, Once
<1>4. ASSUME NEW e \in DOMAIN events \ TakenBy(s), TakenBy(s)' = TakenBy(s) \cup {e},
             Takes(s, e)
      PROVE  Once(s)'
  <2>1. e \in D /\ e \notin ToSet(Held(s)) /\ e \notin lost[s]
    BY <1>0, <1>4 DEF Once
  <2>2. /\ ToSet(Append(Held(s), e)) = ToSet(Held(s)) \cup {e}
        /\ IsInjective(Held(s)) /\ e \notin ToSet(Held(s)) => IsInjective(Append(Held(s), e))
    BY <1>1, <2>1, AppendElements
  <2> QED BY <1>4, <2>1, <2>2 DEF Once, Takes
<1>5. ASSUME NEW e \in DOMAIN events \ TakenBy(s), TakenBy(s)' = TakenBy(s) \cup {e},
             Drops(s, {e})
      PROVE  Once(s)'
  BY <1>1, <1>5 DEF Drops, Once
<1> QED BY <1>2, <1>3, <1>4, <1>5, SinkStep

(* A sink that lacks a finished event for a reason keeps the reason.       *)
LEMMA ExcusedStays ==
    ASSUME WriteInv, NEW s \in Sinks, [Next]_vars, NEW p \in DOMAIN events,
           events[p].status # "writing", Excused(s, p)
    PROVE  Excused(s, p)'
<1>1. events'[p] = events[p]
  BY EventsStay
<1>2. SinksOf(p)' = SinksOf(p) /\ Reached(p)' = Reached(p)
  BY <1>1 DEF SinksOf, Reached
<1>3. lost[s] \subseteq lost'[s]
  BY SinkStep DEF Keeps, Takes, Drops
<1> QED BY <1>1, <1>2, <1>3 DEF Excused

(* The write of an event's predecessor is over: the sink has taken the     *)
(* predecessor, or it is excused.                                          *)
LEMMA PredecessorTaken ==
    ASSUME WriteInv, NEW s \in Sinks, Once(s), NEW p \in DOMAIN events,
           events[p].status # "writing"
    PROVE  p \in ToSet(Held(s)) \/ Excused(s, p)
<1>1. CASE s \in Reached(p)
  BY <1>1 DEF TakenBy, Once, Excused
<1>2. CASE s \notin Reached(p) /\ events[p].status = "raised"
  BY <1>2 DEF Excused
<1>3. CASE s \notin Reached(p) /\ events[p].status = "returned"
  <2>1. events[p].tried = Len(SinksOf(p)) /\ DOMAIN SinksOf(p) = 1 .. Len(SinksOf(p))
    BY <1>3, SinksOfEvents DEF WriteInv, Progress
  <2>2. Reached(p) = ToSet(SinksOf(p))
    BY <2>1 DEF Reached, ToSet
  <2> QED BY <1>3, <2>2 DEF Excused
<1>4. events[p].status \in {"writing", "returned", "raised"}
  <2>1. events[p] \in EventRecord
    BY DEF WriteInv, Typed, TypeOK
  <2> QED BY <2>1 DEF EventRecord
<1> QED BY <1>1, <1>2, <1>3, <1>4

(* No step puts an event before its predecessor in a sink.                 *)
LEMMA LinkedStep ==
    ASSUME WriteInv, NEW s \in Sinks, Once(s), Linked(s), [Next]_vars
    PROVE  Linked(s)'
<1>0. PICK D : D = DOMAIN events
  OBVIOUS
<1>1. /\ stored[s] \in Seq(D) /\ Held(s) \in Seq(D) /\ Len(Held(s)) \in Nat
      /\ Len(stored[s]) \in Nat /\ Len(stored[s]) <= Len(Held(s))
      /\ \A i \in 1 .. Len(stored[s]) : Held(s)[i] = stored[s][i]
      /\ DOMAIN stored[s] = 1 .. Len(stored[s]) /\ DOMAIN Held(s) = 1 .. Len(Held(s))
  BY <1>0, HeldTypes DEF WriteInv
<1>2. ASSUME NEW e \in DOMAIN events, events[e].prev # 0
      PROVE  /\ events'[e].prev = events[e].prev /\ events[e].prev \in DOMAIN events
             /\ events[events[e].prev].status # "writing"
  <2>1. events'[e].prev = events[e].prev
    BY EventsStay
  <2>2. events[e].prev < e /\ events[events[e].prev].status # "writing"
    BY <1>2 DEF WriteInv, Progress
  <2>3. /\ events[e] \in EventRecord /\ e \in 1 .. Len(events) /\ Len(events) \in Nat
        /\ DOMAIN events = 1 .. Len(events)
    BY DEF WriteInv, Typed, TypeOK
  <2>4. events[e].prev \in Nat
    BY <2>3, AuditAssumption DEF EventRecord
  <2> QED BY <1>2, <2>1, <2>2, <2>3, <2>4
<1>3. PICK h : h = Held(s)
  OBVIOUS
<1>4. ASSUME NEW j \in 1 .. Len(h) PROVE Preceded(s, h, j)'
  <2>1. PICK e : e = h[j]
    OBVIOUS
  <2>2. e \in DOMAIN events
    BY <1>0, <1>1, <1>3, <2>1
  <2>3. PICK p : p = events[e].prev
    OBVIOUS
  <2>4. events'[e].prev = p
    BY <2>2, <2>3, EventsStay
  <2>5. CASE p = 0
    BY <2>1, <2>4, <2>5 DEF Preceded
  <2>6. CASE p # 0
    <3>1. p \in DOMAIN events /\ events[p].status # "writing"
      BY <1>2, <2>2, <2>3, <2>6
    <3>2. Preceded(s, h, j)
      BY <1>1, <1>3 DEF Linked
    <3>3. (\E i \in 1 .. (j - 1) : h[i] = p) \/ Excused(s, p)
      BY <2>1, <2>3, <2>6, <3>2 DEF Preceded
    <3>4. Excused(s, p) => Excused(s, p)'
      BY <3>1, ExcusedStays
    <3> QED BY <2>1, <2>4, <3>3, <3>4 DEF Preceded, Excused
  <2> QED BY <2>5, <2>6
<1>5. ASSUME NEW q, NEW j \in 1 .. Len(h), q[j] = h[j], \A i \in 1 .. (j - 1) : q[i] = h[i]
      PROVE  Preceded(s, q, j)'
  <2>1. Preceded(s, h, j)'
    BY <1>4
  <2> QED BY <1>5, <2>1 DEF Preceded, Excused
<1>6. CASE Keeps(s)
  <2>1. Held(s)' = h /\ \A j \in DOMAIN h : Preceded(s, h, j)'
    BY <1>1, <1>3, <1>4, <1>6 DEF Keeps
  <2> QED BY <2>1 DEF Linked, Preceded, Excused
<1>7. ASSUME Held(s)' = stored[s] PROVE Linked(s)'
  <2>1. PICK q : q = stored[s]
    OBVIOUS
  <2>2. ASSUME NEW j \in DOMAIN q PROVE Preceded(s, q, j)'
    <3>1. /\ j \in 1 .. Len(h) /\ q[j] = h[j]
          /\ \A i \in 1 .. (j - 1) : q[i] = h[i]
      BY <1>1, <1>3, <2>1
    <3> QED BY <1>5, <3>1
  <2> QED BY <1>7, <2>1, <2>2 DEF Linked, Preceded, Excused
<1>8. ASSUME NEW e \in DOMAIN events, Takes(s, e) PROVE Linked(s)'
  <2>1. PICK q : q = Append(h, e)
    OBVIOUS
  <2>2. PICK n : n = Len(h) + 1
    OBVIOUS
  <2>3. /\ h \in Seq(D) /\ e \in D /\ Len(h) \in Nat
    BY <1>0, <1>1, <1>3
  <2>4. /\ DOMAIN q = 1 .. n /\ q[n] = e /\ n - 1 = Len(h)
        /\ \A i \in 1 .. Len(h) : q[i] = h[i]
    BY <2>1, <2>2, <2>3
  <2>5. ASSUME NEW j \in 1 .. Len(h) PROVE Preceded(s, q, j)'
    <3>1. q[j] = h[j] /\ \A i \in 1 .. (j - 1) : q[i] = h[i]
      BY <2>3, <2>4
    <3> QED BY <1>5, <3>1
  <2>6. Preceded(s, q, n)'
    <3>1. PICK p : p = events[e].prev
      OBVIOUS
    <3>2. events'[e].prev = p
      BY <3>1, EventsStay
    <3>3. CASE p = 0
      BY <2>4, <3>2, <3>3 DEF Preceded
    <3>4. CASE p # 0
      <4>1. p \in DOMAIN events /\ events[p].status # "writing"
        BY <1>2, <3>1, <3>4
      <4>2. p \in ToSet(h) \/ Excused(s, p)
        BY <1>3, <4>1, PredecessorTaken
      <4>3. p \in ToSet(h) => \E i \in 1 .. (n - 1) : q[i] = p
        BY <1>1, <1>3, <2>4 DEF ToSet
      <4>4. Excused(s, p) => Excused(s, p)'
        BY <4>1, ExcusedStays
      <4> QED BY <2>4, <3>2, <4>2, <4>3, <4>4 DEF Preceded, Excused
    <3> QED BY <3>3, <3>4
  <2>7. \A j \in 1 .. n : j \in 1 .. Len(h) \/ j = n
    BY <2>2, <2>3
  <2>8. Held(s)' = q
    BY <1>3, <1>8, <2>1 DEF Takes
  <2>9. \A j \in DOMAIN q : Preceded(s, q, j)'
    BY <2>4, <2>5, <2>6, <2>7
  <2> QED BY <2>8, <2>9 DEF Linked, Preceded, Excused
<1> QED BY <1>6, <1>7, <1>8, SinkStep DEF Drops
-----------------------------------------------------------------------------
SinksSound == WriteInv /\ EachEventOnce /\ LossHasCause /\ PredecessorBeforeEvent

(* All sinks start empty.                                                  *)
LEMMA SinksSoundInit == Init => SinksSound
<1> SUFFICES ASSUME Init PROVE SinksSound
  OBVIOUS
<1>1. WriteInv
  BY WriteInvInit
<1>2. ASSUME NEW s \in Sinks
      PROVE  Held(s) = <<>> /\ lost[s] = {} /\ TakenBy(s) = {}
  BY DEF Init, Held, TakenBy
<1>3. ASSUME NEW s \in Sinks PROVE Once(s) /\ Linked(s)
  <2>1. IsInjective(Held(s)) /\ ToSet(Held(s)) = {}
    BY <1>2 DEF IsInjective, ToSet
  <2>2. DOMAIN Held(s) = {}
    BY <1>2
  <2>3. Linked(s)
    BY <2>2 DEF Linked
  <2> QED BY <1>2, <2>1, <2>3 DEF Once
<1>4. LossHasCause
  BY <1>2 DEF LossHasCause
<1> QED BY <1>1, <1>3, <1>4, SinkBySink DEF SinksSound, Sinkwise

(* The invariant of all sinks is inductive.                                *)
LEMMA SinksSoundStep == SinksSound /\ [Next]_vars => SinksSound'
<1> SUFFICES ASSUME SinksSound, [Next]_vars PROVE SinksSound'
  OBVIOUS
<1>1. WriteInv /\ WriteInv'
  BY WriteInvStep DEF SinksSound
<1>2. \A s \in Sinks : Once(s) /\ Linked(s)
  BY SinkBySink DEF SinksSound, Sinkwise
<1>3. \A s \in Sinks : Once(s)' /\ Linked(s)'
  BY <1>1, <1>2, OnceStep, LinkedStep
<1>4. LossHasCause'
  BY <1>1, SinkStep DEF LossHasCause, SinksSound
<1>5. Sinkwise'
  BY SinkBySink, PTL
<1> QED BY <1>1, <1>3, <1>4, <1>5 DEF SinksSound, Sinkwise

(* log_audit_event, S3AuditSink and set_audit_sink: with any number of     *)
(* writers, any sinks and any batch size, every event a sink took is       *)
(* exactly once in its store or its buffer, or lost for a cause.           *)
THEOREM NothingVanishes == Spec => []EventsAccounted
<1>1. SinksSound => EventsAccounted
  BY DEF SinksSound, WriteInv, Typed, EventsAccounted
<1> QED BY <1>1, SinksSoundInit, SinksSoundStep, PTL DEF Spec

(* The hash chain of log_audit_event, as one sink shows it: the            *)
(* predecessor of every event is before it in the sink, or the sink never  *)
(* took it, or lost it.                                                    *)
THEOREM ChainReadsForward == Spec => []PredecessorBeforeEvent
<1>1. SinksSound => PredecessorBeforeEvent
  BY DEF SinksSound
<1> QED BY <1>1, SinksSoundInit, SinksSoundStep, PTL DEF Spec
=============================================================================
