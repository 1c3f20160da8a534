------------------------------ MODULE AuditLog ------------------------------
(***************************************************************************)
(* config/app_logger.py: log_audit_event, the hash chain it keeps in a     *)
(* context variable, and the audit sinks (stdout, CloudWatch, S3 with its  *)
(* buffer and flush thread, and the composite of several).                 *)
(*                                                                         *)
(* An event is its index in `events', which also stands for its SHA-256    *)
(* audit_hash: two events never collide.  0 is the empty hash.             *)
(*                                                                         *)
(* Writers are request tasks of the event loop and threads of the pool     *)
(* FastAPI runs sync dependencies in (require_admin); the flush thread of  *)
(* each S3 sink runs beside them.  _buffer_lock covers an append and a     *)
(* flush including put_object, so each of these is one action.             *)
(***************************************************************************)
EXTENDS Integers, Sequences, FiniteSets, SequencesExt

CONSTANTS
    Contexts,      \* contextvars contexts that may emit events
    Stdout, S3, CloudWatch,   \* the sink instances of each class
    Configs,       \* the sinks set_audit_sink installs, one sequence each
    MaxBatch,      \* AUDIT_S3_MAX_BATCH
    MaxEvents      \* bound: events emitted

Sinks == Stdout \cup S3 \cup CloudWatch

ASSUME AuditAssumption ==
    /\ Configs \in Seq(Seq(Sinks)) /\ Configs # <<>>
    /\ \A k \in DOMAIN Configs : Configs[k] # <<>> /\ IsInjective(Configs[k])
    /\ Stdout \cap S3 = {} /\ Stdout \cap CloudWatch = {} /\ S3 \cap CloudWatch = {}
    /\ MaxBatch \in Nat \ {0} /\ MaxEvents \in Nat

VARIABLES
    events,    \* the emitted events: chain link, progress of the write
    chain,     \* _audit_hash_chain_ctx per context
    writer,    \* the event a context is writing to the sinks, 0 for none
    current,   \* _audit_sink, an index of Configs
    closing,   \* set_audit_sink: position of the next sink to close, 0 when idle
    buffer,    \* S3AuditSink._buffer
    stored,    \* what each sink's back end holds, in order
    lost,      \* events a sink took and will never store
    flusher,   \* is the S3 sink's flush thread alive
    failed,    \* sinks whose back end has raised
    exited     \* the process is gone

sinkVars == <<buffer, stored, lost, failed>>
vars == <<events, chain, writer, current, closing, buffer, stored, lost,
          flusher, failed, exited>>

Init ==
    /\ events = <<>>
    /\ chain = [c \in Contexts |-> 0]
    /\ writer = [c \in Contexts |-> 0]
    /\ current = 1
    /\ closing = 0
    /\ buffer = [s \in Sinks |-> <<>>]
    /\ stored = [s \in Sinks |-> <<>>]
    /\ lost = [s \in Sinks |-> {}]
    /\ flusher = [s \in S3 |-> TRUE]
    /\ failed = {}
    /\ exited = FALSE

-----------------------------------------------------------------------------
(* The sinks of event e's write, and the ones it has reached. *)
SinksOf(e)   == Configs[events[e].cfg]
Reached(e)   == {SinksOf(e)[i] : i \in 1 .. events[e].tried}
NextSink(e)  == SinksOf(e)[events[e].tried + 1]
TakenBy(s)   == {e \in DOMAIN events : s \in Reached(e)}

(* A put of a batch to the back end of s: it succeeds; it fails; or it is  *)
(* applied although the caller sees an exception (external: boto3).        *)
Put(s, batch, raised) ==
    /\ \/ /\ stored' = [stored EXCEPT ![s] = @ \o batch]
          /\ lost' = lost
       \/ /\ raised
          /\ lost' = [lost EXCEPT ![s] = @ \cup ToSet(batch)]
          /\ stored' = stored
    /\ failed' = IF raised THEN failed \cup {s} ELSE failed

(* Mutant: the buffer is not cleared before the put. *)
FlushLockedKeepingBuffer(s, batch, raised) ==
    /\ Put(s, batch, raised)
    /\ buffer' = [buffer EXCEPT ![s] = IF raised THEN batch ELSE <<>>]

(* _flush_locked of a non-empty buffer: cleared first, then put, so that a *)
(* batch whose put raises is gone.                                         *)
FlushLocked(s, batch, raised) ==
    /\ buffer' = [buffer EXCEPT ![s] = <<>>]
    /\ Put(s, batch, raised)

(* len(self._buffer) >= self._max_batch *)
BatchFull(buf) == Len(buf) >= MaxBatch

(* Mutant: the newest event is put at the front. *)
BufferedFirst(s, e) == <<e>> \o buffer[s]

(* self._buffer.append(event) *)
Buffered(s, e) == Append(buffer[s], e)

(* sink.write(event); raised: it raises. *)
Write(s, e, raised) ==
    \/ /\ s \in Stdout
       /\ ~raised
       /\ Put(s, <<e>>, FALSE)
       /\ UNCHANGED buffer
    \/ /\ s \in CloudWatch
       /\ Put(s, <<e>>, raised)
       /\ UNCHANGED buffer
    \/ /\ s \in S3
       /\ ~BatchFull(Buffered(s, e))
       /\ ~raised
       /\ buffer' = [buffer EXCEPT ![s] = Buffered(s, e)]
       /\ UNCHANGED <<stored, lost, failed>>
    \/ /\ s \in S3
       /\ BatchFull(Buffered(s, e))
       /\ FlushLocked(s, Buffered(s, e), raised)

-----------------------------------------------------------------------------
(* A request's task starts with the default of the context variable ...    *)
NewRequest(c) ==
    /\ ~exited /\ writer[c] = 0
    /\ chain' = [chain EXCEPT ![c] = 0]
    /\ UNCHANGED <<events, writer, current, closing, sinkVars, flusher, exited>>

(* ... and a task or a pool thread started from context d (the fields of a *)
(* GraphQL query, a sync dependency) with a copy of d's chain, which d     *)
(* never sees again.                                                       *)
CopyContext(c, d) ==
    /\ ~exited /\ c # d /\ writer[c] = 0 /\ writer[d] = 0
    /\ chain' = [chain EXCEPT ![c] = chain[d]]
    /\ UNCHANGED <<events, writer, current, closing, sinkVars, flusher, exited>>

(* log_audit_event up to the call of write: the hash is taken over the     *)
(* previous hash, the chain advances, and the sink is read under           *)
(* _sink_lock, which set_audit_sink holds while it closes the old one.     *)
Emit(c) ==
    /\ ~exited /\ writer[c] = 0 /\ closing = 0
    /\ Len(events) < MaxEvents
    /\ events' = Append(events, [prev |-> chain[c], cfg |-> current,
                                 tried |-> 0, status |-> "writing"])
    /\ chain' = [chain EXCEPT ![c] = Len(events) + 1]
    /\ writer' = [writer EXCEPT ![c] = Len(events) + 1]
    /\ UNCHANGED <<current, closing, sinkVars, flusher, exited>>

(* The next sink of the composite takes the event; log_audit_event returns *)
(* after the last one, or raises as soon as one raises.                    *)
WriteNext(c) ==
    LET e == writer[c] IN
    /\ ~exited /\ e # 0
    /\ \E raised \in BOOLEAN :
        LET finished == raised \/ events[e].tried + 1 = Len(SinksOf(e)) IN
        /\ Write(NextSink(e), e, raised)
        /\ events' = [events EXCEPT ![e] =
               [events[e] EXCEPT !.tried = @ + 1,
                                 !.status = IF raised THEN "raised"
                                            ELSE IF finished THEN "returned"
                                            ELSE "writing"]]
        /\ writer' = [writer EXCEPT ![c] = IF finished THEN 0 ELSE e]
    /\ UNCHANGED <<chain, current, closing, flusher, exited>>

(* Mutant: the flush loop waits for a full batch. *)
FlushLoopOnlyFull(s) ==
    /\ ~exited /\ flusher[s] /\ BatchFull(buffer[s])
    /\ \E raised \in BOOLEAN :
           /\ FlushLocked(s, buffer[s], raised)
           /\ flusher' = [flusher EXCEPT ![s] = ~raised]
    /\ UNCHANGED <<events, chain, writer, current, closing, exited>>

(* flush_loop wakes up and flushes; an exception ends the thread. *)
FlushLoop(s) ==
    /\ ~exited /\ flusher[s] /\ buffer[s] # <<>>
    /\ \E raised \in BOOLEAN :
           /\ FlushLocked(s, buffer[s], raised)
           /\ flusher' = [flusher EXCEPT ![s] = ~raised]
    /\ UNCHANGED <<events, chain, writer, current, closing, exited>>

(* configure_audit_sink has built the next sink and calls set_audit_sink.  *)
SetAuditSink ==
    /\ ~exited /\ closing = 0 /\ current < Len(Configs)
    /\ closing' = 1
    /\ UNCHANGED <<events, chain, writer, current, sinkVars, flusher, exited>>

(* _audit_sink.close(), sink by sink: an S3 sink flushes.  If that raises, *)
(* the old sink stays installed; after the last one the new one is.        *)
CloseNext ==
    LET s == Configs[current][closing] IN
    /\ ~exited /\ closing # 0
    /\ \E raised \in BOOLEAN :
        /\ \/ /\ s \in S3 /\ buffer[s] # <<>>
              /\ FlushLocked(s, buffer[s], raised)
           \/ /\ s \notin S3 \/ buffer[s] = <<>>
              /\ ~raised
              /\ UNCHANGED sinkVars
        /\ \/ /\ raised
              /\ closing' = 0 /\ UNCHANGED current
           \/ /\ ~raised /\ closing < Len(Configs[current])
              /\ closing' = closing + 1 /\ UNCHANGED current
           \/ /\ ~raised /\ closing = Len(Configs[current])
              /\ closing' = 0 /\ current' = current + 1
    /\ UNCHANGED <<events, chain, writer, flusher, exited>>

(* Shutdown or crash: the lifespan hook does not close the sink and the    *)
(* flush threads are daemons, so what is buffered is gone.                 *)
Exit ==
    /\ ~exited
    /\ exited' = TRUE
    /\ lost' = [s \in Sinks |-> lost[s] \cup ToSet(buffer[s])]
    /\ buffer' = [s \in Sinks |-> <<>>]
    /\ UNCHANGED <<events, chain, writer, current, closing, stored,
                   flusher, failed>>

Next ==
    \/ \E c \in Contexts : NewRequest(c) \/ Emit(c) \/ WriteNext(c)
    \/ \E c, d \in Contexts : CopyContext(c, d)
    \/ \E s \in S3 : FlushLoop(s)
    \/ SetAuditSink \/ CloseNext \/ Exit

Spec == Init /\ [][Next]_vars

(* The flush thread wakes up every AUDIT_S3_FLUSH_SECONDS. *)
FairSpec == Spec /\ \A s \in S3 : WF_vars(FlushLoop(s))
-----------------------------------------------------------------------------
EventRecord ==
    [prev : 0 .. MaxEvents, cfg : DOMAIN Configs, tried : Nat, status : {"writing", "returned", "raised"}]

(* The variables hold values of their types; with the lock free a buffer   *)
(* never holds a full batch.                                               *)
TypeOK ==
    /\ events \in Seq(EventRecord)
    /\ chain \in [Contexts -> 0 .. Len(events)]
    /\ writer \in [Contexts -> 0 .. Len(events)]
    /\ current \in DOMAIN Configs
    /\ closing \in 0 .. Len(Configs[current])
    /\ \A s \in Sinks :
          /\ buffer[s] \in Seq(DOMAIN events)
          /\ Len(buffer[s]) < MaxBatch
          /\ stored[s] \in Seq(DOMAIN events)
          /\ lost[s] \subseteq DOMAIN events
          /\ s \notin S3 => buffer[s] = <<>>
    /\ flusher \in [S3 -> BOOLEAN]
    /\ failed \subseteq Sinks
    /\ exited \in BOOLEAN

(* Whatever the writers, the flush thread, a reconfiguration and a failing *)
(* back end do to each other, every event a sink took is exactly once in   *)
(* its store or its buffer, or it is lost: never stored twice, never lost  *)
(* and stored, never vanished without trace.                               *)
EachEventOnce ==
    \A s \in Sinks :
        LET held == stored[s] \o buffer[s] IN
        /\ IsInjective(held)
        /\ ToSet(held) \cap lost[s] = {}
        /\ ToSet(held) \cup lost[s] = TakenBy(s)

(* A sink loses events only when its back end raised or the process ended. *)
LossHasCause ==
    \A s \in Sinks : lost[s] # {} => (s \in failed \/ exited)

(* What an auditor who reads one sink can rely on: the predecessor of      *)
(* every event is found before it in the same sink, unless it belongs to a *)
(* configuration without that sink, its own write raised before reaching   *)
(* it, or the sink lost it.                                                *)
PredecessorBeforeEvent ==
    \A s \in Sinks :
        LET held == stored[s] \o buffer[s] IN
        \A j \in DOMAIN held :
            LET p == events[held[j]].prev IN
            p # 0 =>
                \/ \E i \in 1 .. (j - 1) : held[i] = p
                \/ p \in lost[s]
                \/ s \notin ToSet(SinksOf(p))
                \/ s \notin Reached(p) /\ events[p].status = "raised"

(* A buffered event does not stay buffered: the flush thread takes it out, *)
(* unless an earlier flush exception has killed the thread.                *)
BufferIsFlushed ==
    \A s \in S3 : \A e \in 1 .. MaxEvents :
        (e \in ToSet(buffer[s])) ~> (e \notin ToSet(buffer[s]) \/ ~flusher[s])

(* app_logger.py: nothing an audit sink takes is duplicated or vanishes,   *)
(* and what is lost has a cause, on well-typed states whose S3 buffer      *)
(* never reaches the batch size outside the lock.                          *)
EventsAccounted == TypeOK /\ EachEventOnce /\ LossHasCause
=============================================================================
