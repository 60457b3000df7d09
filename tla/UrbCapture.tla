----------------------------- MODULE UrbCapture -----------------------------
(***************************************************************************)
(* The URB capture queue of src/sender/capture/urb_capture.cpp.           *)
(*                                                                         *)
(* Producers are the threads that call InjectUrb / OnDeviceData (the two   *)
(* have the same body).  The consumer is ProcessingThread.  The controller *)
(* is the thread that calls StartCapture, StopCapture and ResetStatistics. *)
(* capturing_ and should_stop_ are std::atomic<bool> and are read and      *)
(* written without queue_mutex_; the queue is only touched under it.       *)
(*                                                                         *)
(* The condition-variable wait is split where the code is split: the      *)
(* predicate is evaluated with queue_mutex_ held, and the thread then      *)
(* releases the mutex and joins the wait set.  A notify wakes a thread     *)
(* only if it is in the wait set at that moment.                           *)
(***************************************************************************)
EXTENDS Integers, Sequences, FiniteSets, SequencesExt

CONSTANTS
    Producers,     \* threads calling InjectUrb / OnDeviceData
    Urbs,          \* the URBs they submit; each is submitted at most once
    Attr,          \* Attr[u] = [type, status, actual_length] of URB u
    TransferTypes, \* CONTROL, BULK, INTERRUPT, ISOCHRONOUS
    MaxStarts,     \* bound on the number of StartCapture calls
    NoUrb          \* model value: no URB

ASSUME NoUrb \notin Urbs

VARIABLES
    capturing,     \* UrbCapture::capturing_
    shouldStop,    \* UrbCapture::should_stop_
    queue,         \* UrbCapture::urb_queue_
    cpc,           \* ProcessingThread's program counter
    current,       \* the local "urb" of ProcessingThread
    ppc,           \* each producer's program counter
    pending,       \* the URB each producer is submitting
    used,          \* URBs already submitted (they are never reused)
    stats,         \* UrbCapture::statistics_
    ctrl,          \* the controller's program counter
    starts,        \* number of StartCapture calls
    pushed,        \* history: URBs pushed onto urb_queue_, in order
    delivered,     \* history: URBs passed to urb_callback_, in order
    drainMark      \* history: Len(pushed) when StopCapture set should_stop_

vars == <<capturing, shouldStop, queue, cpc, current, ppc, pending, used,
          stats, ctrl, starts, pushed, delivered, drainMark>>

ZeroStats == [total |-> 0, bytes |-> 0, errors |-> 0,
              perType |-> [t \in TransferTypes |-> 0]]

(* queue_mutex_ is held by ProcessingThread between the predicate check and *)
(* the wait, and inside the drain loop; producers hold it only for a push.   *)
ConsumerHoldsLock == cpc \in {"block", "drain"}

(* queue_cv_.notify_one / notify_all: the consumer wakes if it is waiting. *)
Notified(pc) == IF pc = "waiting" THEN "wait" ELSE pc

(* UrbCapture::UpdateStatistics *)
UpdateStatistics(s, u) ==
    [s EXCEPT !.total = @ + 1,
              !.bytes = @ + Attr[u].actual_length,
              !.errors = @ + (IF Attr[u].status # 0 THEN 1 ELSE 0),
              !.perType[Attr[u].type] = @ + 1]

(* Mutant: the queue read from the wrong end. *)
TakeNextLast(q) == [urb |-> Last(q), rest |-> Front(q)]

(* Mutant: front() read but pop() forgotten. *)
TakeNextNoPop(q) == [urb |-> Head(q), rest |-> q]

(* urb_queue_.front() followed by urb_queue_.pop() *)
TakeNext(q) == [urb |-> Head(q), rest |-> Tail(q)]

-----------------------------------------------------------------------------

Init ==
    /\ capturing = FALSE
    /\ shouldStop = FALSE
    /\ queue = <<>>
    /\ cpc = "none"
    /\ current = NoUrb
    /\ ppc = [p \in Producers |-> "idle"]
    /\ pending = [p \in Producers |-> NoUrb]
    /\ used = {}
    /\ stats = ZeroStats
    /\ ctrl = "stopped"
    /\ starts = 0
    /\ pushed = <<>>
    /\ delivered = <<>>
    /\ drainMark = 0

-----------------------------------------------------------------------------
(* Controller *)

(* StartCapture: should_stop_ = false, capturing_ = true, the processing  *)
(* thread created, device capture started.  The early return on           *)
(* capturing_ is a step that changes nothing.                             *)
StartCapture ==
    /\ ctrl = "stopped" /\ starts < MaxStarts
    /\ shouldStop' = FALSE
    /\ capturing' = TRUE
    /\ cpc' = "loop"
    /\ starts' = starts + 1
    /\ ctrl' = "running"
    /\ UNCHANGED <<queue, current, ppc, pending, used, stats, pushed, delivered, drainMark>>

(* StopCapture, first store: should_stop_ = true. *)
StopSetShouldStop ==
    /\ ctrl = "running"
    /\ shouldStop' = TRUE
    /\ drainMark' = Len(pushed)
    /\ ctrl' = "clear_capturing"
    /\ UNCHANGED <<capturing, queue, cpc, current, ppc, pending, used, stats,
                   starts, pushed, delivered>>

(* StopCapture, second store: capturing_ = false. *)
StopClearCapturing ==
    /\ ctrl = "clear_capturing"
    /\ capturing' = FALSE
    /\ ctrl' = "notify"
    /\ UNCHANGED <<shouldStop, queue, cpc, current, ppc, pending, used, stats,
                   starts, pushed, delivered, drainMark>>

(* StopCapture: devices stopped, then queue_cv_.notify_all() without     *)
(* queue_mutex_.                                                          *)
StopNotify ==
    /\ ctrl = "notify"
    /\ cpc' = Notified(cpc)
    /\ ctrl' = "join"
    /\ UNCHANGED <<capturing, shouldStop, queue, current, ppc, pending, used,
                   stats, starts, pushed, delivered, drainMark>>

(* Mutant: StopCapture returns without waiting for the thread. *)
StopDetach ==
    /\ ctrl = "join"
    /\ ctrl' = "stopped"
    /\ UNCHANGED <<capturing, shouldStop, queue, cpc, current, ppc, pending,
                   used, stats, starts, pushed, delivered, drainMark>>

(* StopCapture: processing_thread_.join() returns once the thread ended. *)
StopJoin ==
    /\ ctrl = "join"
    /\ cpc = "done"
    /\ cpc' = "none"
    /\ ctrl' = "stopped"
    /\ UNCHANGED <<capturing, shouldStop, queue, current, ppc, pending, used,
                   stats, starts, pushed, delivered, drainMark>>

(* ResetStatistics: all counters cleared under stats_mutex_. *)
ResetStatistics ==
    /\ ctrl \in {"running", "stopped"}
    /\ stats # ZeroStats
    /\ stats' = ZeroStats
    /\ UNCHANGED <<capturing, shouldStop, queue, cpc, current, ppc, pending,
                   used, ctrl, starts, pushed, delivered, drainMark>>

-----------------------------------------------------------------------------
(* Producers *)

(* InjectUrb / OnDeviceData: return if !capturing_; otherwise go on to    *)
(* the push.  capturing_ is read once, without queue_mutex_.              *)
InjectUrb(p, u) ==
    /\ ppc[p] = "idle"
    /\ u \notin used
    /\ used' = used \cup {u}
    /\ IF capturing
          THEN ppc' = [ppc EXCEPT ![p] = "push"] /\ pending' = [pending EXCEPT ![p] = u]
          ELSE UNCHANGED <<ppc, pending>>
    /\ UNCHANGED <<capturing, shouldStop, queue, cpc, current, stats, ctrl,
                   starts, pushed, delivered, drainMark>>

(* urb_queue_.push(urb) under queue_mutex_. *)
PushUrb(p) ==
    /\ ppc[p] = "push"
    /\ ~ConsumerHoldsLock
    /\ queue' = Append(queue, pending[p])
    /\ pushed' = Append(pushed, pending[p])
    /\ ppc' = [ppc EXCEPT ![p] = "notify"]
    /\ UNCHANGED <<capturing, shouldStop, cpc, current, pending, used, stats,
                   ctrl, starts, delivered, drainMark>>

(* queue_cv_.notify_one() after the mutex is released. *)
NotifyOne(p) ==
    /\ ppc[p] = "notify"
    /\ cpc' = Notified(cpc)
    /\ ppc' = [ppc EXCEPT ![p] = "idle"]
    /\ pending' = [pending EXCEPT ![p] = NoUrb]
    /\ UNCHANGED <<capturing, shouldStop, queue, current, used, stats, ctrl,
                   starts, pushed, delivered, drainMark>>

-----------------------------------------------------------------------------
(* ProcessingThread *)

ConsumerUnchanged == UNCHANGED <<capturing, shouldStop, ppc, pending, used,
                                 ctrl, starts, pushed, drainMark>>

(* while (!should_stop_.load()) *)
ConsumerLoop ==
    /\ cpc = "loop"
    /\ cpc' = IF shouldStop THEN "done" ELSE "wait"
    /\ UNCHANGED <<queue, current, stats, delivered>> /\ ConsumerUnchanged

(* Mutant: queue_cv_.wait without its predicate, so the thread blocks     *)
(* even when URBs are already queued.                                      *)
ConsumerWaitNoPredicate ==
    /\ cpc = "wait"
    /\ cpc' = IF shouldStop THEN "done" ELSE "block"
    /\ UNCHANGED <<queue, current, stats, delivered>> /\ ConsumerUnchanged

(* unique_lock, then the predicate of queue_cv_.wait; if it holds, the    *)
(* check of should_stop_ that breaks out of the loop with the queue as it *)
(* is, else on to the drain loop.  If it fails, on to blocking.           *)
ConsumerWait ==
    /\ cpc = "wait"
    /\ cpc' = CASE queue = <<>> /\ ~shouldStop -> "block"
                [] shouldStop                  -> "done"
                [] OTHER                       -> "drain"
    /\ UNCHANGED <<queue, current, stats, delivered>> /\ ConsumerUnchanged

(* Inside queue_cv_.wait: the mutex is released and the thread joins the *)
(* wait set, where only a notify (or a spurious wakeup) moves it.         *)
ConsumerBlock ==
    /\ cpc = "block"
    /\ cpc' = "waiting"
    /\ UNCHANGED <<queue, current, stats, delivered>> /\ ConsumerUnchanged

(* A wakeup no notify caused; the thread re-acquires the mutex and       *)
(* re-evaluates the predicate.                                            *)
SpuriousWakeup ==
    /\ cpc = "waiting"
    /\ cpc' = "wait"
    /\ UNCHANGED <<queue, current, stats, delivered>> /\ ConsumerUnchanged

(* while (!urb_queue_.empty()): pop the front and unlock, or leave the   *)
(* inner loop and release the mutex at the end of the iteration.          *)
ConsumerDrain ==
    /\ cpc = "drain"
    /\ IF queue = <<>>
          THEN cpc' = "loop" /\ UNCHANGED <<queue, current>>
          ELSE /\ current' = TakeNext(queue).urb
               /\ queue' = TakeNext(queue).rest
               /\ cpc' = "stats"
    /\ UNCHANGED <<stats, delivered>> /\ ConsumerUnchanged

(* UpdateStatistics(urb) under stats_mutex_. *)
ConsumerStats ==
    /\ cpc = "stats"
    /\ stats' = UpdateStatistics(stats, current)
    /\ cpc' = "callback"
    /\ UNCHANGED <<queue, current, delivered>> /\ ConsumerUnchanged

(* urb_callback_(urb), then lock.lock() back to the drain loop. *)
ConsumerCallback ==
    /\ cpc = "callback"
    /\ delivered' = Append(delivered, current)
    /\ current' = NoUrb
    /\ cpc' = "drain"
    /\ UNCHANGED <<queue, stats>> /\ ConsumerUnchanged

-----------------------------------------------------------------------------

Next ==
    \/ StartCapture \/ StopSetShouldStop \/ StopClearCapturing
    \/ StopNotify \/ StopJoin \/ ResetStatistics
    \/ \E p \in Producers, u \in Urbs : InjectUrb(p, u)
    \/ \E p \in Producers : PushUrb(p) \/ NotifyOne(p)
    \/ ConsumerLoop \/ ConsumerWait \/ ConsumerBlock \/ SpuriousWakeup
    \/ ConsumerDrain \/ ConsumerStats \/ ConsumerCallback

(* Threads that are running are scheduled: the consumer's own steps, a   *)
(* producer's push and notify once it passed the check, and a StopCapture *)
(* call in progress (after its first store).  Nothing forces a spurious   *)
(* wakeup, a new StartCapture or StopCapture call, or a reset.             *)
Fairness ==
    /\ WF_vars(ConsumerLoop) /\ WF_vars(ConsumerWait) /\ WF_vars(ConsumerBlock)
    /\ WF_vars(ConsumerDrain) /\ WF_vars(ConsumerStats) /\ WF_vars(ConsumerCallback)
    /\ \A p \in Producers : WF_vars(PushUrb(p)) /\ WF_vars(NotifyOne(p))
    /\ WF_vars(StopClearCapturing)
    /\ WF_vars(StopNotify) /\ WF_vars(StopJoin)

Spec == Init /\ [][Next]_vars /\ Fairness

-----------------------------------------------------------------------------

(* Type invariant. *)
TypeOK ==
    /\ capturing \in BOOLEAN /\ shouldStop \in BOOLEAN
    /\ queue \in Seq(Urbs) /\ current \in Urbs \cup {NoUrb}
    /\ cpc \in {"none", "loop", "wait", "block", "waiting", "drain", "stats",
                "callback", "done"}
    /\ ppc \in [Producers -> {"idle", "push", "notify"}]
    /\ pending \in [Producers -> Urbs \cup {NoUrb}]
    /\ used \subseteq Urbs
    /\ stats.total \in 0..Cardinality(Urbs)
    /\ ctrl \in {"stopped", "running", "clear_capturing", "notify", "join"}
    /\ starts \in 0..MaxStarts

(* FIFO and no loss inside the pipeline: every URB pushed has been passed *)
(* to urb_callback_, is the one ProcessingThread holds between pop and    *)
(* callback, or is still queued -- in that order, across any number of     *)
(* StartCapture / StopCapture cycles.                                      *)
FifoDelivery ==
    pushed = delivered \o (IF current = NoUrb THEN <<>> ELSE <<current>>) \o queue

(* Once StopCapture has returned, urb_callback_ is not invoked again until *)
(* the next StartCapture: Stop waits for a thread that may be between pop *)
(* and callback.                                                           *)
NoCallbackAfterStop ==
    [][ctrl = "stopped" => delivered' = delivered]_vars

(* Progress while capturing: a URB on urb_queue_ while capture runs is     *)
(* eventually passed to urb_callback_, unless StopCapture is called.  It  *)
(* rests on the predicate of queue_cv_.wait being checked under           *)
(* queue_mutex_, the mutex the producers push under, so a producer's      *)
(* notify_one is never lost.                                               *)
QueuedUrbDelivered ==
    \A u \in Urbs :
        (u \in Range(queue) /\ ctrl = "running")
            ~> (u \in Range(delivered) \/ ctrl # "running")

(* StopCapture drains: when it returns, every URB pushed before it set    *)
(* should_stop_ has been passed to urb_callback_.                          *)
StopDrains ==
    ctrl = "stopped" => Len(delivered) >= drainMark

(* StopCapture returns: a call that has begun eventually completes. *)
StopReturns ==
    ctrl = "clear_capturing" ~> ctrl = "stopped"

============================================================================
