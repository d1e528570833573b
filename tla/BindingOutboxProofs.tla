------------------------- MODULE BindingOutboxProofs -------------------------
(* Theorems about BindingOutbox, for every value of its constants.         *)
EXTENDS BindingOutbox, SequenceTheorems, TLAPS

-----------------------------------------------------------------------------
(* Types *)

\* What _complete or _fail is about to write.
Columns(S) == [old : S, new : S]
Status == {"pending", "active", "error", "disabled"}
Write == [how : {"complete", "fail_retry", "fail_final"}, key : Columns(Nat),
          sync_status : Columns(Status)]

\* A worker with its batch, its item and what it is about to write.
WorkerRecord ==
  [batch : Seq(Items), at : Steps, doing : Items \cup {<<>>}, key : Nat,
   write : Write \cup {<<>>}]

\* A worker works on an item between _load and the end of _process.
HasItem(w) ==
  /\ worker[w].at = "next" => worker[w].doing = <<>>
  /\ worker[w].at # "next" => worker[w].doing \in Items
  /\ worker[w].at = "commit" => worker[w].write \in Write

\* The version of a binding counts what the administrator has asked for.
VersionCounts(c) ==
  /\ client[c] = "active" => binding[c].version = 2
  /\ client[c] = "disabled" => binding[c].version = 3

\* The inductive type invariant.
TypeInv ==
  /\ TypeOK
  /\ worker \in [Workers -> WorkerRecord]
  /\ \A w \in Workers : HasItem(w)
  /\ \A c \in Callers : VersionCounts(c)

\* An item is a pair.
LEMMA ItemIsPair ==
  ASSUME NEW i \in Items
  PROVE  i[1] \in Callers /\ i[2] \in Actions /\ i = <<i[1], i[2]>> /\ i # <<>>
BY DEF Items

\* A batch without its first item.
LEMMA BatchFacts ==
  ASSUME NEW b \in Seq(Items)
  PROVE  /\ Range(b) \subseteq Items
         /\ b # <<>> => /\ Head(b) \in Items /\ Tail(b) \in Seq(Items)
                        /\ Range(b) = {Head(b)} \cup Range(Tail(b))
         /\ b # <<>> /\ IsInjective(b) =>
              Head(b) \notin Range(Tail(b)) /\ IsInjective(Tail(b))
<1>0. DOMAIN b = 1..Len(b) /\ Len(b) \in Nat /\ \A j \in 1..Len(b) : b[j] \in Items
  OBVIOUS
<1>1. Range(b) \subseteq Items
  BY <1>0 DEF Range
<1>2. ASSUME b # <<>>
      PROVE  /\ Head(b) = b[1] /\ Len(b) >= 1 /\ Head(b) \in Items
             /\ Tail(b) \in Seq(Items) /\ Len(Tail(b)) = Len(b) - 1
             /\ \A j \in 1..(Len(b) - 1) : Tail(b)[j] = b[j + 1]
             /\ DOMAIN Tail(b) = 1..(Len(b) - 1)
  BY <1>0, <1>2, HeadTailProperties, EmptySeq
<1>3. ASSUME b # <<>> PROVE Range(b) = {Head(b)} \cup Range(Tail(b))
  <2>1. \A j \in 1..Len(b) : j = 1 \/ (j - 1 \in 1..(Len(b) - 1) /\ (j - 1) + 1 = j)
    BY <1>0
  <2>2. Range(b) \subseteq {Head(b)} \cup Range(Tail(b))
    <3>1. SUFFICES ASSUME NEW j \in 1..Len(b)
                   PROVE  b[j] \in {Head(b)} \cup Range(Tail(b))
      BY <1>0 DEF Range
    <3>2. CASE j = 1
      BY <1>2, <1>3, <3>2
    <3>3. CASE j # 1
      <4>1. j - 1 \in 1..(Len(b) - 1) /\ (j - 1) + 1 = j
        BY <2>1, <3>3
      <4>2. Tail(b)[j - 1] = b[j] /\ j - 1 \in DOMAIN Tail(b)
        BY <1>2, <1>3, <4>1
      <4>3. QED
        BY <4>2 DEF Range
    <3>4. QED
      BY <3>2, <3>3
  <2>3. \A j \in 1..(Len(b) - 1) : j + 1 \in 1..Len(b)
    BY <1>0
  <2>4. 1 \in 1..Len(b)
    BY <1>0, <1>2, <1>3
  <2>5. QED
    BY <1>0, <1>2, <1>3, <2>2, <2>3, <2>4 DEF Range
<1>4. ASSUME b # <<>>, IsInjective(b)
      PROVE  Head(b) \notin Range(Tail(b)) /\ IsInjective(Tail(b))
  <2>1. \A j, k \in 1..Len(b) : b[j] = b[k] => j = k
    BY <1>0, <1>4 DEF IsInjective
  <2>2. \A j \in 1..(Len(b) - 1) : j + 1 \in 1..Len(b) /\ j + 1 # 1
    BY <1>0
  <2>3. 1 \in 1..Len(b)
    BY <1>0, <1>2, <1>4
  <2>4. Head(b) \notin Range(Tail(b))
    BY <1>2, <1>4, <2>1, <2>2, <2>3 DEF Range
  <2>5. \A j, k \in 1..(Len(b) - 1) : Tail(b)[j] = Tail(b)[k] => j + 1 = k + 1
    BY <1>2, <1>4, <2>1, <2>2
  <2>6. \A j, k \in 1..(Len(b) - 1) : j + 1 = k + 1 => j = k
    BY <1>0
  <2>7. IsInjective(Tail(b))
    BY <1>2, <1>4, <2>5, <2>6 DEF IsInjective
  <2>8. QED
    BY <2>4, <2>7
<1>5. QED
  BY <1>1, <1>2, <1>3, <1>4

\* The batch of a worker that has claimed nothing.
LEMMA EmptyBatch == <<>> \in Seq(Items) /\ Range(<<>>) = {} /\ IsInjective(<<>>)
BY DEF Range, IsInjective

\* The sequence operators keep the type of a caller's keys.
LEMMA KeyTypes ==
  ASSUME NEW s \in Seq(BOOLEAN), NEW k, NEW b \in BOOLEAN
  PROVE  /\ [s EXCEPT ![k] = b] \in Seq(BOOLEAN)
         /\ DOMAIN [s EXCEPT ![k] = b] = DOMAIN s
         /\ Append(s, b) \in Seq(BOOLEAN)
         /\ DOMAIN s = 1..Len(s) /\ Len(s) \in Nat
         /\ DOMAIN Append(s, b) = 1..(Len(s) + 1)
         /\ \A j \in DOMAIN s : Append(s, b)[j] = s[j]
         /\ Append(s, b)[Len(s) + 1] = b
         /\ Len(Append(s, b)) = Len(s) + 1
<1>1. Append(s, b) \in Seq(BOOLEAN) /\ DOMAIN s = 1..Len(s) /\ Len(s) \in Nat
  OBVIOUS
<1>2. Len(Append(s, b)) = Len(s) + 1 /\ \A j \in DOMAIN s : Append(s, b)[j] = s[j]
  OBVIOUS
<1>3. Append(s, b)[Len(s) + 1] = b /\ DOMAIN Append(s, b) = 1..(Len(s) + 1)
  OBVIOUS
<1>4. DOMAIN [s EXCEPT ![k] = b] = DOMAIN s
  OBVIOUS
<1>5. [s EXCEPT ![k] = b] \in Seq(BOOLEAN)
  <2>1. s \in [1..Len(s) -> BOOLEAN]
    BY <1>1
  <2>2. [s EXCEPT ![k] = b] \in [1..Len(s) -> BOOLEAN]
    BY <2>1
  <2>3. QED
    BY <1>1, <2>2, SeqDef
<1>6. QED
  BY <1>1, <1>2, <1>3, <1>4, <1>5

\* A worker that becomes another one leaves the other workers alone.
LEMMA WorkerEffect ==
  ASSUME worker \in [Workers -> WorkerRecord], NEW w \in Workers, NEW me \in WorkerRecord,
         worker' = [worker EXCEPT ![w] = me]
  PROVE  /\ worker' \in [Workers -> WorkerRecord] /\ worker'[w] = me
         /\ \A v \in Workers : v # w => worker'[v] = worker[v]
BY DEF WorkerRecord

\* A worker without an item.
LEMMA IdleTypes ==
  ASSUME NEW S \in Seq(Items)
  PROVE  /\ Idle(S) \in WorkerRecord
         /\ Idle(S).batch = S /\ Idle(S).at = "next" /\ Idle(S).doing = <<>>
         /\ Idle(S).key = NoKey /\ Idle(S).write = <<>>
BY DEF Idle, WorkerRecord, Steps, NoKey

\* What Goto changes.
LEMMA GotoEffect ==
  ASSUME worker \in [Workers -> WorkerRecord], NEW w \in Workers, NEW step \in Steps,
         Goto(w, step)
  PROVE  /\ worker' \in [Workers -> WorkerRecord]
         /\ worker'[w].at = step /\ worker'[w].batch = worker[w].batch
         /\ worker'[w].doing = worker[w].doing /\ worker'[w].key = worker[w].key
         /\ worker'[w].write = worker[w].write
         /\ \A v \in Workers : v # w => worker'[v] = worker[v]
<1>1. worker' = [worker EXCEPT ![w] = [worker[w] EXCEPT !.at = step]]
  BY DEF Goto
<1>2. [worker[w] EXCEPT !.at = step] \in WorkerRecord
  BY DEF WorkerRecord
<1>3. worker'[w] = [worker[w] EXCEPT !.at = step] /\ worker[w] \in WorkerRecord
  BY <1>1, <1>2, WorkerEffect
<1>4. QED
  BY <1>1, <1>2, <1>3, WorkerEffect DEF WorkerRecord

\* The administrator's rows.
LEMMA QueueTypes ==
  ASSUME TypeInv, NEW c \in Callers, NEW version \in 1..2, NEW action \in Actions,
         queue_binding_sync(c, [binding[c] EXCEPT !.version = version], action)
  PROVE  /\ binding' \in [Callers -> Binding] /\ item' \in [Items -> Item]
         /\ binding'[c].version = version + 1 /\ binding'[c].sync_status = "pending"
         /\ binding'[c].key = binding[c].key
         /\ item'[<<c, action>>].status = "pending" /\ item'[<<c, action>>].version = version + 1
         /\ ~item'[<<c, action>>].expired
         /\ \A d \in Callers : d # c => binding'[d] = binding[d]
         /\ \A i \in Items : i # <<c, action>> => item'[i] = item[i]
<1> DEFINE row == [binding[c] EXCEPT !.version = version]
           staged == [NotStaged EXCEPT !.status = "pending", !.version = version + 1, !.ready = TRUE]
           bound == [row EXCEPT !.version = row.version + 1, !.sync_status = "pending"]
<1>1. binding \in [Callers -> Binding] /\ item \in [Items -> Item] /\ <<c, action>> \in Items
  BY DEF TypeInv, TypeOK, Items
<1>2. row \in Binding /\ row.version = version /\ row.key = binding[c].key
  BY <1>1 DEF Binding
<1>a. version + 1 \in 0..3 /\ 0 \in 0..MaxAttempts /\ 0 \in 0..3
  BY OutboxAssumption
<1>b. bound = [row EXCEPT !.version = version + 1, !.sync_status = "pending"]
  BY <1>2
<1>3. /\ bound \in Binding /\ bound.version = version + 1 /\ bound.sync_status = "pending"
      /\ bound.key = binding[c].key
  <2> HIDE DEF row, bound
  <2>1. QED
    BY <1>2, <1>a, <1>b DEF Binding
<1>4. /\ staged \in Item /\ staged.status = "pending" /\ staged.version = version + 1
      /\ ~staged.expired
  <2>1. NotStaged \in Item /\ ~NotStaged.expired
    BY <1>a DEF NotStaged, Item
  <2>2. QED
    BY <1>a, <2>1 DEF Item
<1>5. /\ binding' = [binding EXCEPT ![c] = bound]
      /\ item' = [item EXCEPT ![<<c, action>>] = staged]
  BY <1>2 DEF queue_binding_sync
<1>6. QED
  <2> HIDE DEF row, staged, bound
  <2>1. QED
    BY <1>1, <1>3, <1>4, <1>5

\* The steps a call may lead to.
LEMMA CallTypes ==
  ASSUME TypeInv, NEW w \in Workers, CallFails(w)
  PROVE  /\ worker' \in [Workers -> WorkerRecord] /\ faults' \in 0..MaxFaults
         /\ worker'[w].at \in {"fail_retry", "fail_final"}
         /\ worker'[w].batch = worker[w].batch /\ worker'[w].doing = worker[w].doing
         /\ worker'[w].key = worker[w].key /\ worker'[w].write = worker[w].write
         /\ \A v \in Workers : v # w => worker'[v] = worker[v]
<1>1. worker \in [Workers -> WorkerRecord] /\ faults \in 0..MaxFaults
  BY DEF TypeInv, TypeOK
<1>2. PICK step \in {"fail_retry", "fail_final"} : Goto(w, step)
  BY DEF CallFails
<1>3. step \in Steps
  BY DEF Steps
<1>4. faults' \in 0..MaxFaults
  BY <1>1, OutboxAssumption DEF CallFails
<1>5. QED
  BY <1>1, <1>2, <1>3, <1>4, GotoEffect

\* What a step of a worker from load_binding on does to itself: it keeps its
\* batch, and it keeps its item, unless it is done with it.
Works(w) ==
  /\ worker' \in [Workers -> WorkerRecord]
  /\ worker'[w].batch = worker[w].batch
  /\ \/ worker'[w].doing = worker[w].doing /\ worker'[w].at # "next"
     \/ worker'[w] = Idle(worker[w].batch)
  /\ worker'[w].at = "commit" => worker'[w].write \in Write
  /\ \A v \in Workers : v # w => worker'[v] = worker[v]

\* The calls to Bifrost.
LEMMA CallStep ==
  ASSUME TypeInv, NEW w \in Workers,
         \/ load_binding(w) \/ disable_virtual_key(w) \/ get_virtual_key_material(w)
         \/ find_virtual_key_by_name(w) \/ create_virtual_key(w)
  PROVE  /\ Works(w) /\ faults' \in 0..MaxFaults
         /\ worker'[w].doing = worker[w].doing
         /\ worker'[w].at \notin {"next", "commit", "load_binding", "completing", "failing_retry", "failing_final"}
<1>0. /\ worker \in [Workers -> WorkerRecord] /\ worker[w] \in WorkerRecord
      /\ faults \in 0..MaxFaults
  BY DEF TypeInv, TypeOK
<1>a. ASSUME CallFails(w) PROVE /\ Works(w) /\ faults' \in 0..MaxFaults
                                /\ worker'[w].doing = worker[w].doing
                                /\ worker'[w].at \notin {"next", "commit", "load_binding", "completing", "failing_retry", "failing_final"}
  BY <1>a, CallTypes DEF Works
<1>b. ASSUME NEW step \in Steps \ {"next", "commit", "load_binding", "completing", "failing_retry", "failing_final"}, Goto(w, step), UNCHANGED faults
      PROVE  /\ Works(w) /\ faults' \in 0..MaxFaults
             /\ worker'[w].doing = worker[w].doing
             /\ worker'[w].at \notin {"next", "commit", "load_binding", "completing", "failing_retry", "failing_final"}
  BY <1>0, <1>b, GotoEffect DEF Works
<1>c. ASSUME NEW step \in Steps \ {"next", "commit", "load_binding", "completing", "failing_retry", "failing_final"}, NEW key \in Nat, UNCHANGED faults,
             worker' = [worker EXCEPT ![w].key = key, ![w].at = step]
      PROVE  /\ Works(w) /\ faults' \in 0..MaxFaults
             /\ worker'[w].doing = worker[w].doing
             /\ worker'[w].at \notin {"next", "commit", "load_binding", "completing", "failing_retry", "failing_final"}
  <2> DEFINE me == [worker[w] EXCEPT !.key = key, !.at = step]
  <2>1. worker' = [worker EXCEPT ![w] = me]
    BY <1>c
  <2>2. me \in WorkerRecord /\ me.at = step /\ me.doing = worker[w].doing /\ me.batch = worker[w].batch
    BY <1>0 DEF WorkerRecord
  <2>3. QED
    <3> HIDE DEF me
    <3>1. QED
      BY <1>0, <1>c, <2>1, <2>2, WorkerEffect DEF Works
<1>d. \A c, k : Verified(c, k) \in Steps \ {"next", "commit", "load_binding", "completing", "failing_retry", "failing_final"}
  BY DEF Verified, Steps
<1>1. CASE load_binding(w)
  <2>1. worker[w].doing \in Items
    BY <1>1 DEF TypeInv, HasItem, load_binding
  <2>2. binding[Caller(w)].key \in Nat
    BY <2>1, ItemIsPair DEF TypeInv, TypeOK, Binding, Caller, Of
  <2>3. FirstCall(Of(w)[2], binding[Caller(w)].key) \in Steps \ {"next", "commit", "load_binding", "completing", "failing_retry", "failing_final"}
    BY <2>1, ItemIsPair DEF FirstCall, Actions, Steps, Of
  <2>4. QED
    BY <1>1, <1>c, <2>2, <2>3 DEF load_binding
<1>2. CASE disable_virtual_key(w)
  BY <1>2, <1>a, <1>b DEF disable_virtual_key, Steps
<1>3. CASE get_virtual_key_material(w)
  BY <1>3, <1>a, <1>b, <1>d DEF get_virtual_key_material
<1>4. CASE find_virtual_key_by_name(w)
  BY <1>4, <1>a, <1>b, <1>c, <1>d DEF find_virtual_key_by_name, Steps
<1>5. CASE create_virtual_key(w)
  <2>1. worker[w].doing \in Items
    BY <1>5 DEF TypeInv, HasItem, create_virtual_key
  <2>2. Len(keys[Caller(w)]) + 1 \in Nat
    BY <2>1, ItemIsPair DEF TypeInv, TypeOK, Caller, Of
  <2>3. QED
    BY <1>5, <1>a, <1>c, <2>2 DEF create_virtual_key, Steps
<1>6. QED
  BY <1>1, <1>2, <1>3, <1>4, <1>5

\* How the transaction of _complete or _fail begins.
LEMMA ReadingSteps ==
  /\ DOMAIN Reading = {"complete", "fail_retry", "fail_final"}
  /\ Reading["complete"] = "completing" /\ Reading["fail_retry"] = "failing_retry"
  /\ Reading["fail_final"] = "failing_final"
BY DEF Reading

\* Its first read: the item.
LEMMA ReadItemStep ==
  ASSUME TypeInv, NEW w \in Workers, read_item(w)
  PROVE  /\ Works(w) /\ worker[w].at \in DOMAIN Reading
         /\ \/ worker'[w] = Idle(worker[w].batch) /\ item[worker[w].doing].status # "processing"
            \/ /\ item[worker[w].doing].status = "processing"
               /\ worker'[w].at = Reading[worker[w].at] /\ worker'[w].doing = worker[w].doing
               /\ worker'[w].key = worker[w].key
<1>0. /\ worker \in [Workers -> WorkerRecord] /\ worker[w].batch \in Seq(Items)
      /\ worker[w].at \in DOMAIN Reading
  BY DEF TypeInv, TypeOK, WorkerRecord, read_item
<1>1. Reading[worker[w].at] \in Steps \ {"next", "commit"}
  BY <1>0, ReadingSteps DEF Steps
<1>2. CASE item[Of(w)].status = "processing" /\ Goto(w, Reading[worker[w].at])
  BY <1>0, <1>1, <1>2, GotoEffect DEF Works, Of
<1>3. CASE item[Of(w)].status # "processing" /\ Ended(w)
  <2>1. worker' = [worker EXCEPT ![w] = Idle(worker[w].batch)]
    BY <1>3 DEF Ended
  <2>2. QED
    BY <1>0, <1>3, <2>1, WorkerEffect, IdleTypes DEF Works, Of
<1>4. QED
  BY <1>2, <1>3 DEF read_item

\* Its second read: what it is about to write follows from the rows it has seen.
LEMMA ReadStep ==
  ASSUME TypeInv, NEW w \in Workers, NEW how \in DOMAIN Reading, read_binding(w, how)
  PROVE  /\ Works(w) /\ worker[w].at = Reading[how]
         /\ worker'[w].at = "commit" /\ worker'[w].doing = worker[w].doing
         /\ LET i == worker[w].doing
                write == worker'[w].write
                row == binding[i[1]]
            IN  /\ write.how = how
                /\ write.key.old = row.key /\ write.sync_status.old = row.sync_status
                /\ write.key.new = row.key \/ (/\ write.how = "complete" /\ i[2] = "create"
                                               /\ write.key.new = worker[w].key)
                /\ write.how = "complete" /\ i[2] = "create" => write.key.new = worker[w].key
                /\ write.sync_status.new = "active" =>
                     \/ write.how = "complete" /\ i[2] = "create"
                     \/ write.sync_status.old = "active"
                /\ write.how # "complete" /\ item[i].version = row.version =>
                     write.sync_status.new = "error"
<1> DEFINE i == worker[w].doing
           row == binding[i[1]]
           after == IF how = "complete" THEN Completed(row, i[2], item[i].version, worker[w].key)
                                       ELSE Failed(row, item[i].version, how)
           write == [how |-> how, key |-> [old |-> row.key, new |-> after.key],
                     sync_status |-> [old |-> row.sync_status, new |-> after.sync_status]]
           me == [worker[w] EXCEPT !.at = "commit", !.write = write]
<1>0. /\ worker \in [Workers -> WorkerRecord] /\ worker[w] \in WorkerRecord
      /\ worker[w].batch \in Seq(Items)
  BY DEF TypeInv, TypeOK, WorkerRecord
<1>1. how \in {"complete", "fail_retry", "fail_final"} /\ i \in Items /\ worker[w].at = Reading[how]
  BY ReadingSteps DEF read_binding, TypeInv, HasItem
<1>2. row \in Binding /\ i[2] \in Actions /\ worker[w].key \in Nat
  BY <1>0, <1>1, ItemIsPair DEF TypeInv, TypeOK, WorkerRecord
<1>3. /\ after.key \in Nat /\ after.sync_status \in Status
      /\ how = "complete" /\ i[2] = "create" => after.key = worker[w].key
      /\ ~(how = "complete" /\ i[2] = "create") => after.key = row.key
      /\ after.sync_status = "active" =>
           (how = "complete" /\ i[2] = "create") \/ row.sync_status = "active"
      /\ how # "complete" /\ item[i].version = row.version => after.sync_status = "error"
  <2>1. CASE how = "complete"
    <3>1. after = Completed(row, i[2], item[i].version, worker[w].key)
      BY <2>1
    <3>2. CASE i[2] = "create"
      <4>1. /\ Completed(row, i[2], item[i].version, worker[w].key).key = worker[w].key
            /\ Completed(row, i[2], item[i].version, worker[w].key).sync_status \in Status
        BY <1>2, <3>2 DEF Completed, Binding, Status
      <4>2. QED
        BY <1>2, <2>1, <3>1, <3>2, <4>1
    <3>3. CASE i[2] = "disable"
      <4>1. /\ Completed(row, i[2], item[i].version, worker[w].key).key = row.key
            /\ Completed(row, i[2], item[i].version, worker[w].key).sync_status
                 \in {"pending", "disabled"}
        BY <1>2, <3>3 DEF Completed, Binding
      <4>2. row.key \in Nat
        BY <1>2 DEF Binding
      <4>3. QED
        BY <1>2, <2>1, <3>1, <3>3, <4>1, <4>2 DEF Status
    <3>4. QED
      BY <1>2, <3>2, <3>3 DEF Actions
  <2>2. CASE how # "complete"
    BY <1>2, <2>2 DEF Failed, Binding, Status
  <2>3. QED
    BY <2>1, <2>2
<1>4. write \in Write
  BY <1>1, <1>2, <1>3 DEF Write, Columns, Binding, Status
<1>5. QED
  <2>1. worker' = [worker EXCEPT ![w] = me]
    BY DEF read_binding, Of, Caller
  <2>2. /\ me \in WorkerRecord /\ me.at = "commit" /\ me.doing = i /\ me.batch = worker[w].batch
        /\ me.write = write
    <3> HIDE DEF write
    <3>1. QED
      BY <1>0, <1>4 DEF WorkerRecord, Steps
  <2>3. worker'[w] = me /\ Works(w)
    <3> HIDE DEF me, write
    <3>1. QED
      BY <1>0, <1>4, <2>1, <2>2, WorkerEffect DEF Works
  <2>4. /\ write.how = how /\ write.key.old = row.key /\ write.sync_status.old = row.sync_status
        /\ write.key.new = after.key /\ write.sync_status.new = after.sync_status
    <3> HIDE DEF after
    <3>1. QED
      OBVIOUS
  <2>5. worker'[w].write = write /\ worker'[w].at = "commit" /\ worker'[w].doing = i
    BY <2>2, <2>3
  <2>6. QED
    <3> HIDE DEF write, after, me
    <3>1. QED
      BY <1>1, <1>3, <2>3, <2>4, <2>5

\* The commit of that transaction: the columns it changed.
LEMMA CommitStep ==
  ASSUME TypeInv, NEW w \in Workers, commit(w)
  PROVE  LET i == worker[w].doing
             write == worker[w].write
             c == i[1]
         IN  /\ Works(w) /\ worker'[w] = Idle(worker[w].batch)
             /\ i \in Items /\ write \in Write
             /\ binding' \in [Callers -> Binding] /\ item' \in [Items -> Item]
             /\ binding'[c].version = binding[c].version
             /\ binding'[c].key = Written(binding[c].key, write.key)
             /\ binding'[c].sync_status = Written(binding[c].sync_status, write.sync_status)
             /\ item'[i].status = IF write.how = "complete" THEN "completed" ELSE "failed"
             /\ item'[i].version = item[i].version
             /\ \A d \in Callers : d # c => binding'[d] = binding[d]
             /\ \A j \in Items : j # i => item'[j] = item[j]
<1> DEFINE i == worker[w].doing
           write == worker[w].write
           c == i[1]
           row == [binding[c] EXCEPT !.key = Written(@, write.key),
                                     !.sync_status = Written(@, write.sync_status)]
<1>0. /\ worker \in [Workers -> WorkerRecord] /\ worker[w] \in WorkerRecord
      /\ worker[w].batch \in Seq(Items)
      /\ binding \in [Callers -> Binding] /\ item \in [Items -> Item]
  BY DEF TypeInv, TypeOK, WorkerRecord
<1>1. i \in Items /\ write \in Write /\ c \in Callers
  <2>1. i \in Items /\ write \in Write
    BY DEF commit, TypeInv, HasItem
  <2>2. QED
    BY <2>1, ItemIsPair
<1>2. worker' = [worker EXCEPT ![w] = Idle(worker[w].batch)]
  BY DEF commit, Ended
<1>3. Works(w) /\ worker'[w] = Idle(worker[w].batch)
  BY <1>0, <1>2, WorkerEffect, IdleTypes DEF Works
<1>4. binding' = [binding EXCEPT ![c] = row]
  BY DEF commit, Caller, Of
<1>5. /\ Written(binding[c].key, write.key) \in Nat
      /\ Written(binding[c].sync_status, write.sync_status) \in Status
  BY <1>0, <1>1 DEF Written, Write, Columns, Binding, Status
<1>6. /\ row \in Binding /\ row.version = binding[c].version
      /\ row.key = Written(binding[c].key, write.key)
      /\ row.sync_status = Written(binding[c].sync_status, write.sync_status)
  <2> HIDE DEF write
  <2>1. QED
    BY <1>0, <1>1, <1>5 DEF Binding, Status
<1>7. /\ ItemAfter(item[i], write.how) \in Item
      /\ ItemAfter(item[i], write.how).status =
           IF write.how = "complete" THEN "completed" ELSE "failed"
      /\ ItemAfter(item[i], write.how).version = item[i].version
  <2>1. write.how \in {"complete", "fail_retry", "fail_final"}
    BY <1>1 DEF Write
  <2>2. item[i] \in Item /\ MaxAttempts \in 0..MaxAttempts
    BY <1>0, <1>1, OutboxAssumption
  <2> HIDE DEF write
  <2>3. QED
    BY <2>1, <2>2 DEF ItemAfter, Item
<1>8. item' = [item EXCEPT ![i] = ItemAfter(item[i], write.how)]
  BY <1>0 DEF commit, Of
<1>9. QED
  <2> HIDE DEF row
  <2>1. QED
    BY <1>0, <1>1, <1>3, <1>4, <1>6, <1>7, <1>8

\* A claim: the items of the batch are being processed, with an attempt more.
LEMMA ClaimStep ==
  ASSUME TypeInv, NEW w \in Workers, _claim(w)
  PROVE  \E batch \in Seq(Items) :
           /\ worker' \in [Workers -> WorkerRecord] /\ worker'[w] = Idle(batch)
           /\ worker[w] = Idle(<<>>)
           /\ \A v \in Workers : v # w => worker'[v] = worker[v]
           /\ item' \in [Items -> Item]
           /\ Range(batch) \subseteq Claimable /\ Range(batch) \subseteq Items
           /\ IsInjective(batch)
           /\ \A i \in Items : item'[i].version = item[i].version
           /\ \A i \in Range(batch) : item'[i].status = "processing" /\ ~item'[i].expired
           /\ \A i \in Items \ Range(batch) : item'[i] = item[i]
<1> DEFINE Taken(i) == [item[i] EXCEPT !.status = "processing", !.expired = FALSE,
                                       !.attempts = item[i].attempts + 1]
<1>0. worker \in [Workers -> WorkerRecord] /\ item \in [Items -> Item] /\ Claimable \subseteq Items
  BY DEF TypeInv, TypeOK, Claimable
<1>n. PICK n \in 1..BatchSize : \E batch \in Injection(1..n, Claimable) :
        /\ item' = [i \in Items |-> IF i \in Range(batch) THEN Taken(i) ELSE item[i]]
        /\ worker' = [worker EXCEPT ![w] = Idle(batch)]
  BY DEF _claim
<1>1. PICK batch \in Injection(1..n, Claimable) :
        /\ item' = [i \in Items |-> IF i \in Range(batch) THEN Taken(i) ELSE item[i]]
        /\ worker' = [worker EXCEPT ![w] = Idle(batch)]
  BY <1>n
<1>a. /\ batch \in [1..n -> Claimable] /\ IsInjective(batch)
  BY <1>1 DEF Injection
<1>b. batch \in Seq(Items) /\ Range(batch) \subseteq Claimable
  <2>1. n \in Nat
    <3>1. BatchSize \in Nat
      BY OutboxAssumption
    <3>2. n \in 1..BatchSize
      BY <1>n
    <3>3. QED
      BY <3>1, <3>2
  <2>2. batch \in [1..n -> Items]
    BY <1>0, <1>a
  <2>3. QED
    BY <1>a, <2>1, <2>2, SeqDef DEF Range
<1>2. ASSUME NEW i \in Range(batch)
      PROVE  /\ Taken(i) \in Item /\ Taken(i).version = item[i].version
             /\ Taken(i).status = "processing" /\ ~Taken(i).expired
  <2>1. item[i] \in Item /\ item[i].attempts < MaxAttempts
    BY <1>0, <1>b DEF Claimable
  <2>2. item[i].attempts + 1 \in 0..MaxAttempts
    BY <2>1, OutboxAssumption DEF Item
  <2>3. QED
    BY <2>1, <2>2 DEF Item
<1>3. Range(batch) \subseteq Items
  BY <1>0, <1>b
<1>4. /\ worker' \in [Workers -> WorkerRecord] /\ worker'[w] = Idle(batch)
      /\ \A v \in Workers : v # w => worker'[v] = worker[v]
  BY <1>0, <1>1, <1>b, WorkerEffect, IdleTypes
<1>5. /\ item' \in [Items -> Item]
      /\ \A i \in Range(batch) : item'[i] = Taken(i)
      /\ \A i \in Items \ Range(batch) : item'[i] = item[i]
  <2> HIDE DEF Taken
  <2>1. QED
    BY <1>0, <1>1, <1>2, <1>3
<1>6. QED
  <2>1. worker[w] = Idle(<<>>)
    BY DEF _claim
  <2>2. \A i \in Items : item'[i].version = item[i].version
    <3> HIDE DEF Taken
    <3>1. QED
      BY <1>2, <1>5
  <2>3. \A i \in Range(batch) : item'[i].status = "processing" /\ ~item'[i].expired
    <3> HIDE DEF Taken
    <3>1. QED
      BY <1>2, <1>5
  <2> HIDE DEF Taken
  <2>4. QED
    BY <1>a, <1>b, <1>3, <1>4, <1>5, <2>1, <2>2, <2>3

\* _load takes the first item out of the batch.
LEMMA LoadStep ==
  ASSUME TypeInv, NEW w \in Workers, _load(w)
  PROVE  LET i == Head(worker[w].batch)
         IN  /\ worker' \in [Workers -> WorkerRecord]
             /\ worker[w].batch # <<>> /\ worker[w].at = "next"
             /\ i \in Items /\ i \in Range(worker[w].batch)
             /\ worker'[w].batch = Tail(worker[w].batch) /\ worker'[w].doing = i
             /\ worker'[w].at = IF item[i].status = "processing" THEN "load_binding"
                                                                 ELSE "fail_final"
             /\ \A v \in Workers : v # w => worker'[v] = worker[v]
<1> DEFINE i == Head(worker[w].batch)
           rest == Idle(Tail(worker[w].batch))
           step == IF item[i].status = "processing" THEN "load_binding" ELSE "fail_final"
           me == [rest EXCEPT !.doing = i, !.at = step]
<1>0. worker \in [Workers -> WorkerRecord] /\ worker[w].batch \in Seq(Items)
  BY DEF TypeInv, TypeOK, WorkerRecord
<1>1. worker[w].batch # <<>> /\ worker[w].at = "next" /\ worker' = [worker EXCEPT ![w] = me]
  BY DEF _load
<1>2. /\ i \in Items /\ i \in Range(worker[w].batch) /\ Tail(worker[w].batch) \in Seq(Items)
  BY <1>0, <1>1, BatchFacts
<1>3. rest \in WorkerRecord /\ rest.batch = Tail(worker[w].batch)
  BY <1>2, IdleTypes
<1>4. /\ me \in WorkerRecord /\ me.doing = i /\ me.at = step
      /\ me.batch = Tail(worker[w].batch)
  <2> HIDE DEF rest
  <2>1. QED
    BY <1>2, <1>3 DEF WorkerRecord, Steps
<1>5. QED
  <2> HIDE DEF me
  <2>1. QED
    BY <1>0, <1>1, <1>2, <1>4, WorkerEffect

\* Time: an item is ready again, or its claim has expired.
LEMMA TimeStep ==
  ASSUME TypeInv, NEW i \in Items, Backoff(i) \/ Expire(i)
  PROVE  /\ item' \in [Items -> Item] /\ \A j \in Items : j # i => item'[j] = item[j]
         /\ item'[i].status = item[i].status /\ item'[i].version = item[i].version
         /\ item'[i].attempts = item[i].attempts
         /\ Backoff(i) => item'[i].expired = item[i].expired
<1>1. item \in [Items -> Item] /\ item[i] \in Item
  BY DEF TypeInv, TypeOK
<1>2. CASE Backoff(i)
  <2>1. item' = [item EXCEPT ![i] = [item[i] EXCEPT !.ready = TRUE]]
    BY <1>2 DEF Backoff
  <2>2. QED
    BY <1>1, <2>1 DEF Item
<1>3. CASE Expire(i)
  <2>1. item' = [item EXCEPT ![i] = [item[i] EXCEPT !.expired = TRUE]] /\ ~Backoff(i)
    BY <1>3 DEF Expire, Backoff
  <2>2. QED
    BY <1>1, <2>1 DEF Item
<1>4. QED
  BY <1>2, <1>3

\* What Bifrost keeps of a caller's keys.
LEMMA KeyStep ==
  ASSUME TypeInv, NEW w \in Workers, disable_virtual_key(w) \/ create_virtual_key(w)
  PROVE  LET c == Caller(w)
         IN  /\ c \in Callers /\ keys' \in [Callers -> Seq(BOOLEAN)]
             /\ \A d \in Callers : d # c => keys'[d] = keys[d]
             /\ DOMAIN keys[c] \subseteq DOMAIN keys'[c]
             /\ create_virtual_key(w) => \/ keys'[c] = keys[c]
                                         \/ keys'[c] = Append(keys[c], TRUE)
             /\ disable_virtual_key(w) => Len(keys'[c]) = Len(keys[c])
<1> DEFINE c == Caller(w)
<1>0. keys \in [Callers -> Seq(BOOLEAN)]
  BY DEF TypeInv, TypeOK
<1>1. c \in Callers
  <2>1. worker[w].doing \in Items
    BY DEF TypeInv, HasItem, disable_virtual_key, create_virtual_key
  <2>2. QED
    BY <2>1, ItemIsPair DEF Caller, Of
<1>2. CASE disable_virtual_key(w)
  <2> DEFINE k == worker[w].key
             off == [keys[c] EXCEPT ![k] = FALSE]
  <2>1. keys' \in {keys, [keys EXCEPT ![c] = off]}
    BY <1>2 DEF disable_virtual_key
  <2>2. off \in Seq(BOOLEAN) /\ DOMAIN off = DOMAIN keys[c]
    BY <1>0, <1>1, KeyTypes
  <2>3. Len(off) = Len(keys[c])
    BY <1>0, <1>1, <2>2, LenProperties
  <2>4. ~create_virtual_key(w)
    BY <1>2 DEF disable_virtual_key, create_virtual_key
  <2> HIDE DEF off
  <2>5. QED
    BY <1>0, <1>1, <2>1, <2>2, <2>3, <2>4
<1>3. CASE create_virtual_key(w)
  <2>1. keys' \in {keys, [keys EXCEPT ![c] = Append(keys[c], TRUE)]}
    BY <1>3 DEF create_virtual_key
  <2>2. /\ Append(keys[c], TRUE) \in Seq(BOOLEAN)
        /\ DOMAIN keys[c] \subseteq DOMAIN Append(keys[c], TRUE)
    BY <1>0, <1>1, KeyTypes
  <2>3. ~disable_virtual_key(w)
    BY <1>3 DEF disable_virtual_key, create_virtual_key
  <2>4. QED
    BY <1>0, <1>1, <2>1, <2>2, <2>3
<1>4. QED
  BY <1>2, <1>3

\* The order stays a relation between items.
LEMMA PlacedTypes ==
  ASSUME TypeInv, NEW i \in Items, Placed(i)
  PROVE  earlier' \subseteq Items \X Items
<1>1. earlier \subseteq Items \X Items /\ Staged \ {i} \subseteq Items
  BY DEF TypeInv, TypeOK, Staged
<1>2. QED
  BY <1>1 DEF Placed

\* The initial state has its types.
LEMMA TypeInit == Init => TypeInv
<1> SUFFICES ASSUME Init PROVE TypeInv
  OBVIOUS
<1>1. worker \in [Workers -> WorkerRecord] /\ \A w \in Workers : worker[w] = Idle(<<>>)
  BY IdleTypes, EmptyBatch DEF Init
<1>2. \A w \in Workers : HasItem(w)
  BY <1>1, IdleTypes, EmptyBatch DEF HasItem
<1>3. /\ client \in [Callers -> {"absent", "active", "disabled"}]
      /\ \A c \in Callers : client[c] = "absent"
  BY DEF Init
<1>4. binding \in [Callers -> Binding]
  BY DEF Init, Binding, NoKey
<1>5. item \in [Items -> Item]
  <2>1. 0 \in 0..MaxAttempts
    BY OutboxAssumption
  <2>2. QED
    BY <2>1 DEF Init, Item, NotStaged
<1>6. keys \in [Callers -> Seq(BOOLEAN)]
  <2>1. <<>> \in Seq(BOOLEAN)
    OBVIOUS
  <2>2. QED
    BY <2>1 DEF Init
<1>7. /\ faults \in 0..MaxFaults /\ crashes \in 0..MaxCrashes /\ late \in 0..MaxLate
      /\ earlier \subseteq Items \X Items
  BY OutboxAssumption DEF Init
<1>8. QED
  BY <1>1, <1>2, <1>3, <1>4, <1>5, <1>6, <1>7
     DEF TypeInv, TypeOK, VersionCounts, WorkerRecord

\* Every step keeps the types.
LEMMA TypeStep == TypeInv /\ [Next]_vars => TypeInv'
<1> SUFFICES ASSUME TypeInv, [Next]_vars PROVE TypeInv'
  OBVIOUS
<1>0. /\ client \in [Callers -> {"absent", "active", "disabled"}]
      /\ binding \in [Callers -> Binding] /\ item \in [Items -> Item]
      /\ keys \in [Callers -> Seq(BOOLEAN)] /\ worker \in [Workers -> WorkerRecord]
      /\ faults \in 0..MaxFaults /\ crashes \in 0..MaxCrashes /\ late \in 0..MaxLate
      /\ earlier \subseteq Items \X Items
      /\ \A w \in Workers : HasItem(w)
      /\ \A c \in Callers : VersionCounts(c)
  BY DEF TypeInv, TypeOK
<1>a. ASSUME client' \in [Callers -> {"absent", "active", "disabled"}],
             binding' \in [Callers -> Binding], item' \in [Items -> Item],
             keys' \in [Callers -> Seq(BOOLEAN)], worker' \in [Workers -> WorkerRecord],
             faults' \in 0..MaxFaults, crashes' \in 0..MaxCrashes, late' \in 0..MaxLate,
             earlier' \subseteq Items \X Items,
             \A w \in Workers : HasItem(w)', \A c \in Callers : VersionCounts(c)'
      PROVE  TypeInv'
  BY <1>a DEF TypeInv, TypeOK, WorkerRecord
<1>b. ASSUME NEW w \in Workers, Works(w), worker[w].at # "next" PROVE \A v \in Workers : HasItem(v)'
  <2>1. ASSUME NEW v \in Workers, v # w PROVE HasItem(v)'
    BY <1>0, <1>b, <2>1 DEF Works, HasItem
  <2>2. HasItem(w)'
    <3>1. worker[w].batch \in Seq(Items)
      BY <1>0 DEF WorkerRecord
    <3>2. CASE worker'[w] = Idle(worker[w].batch)
      BY <3>1, <3>2, IdleTypes DEF HasItem
    <3>3. CASE worker'[w].doing = worker[w].doing /\ worker'[w].at # "next"
      <4>1. worker'[w].doing \in Items \cup {<<>>}
        BY <1>b DEF Works, WorkerRecord
      <4>2. QED
        BY <1>0, <1>b, <3>3, <4>1 DEF Works, HasItem
    <3>4. QED
      BY <1>b, <3>2, <3>3 DEF Works
  <2>3. QED
    BY <2>1, <2>2
<1>1. ASSUME NEW c \in Callers, create_caller(c) \/ disable_caller(c) PROVE TypeInv'
  <2>1. UNCHANGED <<keys, worker, late, faults, crashes>>
    BY <1>1 DEF create_caller, disable_caller
  <2>a. earlier' \subseteq Items \X Items
    <3>1. PICK action \in Actions : Placed(<<c, action>>)
      BY <1>1 DEF create_caller, disable_caller, queue_binding_sync, Actions
    <3>2. <<c, action>> \in Items
      BY <3>1 DEF Items
    <3>3. QED
      BY <3>1, <3>2, PlacedTypes
  <2>2. CASE create_caller(c)
    <3>1. /\ queue_binding_sync(c, [binding[c] EXCEPT !.version = 1], "create")
          /\ "create" \in Actions /\ 1 \in 1..2
      BY <2>2 DEF create_caller, Actions
    <3>2. client' = [client EXCEPT ![c] = "active"]
      BY <2>2 DEF create_caller
    <3>3. /\ binding' \in [Callers -> Binding] /\ item' \in [Items -> Item]
          /\ binding'[c].version = 1 + 1 /\ \A d \in Callers : d # c => binding'[d] = binding[d]
      BY <3>1, QueueTypes, Zenon
    <3>4. \A d \in Callers : VersionCounts(d)'
      BY <1>0, <3>2, <3>3 DEF VersionCounts
    <3>5. QED
      BY <1>0, <1>a, <2>1, <2>a, <3>2, <3>3, <3>4 DEF HasItem
  <2>3. CASE disable_caller(c)
    <3>1. binding[c].version = 2 /\ binding[c] \in Binding
      BY <1>0, <2>3 DEF disable_caller, VersionCounts
    <3>2. binding[c] = [binding[c] EXCEPT !.version = 2]
      BY <3>1 DEF Binding
    <3>3. /\ queue_binding_sync(c, [binding[c] EXCEPT !.version = 2], "disable")
          /\ "disable" \in Actions /\ 2 \in 1..2
      <4>1. queue_binding_sync(c, binding[c], "disable")
        BY <2>3 DEF disable_caller
      <4>2. QED
        BY <3>2, <4>1 DEF Actions
    <3>4. client' = [client EXCEPT ![c] = "disabled"]
      BY <2>3 DEF disable_caller
    <3>5. /\ binding' \in [Callers -> Binding] /\ item' \in [Items -> Item]
          /\ binding'[c].version = 2 + 1 /\ \A d \in Callers : d # c => binding'[d] = binding[d]
      BY <3>3, QueueTypes, Zenon
    <3>6. \A d \in Callers : VersionCounts(d)'
      BY <1>0, <3>4, <3>5 DEF VersionCounts
    <3>7. QED
      BY <1>0, <1>a, <2>1, <2>a, <3>4, <3>5, <3>6 DEF HasItem
  <2>4. QED
    BY <1>1, <2>2, <2>3
<1>2. ASSUME NEW w \in Workers, _claim(w) PROVE TypeInv'
  <2>1. UNCHANGED <<client, binding, earlier, keys, late, faults, crashes>>
    BY <1>2 DEF _claim
  <2>2. PICK S \in Seq(Items) :
          /\ worker' \in [Workers -> WorkerRecord] /\ worker'[w] = Idle(S)
          /\ \A v \in Workers : v # w => worker'[v] = worker[v]
          /\ item' \in [Items -> Item]
    BY <1>2, ClaimStep
  <2>3. \A v \in Workers : HasItem(v)'
    BY <1>0, <2>2, IdleTypes DEF HasItem
  <2>4. QED
    BY <1>0, <1>a, <2>1, <2>2, <2>3 DEF VersionCounts
<1>3. ASSUME NEW w \in Workers, _load(w) PROVE TypeInv'
  <2>1. UNCHANGED <<client, binding, item, earlier, keys, late, faults, crashes>>
    BY <1>3 DEF _load
  <2>2. HasItem(w)'
    BY <1>3, LoadStep DEF HasItem
  <2>3. \A v \in Workers : HasItem(v)'
    <3>1. \A v \in Workers : v # w => worker'[v] = worker[v]
      BY <1>3, LoadStep
    <3>2. QED
      BY <1>0, <2>2, <3>1 DEF HasItem
  <2>4. worker' \in [Workers -> WorkerRecord]
    BY <1>3, LoadStep
  <2>5. QED
    BY <1>0, <1>a, <2>1, <2>3, <2>4 DEF VersionCounts
<1>4. ASSUME NEW w \in Workers,
             \/ load_binding(w) \/ disable_virtual_key(w) \/ get_virtual_key_material(w)
             \/ find_virtual_key_by_name(w) \/ create_virtual_key(w)
      PROVE  TypeInv'
  <2>1. UNCHANGED <<client, binding, item, earlier, late, crashes>>
    BY <1>4 DEF load_binding, disable_virtual_key, get_virtual_key_material,
         find_virtual_key_by_name, create_virtual_key
  <2>2. Works(w) /\ faults' \in 0..MaxFaults
    BY <1>4, CallStep
  <2>a. worker[w].at # "next"
    BY <1>4 DEF load_binding, disable_virtual_key, get_virtual_key_material,
         find_virtual_key_by_name, create_virtual_key
  <2>3. keys' \in [Callers -> Seq(BOOLEAN)]
    <3>1. CASE disable_virtual_key(w) \/ create_virtual_key(w)
      BY <3>1, KeyStep
    <3>2. CASE keys' = keys
      BY <1>0, <3>2
    <3>3. QED
      BY <1>4, <3>1, <3>2 DEF load_binding, get_virtual_key_material, find_virtual_key_by_name
  <2>4. worker' \in [Workers -> WorkerRecord] /\ \A v \in Workers : HasItem(v)'
    BY <1>b, <2>2, <2>a DEF Works
  <2>5. QED
    BY <1>0, <1>a, <2>1, <2>2, <2>3, <2>4 DEF VersionCounts
<1>5. ASSUME NEW w \in Workers, read_item(w) \/ \E how \in DOMAIN Reading : read_binding(w, how)
      PROVE  TypeInv'
  <2>1. UNCHANGED <<client, binding, item, earlier, keys, late, faults, crashes>>
    BY <1>5 DEF read_item, read_binding
  <2>2. Works(w) /\ worker[w].at # "next"
    BY <1>5, ReadItemStep, ReadStep, ReadingSteps
  <2>3. worker' \in [Workers -> WorkerRecord] /\ \A v \in Workers : HasItem(v)'
    BY <1>b, <2>2 DEF Works
  <2>4. QED
    BY <1>0, <1>a, <2>1, <2>3 DEF VersionCounts
<1>6. ASSUME NEW w \in Workers, commit(w) PROVE TypeInv'
  <2>1. UNCHANGED <<client, earlier, keys, late, faults, crashes>>
    BY <1>6 DEF commit
  <2>2. /\ Works(w) /\ worker[w].at # "next"
        /\ binding' \in [Callers -> Binding] /\ item' \in [Items -> Item]
    BY <1>6, CommitStep DEF commit
  <2>3. \A d \in Callers : binding'[d].version = binding[d].version
    BY <1>6, CommitStep
  <2>4. worker' \in [Workers -> WorkerRecord] /\ \A v \in Workers : HasItem(v)'
    BY <1>b, <2>2 DEF Works
  <2>5. QED
    BY <1>0, <1>a, <2>1, <2>2, <2>3, <2>4 DEF VersionCounts
<1>7. ASSUME NEW w \in Workers, Crash(w) PROVE TypeInv'
  <2>1. UNCHANGED <<client, binding, item, earlier, keys, late, faults>> /\ crashes' \in 0..MaxCrashes
    BY <1>0, <1>7, OutboxAssumption DEF Crash
  <2>2. worker' = [worker EXCEPT ![w] = Idle(<<>>)]
    BY <1>7 DEF Crash
  <2>3. worker' \in [Workers -> WorkerRecord] /\ \A v \in Workers : HasItem(v)'
    BY <1>0, <2>2, WorkerEffect, IdleTypes, EmptyBatch DEF HasItem
  <2>4. QED
    BY <1>0, <1>a, <2>1, <2>3 DEF VersionCounts
<1>8. ASSUME NEW i \in Items, Backoff(i) \/ Expire(i) PROVE TypeInv'
  <2>1. UNCHANGED <<client, binding, keys, worker, faults, crashes>>
    BY <1>8 DEF Backoff, Expire
  <2>2. earlier' \subseteq Items \X Items
    BY <1>0, <1>8, PlacedTypes DEF Backoff, Expire
  <2>3. late' \in 0..MaxLate
    BY <1>0, <1>8, OutboxAssumption DEF Backoff, Expire
  <2>4. item' \in [Items -> Item]
    BY <1>8, TimeStep
  <2>5. QED
    BY <1>0, <1>a, <2>1, <2>2, <2>3, <2>4 DEF HasItem, VersionCounts
<1>9. CASE UNCHANGED vars
  BY <1>0, <1>9, <1>a DEF vars, HasItem, VersionCounts
<1>10. QED
  BY <1>1, <1>2, <1>3, <1>4, <1>5, <1>6, <1>7, <1>8, <1>9 DEF Next, run_once

\* Bindings, items, keys and workers keep their types, no item has more attempts
\* than max_attempts, and a worker is always at a step it knows.
THEOREM OutboxTypeCorrect == Spec => []TypeOK
<1>1. TypeInv => TypeOK
  BY DEF TypeInv
<1>2. QED
  BY <1>1, TypeInit, TypeStep, PTL DEF Spec

-----------------------------------------------------------------------------
(* Keys and bindings, with any worker late *)

\* What a binding says of the keys Bifrost has.  Until a caller is disabled
\* nobody has been asked to turn off one of its keys.
CallerAgrees(c) ==
  /\ binding[c].key \in {NoKey} \cup DOMAIN keys[c]
  /\ binding[c].sync_status = "active" => binding[c].key # NoKey
  /\ client[c] # "disabled" => /\ item[<<c, "disable">>].status = "none"
                               /\ \A k \in DOMAIN keys[c] : keys[c][k]

\* What a worker knows: its items have been staged, a key it got from the
\* binding, found or created exists, and so does one it is about to write.
WorkerAgrees(w) ==
  LET me == worker[w]
      i == me.doing
      c == i[1]
  IN  /\ \A j \in Range(me.batch) : item[j].status # "none"
      /\ me.at # "next" => item[i].status # "none"
      /\ me.at = "disable" => i[2] = "disable"
      /\ me.at \in {"get", "find", "create"} => i[2] = "create"
      /\ me.at = "get" => me.key \in DOMAIN keys[c]
      /\ me.at \in {"complete", "completing"} /\ i[2] = "create" => me.key \in DOMAIN keys[c]
      /\ me.at = "commit" =>
           /\ me.write.key.old # NoKey => binding[c].key # NoKey
           /\ me.write.key.new # me.write.key.old => me.write.key.new \in DOMAIN keys[c]
           /\ me.write.sync_status.new = "active" =>
                me.write.sync_status.old = "active" \/ me.write.key.new \in DOMAIN keys[c]

\* The inductive invariant for workers of any speed.
KeyInv ==
  /\ \A c \in Callers : CallerAgrees(c)
  /\ \A w \in Workers : WorkerAgrees(w)

\* Neither a key nor its record in the binding nor an item ever disappears.
Grows ==
  /\ \A c \in Callers : /\ DOMAIN keys[c] \subseteq DOMAIN keys'[c]
                        /\ binding[c].key # NoKey => binding'[c].key # NoKey
  /\ \A i \in Items : item[i].status # "none" => item'[i].status # "none"

\* What a worker knows stays true while others work.
LEMMA WorkerStands ==
  ASSUME TypeInv, NEW v \in Workers, WorkerAgrees(v), worker'[v] = worker[v], Grows
  PROVE  WorkerAgrees(v)'
<1>1. Range(worker[v].batch) \subseteq Items
  BY BatchFacts DEF TypeInv, TypeOK
<1>2. CASE worker[v].at = "next"
  BY <1>1, <1>2 DEF WorkerAgrees, Grows
<1>3. CASE worker[v].at # "next"
  <2>1. worker[v].doing \in Items /\ worker[v].doing[1] \in Callers
    BY <1>3, ItemIsPair DEF TypeInv, HasItem
  <2>2. QED
    BY <1>1, <1>3, <2>1 DEF WorkerAgrees, Grows
<1>4. QED
  BY <1>2, <1>3

\* A worker between two items knows that its batch has been staged.
LEMMA IdleAgrees ==
  ASSUME NEW w \in Workers, NEW S \in Seq(Items), worker'[w] = Idle(S),
         \A j \in Range(S) : item'[j].status # "none"
  PROVE  WorkerAgrees(w)'
BY IdleTypes DEF WorkerAgrees

\* A key's number is never NoKey.
LEMMA KeysAreNumbered ==
  ASSUME TypeInv, NEW c \in Callers
  PROVE  /\ NoKey \notin DOMAIN keys[c] /\ keys[c] \in Seq(BOOLEAN)
         /\ DOMAIN keys[c] = 1..Len(keys[c]) /\ Len(keys[c]) \in Nat
BY DEF TypeInv, TypeOK, NoKey

\* The invariant through a step of the administrator.
LEMMA KeyInvAdmin ==
  ASSUME TypeInv, KeyInv, NEW c \in Callers, create_caller(c) \/ disable_caller(c)
  PROVE  KeyInv' /\ Grows
<1>0. /\ client \in [Callers -> {"absent", "active", "disabled"}]
      /\ binding \in [Callers -> Binding]
  BY DEF TypeInv, TypeOK
<1>1. keys' = keys /\ worker' = worker
  BY DEF create_caller, disable_caller
<1>2. PICK action \in Actions :
        /\ binding'[c].sync_status = "pending" /\ binding'[c].key = binding[c].key
        /\ item'[<<c, action>>].status = "pending"
        /\ \A d \in Callers : d # c => binding'[d] = binding[d] /\ client'[d] = client[d]
        /\ \A i \in Items : i # <<c, action>> => item'[i] = item[i]
        /\ client[c] # "disabled"
        /\ client'[c] = "disabled" \/ action = "create"
  <2>1. CASE create_caller(c)
    <3>1. /\ queue_binding_sync(c, [binding[c] EXCEPT !.version = 1], "create")
          /\ "create" \in Actions /\ 1 \in 1..2
      BY <2>1 DEF create_caller, Actions
    <3>2. /\ binding'[c].sync_status = "pending" /\ binding'[c].key = binding[c].key
          /\ item'[<<c, "create">>].status = "pending"
          /\ \A d \in Callers : d # c => binding'[d] = binding[d]
          /\ \A i \in Items : i # <<c, "create">> => item'[i] = item[i]
      BY <3>1, QueueTypes, Zenon
    <3>3. client[c] # "disabled" /\ \A d \in Callers : d # c => client'[d] = client[d]
      BY <1>0, <2>1 DEF create_caller
    <3>4. QED
      BY <3>1, <3>2, <3>3
  <2>2. CASE disable_caller(c)
    <3>1. binding[c].version = 2 /\ binding[c] \in Binding
      BY <1>0, <2>2 DEF disable_caller, TypeInv, VersionCounts
    <3>2. binding[c] = [binding[c] EXCEPT !.version = 2]
      BY <3>1 DEF Binding
    <3>3. queue_binding_sync(c, binding[c], "disable")
      BY <2>2 DEF disable_caller
    <3>4. /\ queue_binding_sync(c, [binding[c] EXCEPT !.version = 2], "disable")
          /\ "disable" \in Actions /\ 2 \in 1..2
      BY <3>2, <3>3 DEF Actions
    <3>5. /\ binding'[c].sync_status = "pending" /\ binding'[c].key = binding[c].key
          /\ item'[<<c, "disable">>].status = "pending"
          /\ \A d \in Callers : d # c => binding'[d] = binding[d]
          /\ \A i \in Items : i # <<c, "disable">> => item'[i] = item[i]
      BY <3>4, QueueTypes, Zenon
    <3>6. /\ client[c] # "disabled" /\ client'[c] = "disabled"
          /\ \A d \in Callers : d # c => client'[d] = client[d]
      BY <1>0, <2>2 DEF disable_caller
    <3>7. QED
      BY <3>4, <3>5, <3>6
  <2>3. QED
    BY <2>1, <2>2
<1>3. Grows
  <2>1. \A d \in Callers : binding'[d].key = binding[d].key
    BY <1>2
  <2>2. \A i \in Items : item[i].status # "none" => item'[i].status # "none"
    BY <1>2
  <2>3. QED
    BY <1>1, <2>1, <2>2 DEF Grows
<1>4. \A w \in Workers : WorkerAgrees(w)'
  BY <1>1, <1>3, WorkerStands DEF KeyInv
<1>5. ASSUME NEW d \in Callers PROVE CallerAgrees(d)'
  <2>0. CallerAgrees(d) /\ <<d, "disable">> \in Items
    BY DEF KeyInv, Items, Actions
  <2>1. CASE d = c
    <3>1. client'[c] # "disabled" => item'[<<c, "disable">>] = item[<<c, "disable">>]
      BY <1>2, <2>0, <2>1
    <3>2. QED
      BY <1>1, <1>2, <2>0, <2>1, <3>1 DEF CallerAgrees
  <2>2. CASE d # c
    <3>1. item'[<<d, "disable">>] = item[<<d, "disable">>]
      BY <1>2, <2>0, <2>2
    <3>2. QED
      BY <1>1, <1>2, <2>0, <2>2, <3>1 DEF CallerAgrees
  <2>3. QED
    BY <2>1, <2>2
<1>6. QED
  BY <1>3, <1>4, <1>5 DEF KeyInv

\* The rows of the callers when no row, no key and no item has changed.
LEMMA CallersStand ==
  ASSUME KeyInv, client' = client, binding' = binding, keys' = keys,
         \A i \in Items : (item'[i].status = "none") = (item[i].status = "none")
  PROVE  Grows /\ \A c \in Callers : CallerAgrees(c)'
<1>1. \A c \in Callers : <<c, "disable">> \in Items
  BY DEF Items, Actions
<1>2. QED
  BY <1>1 DEF KeyInv, CallerAgrees, Grows

\* The invariant through a claim, _load, a crash and the passing of time.
LEMMA KeyInvQueue ==
  ASSUME TypeInv, KeyInv,
         \/ \E w \in Workers : _claim(w) \/ Crash(w) \/ _load(w)
         \/ \E i \in Items : Backoff(i) \/ Expire(i)
  PROVE  KeyInv' /\ Grows
<1>0. worker \in [Workers -> WorkerRecord] /\ \A w \in Workers : worker[w].batch \in Seq(Items)
  BY DEF TypeInv, WorkerRecord
<1>a. ASSUME NEW w \in Workers, \A v \in Workers : v # w => worker'[v] = worker[v],
             WorkerAgrees(w)', client' = client, binding' = binding, keys' = keys,
             \A i \in Items : (item'[i].status = "none") = (item[i].status = "none")
      PROVE  KeyInv' /\ Grows
  <2>1. Grows /\ \A c \in Callers : CallerAgrees(c)'
    BY <1>a, CallersStand
  <2>2. \A v \in Workers : WorkerAgrees(v)'
    BY <1>a, <2>1, WorkerStands DEF KeyInv
  <2>3. QED
    BY <2>1, <2>2 DEF KeyInv
<1>1. ASSUME NEW w \in Workers, _claim(w) PROVE KeyInv' /\ Grows
  <2>1. PICK S \in Seq(Items) :
          /\ worker'[w] = Idle(S) /\ \A v \in Workers : v # w => worker'[v] = worker[v]
          /\ Range(S) \subseteq Claimable
          /\ \A i \in Range(S) : item'[i].status = "processing"
          /\ \A i \in Items \ Range(S) : item'[i] = item[i]
    BY <1>1, ClaimStep
  <2>2. \A i \in Range(S) : item[i].status # "none"
    BY <2>1 DEF Claimable
  <2>3. \A i \in Items : (item'[i].status = "none") = (item[i].status = "none")
    BY <2>1, <2>2
  <2>4. WorkerAgrees(w)'
    BY <2>1, IdleAgrees
  <2>5. client' = client /\ binding' = binding /\ keys' = keys
    BY <1>1 DEF _claim
  <2>6. QED
    BY <1>a, <2>1, <2>3, <2>4, <2>5
<1>2. ASSUME NEW w \in Workers, _load(w) PROVE KeyInv' /\ Grows
  <2> DEFINE i == Head(worker[w].batch)
  <2>1. /\ worker[w].batch # <<>> /\ worker'[w].batch = Tail(worker[w].batch)
        /\ worker'[w].doing = i /\ worker'[w].at \in {"load_binding", "fail_final"}
        /\ i \in Range(worker[w].batch)
        /\ \A v \in Workers : v # w => worker'[v] = worker[v]
    BY <1>2, LoadStep
  <2>2. client' = client /\ binding' = binding /\ keys' = keys /\ item' = item
    BY <1>2 DEF _load
  <2>3. \A j \in Range(worker[w].batch) : item[j].status # "none"
    BY DEF KeyInv, WorkerAgrees
  <2>4. Range(Tail(worker[w].batch)) \subseteq Range(worker[w].batch)
    BY <1>0, <2>1, BatchFacts
  <2>5. WorkerAgrees(w)'
    BY <2>1, <2>2, <2>3, <2>4 DEF WorkerAgrees
  <2>6. QED
    BY <1>a, <2>1, <2>2, <2>5
<1>3. ASSUME NEW w \in Workers, Crash(w) PROVE KeyInv' /\ Grows
  <2>1. worker' = [worker EXCEPT ![w] = Idle(<<>>)]
    BY <1>3 DEF Crash
  <2>2. worker'[w] = Idle(<<>>) /\ \A v \in Workers : v # w => worker'[v] = worker[v]
    BY <1>0, <2>1, WorkerEffect, IdleTypes, EmptyBatch
  <2>3. WorkerAgrees(w)'
    BY <2>2, IdleAgrees, EmptyBatch
  <2>4. client' = client /\ binding' = binding /\ keys' = keys /\ item' = item
    BY <1>3 DEF Crash
  <2>5. QED
    BY <1>a, <2>2, <2>3, <2>4
<1>4. ASSUME NEW i \in Items, Backoff(i) \/ Expire(i) PROVE KeyInv' /\ Grows
  <2>1. client' = client /\ binding' = binding /\ keys' = keys /\ worker' = worker
    BY <1>4 DEF Backoff, Expire
  <2>2. \A j \in Items : item'[j].status = item[j].status
    BY <1>4, TimeStep
  <2>3. Grows /\ \A c \in Callers : CallerAgrees(c)'
    BY <2>1, <2>2, CallersStand
  <2>4. \A v \in Workers : WorkerAgrees(v)'
    BY <2>1, <2>3, WorkerStands DEF KeyInv
  <2>5. QED
    BY <2>3, <2>4 DEF KeyInv
<1>5. QED
  BY <1>1, <1>2, <1>3, <1>4

\* What a worker may be at after a call, and that its key exists by then.
LEMMA KeyKnown ==
  ASSUME TypeInv, KeyInv, NEW w \in Workers,
         \/ load_binding(w) \/ disable_virtual_key(w) \/ get_virtual_key_material(w)
         \/ find_virtual_key_by_name(w) \/ create_virtual_key(w)
  PROVE  LET i == worker[w].doing
             me == worker'[w]
         IN  /\ i \in Items /\ me.at \notin {"next", "commit", "load_binding", "completing", "failing_retry", "failing_final"}
             /\ me.at = "disable" => i[2] = "disable"
             /\ me.at \in {"get", "find", "create"} => i[2] = "create"
             /\ me.at = "get" => me.key \in DOMAIN keys'[i[1]]
             /\ me.at = "complete" /\ i[2] = "create" => me.key \in DOMAIN keys'[i[1]]
<1> DEFINE i == worker[w].doing
           c == i[1]
<1>0. worker \in [Workers -> WorkerRecord] /\ WorkerAgrees(w) /\ worker[w] \in WorkerRecord
  BY DEF TypeInv, KeyInv
<1>1. i \in Items /\ c \in Callers /\ i[2] \in Actions
  <2>1. i \in Items
    BY DEF TypeInv, HasItem, load_binding, disable_virtual_key, get_virtual_key_material,
         find_virtual_key_by_name, create_virtual_key
  <2>2. QED
    BY <2>1, ItemIsPair
<1>2. worker'[w].at \notin {"next", "commit", "load_binding", "completing", "failing_retry", "failing_final"}
  BY CallStep
<1>a. ASSUME CallFails(w) PROVE worker'[w].at \in {"fail_retry", "fail_final"}
  BY <1>a, CallTypes
<1>b. ASSUME NEW key \in Nat, NEW step \in Steps,
             worker' = [worker EXCEPT ![w].key = key, ![w].at = step]
      PROVE  worker'[w].key = key /\ worker'[w].at = step
  <2>1. worker'[w] = [worker[w] EXCEPT !.key = key, !.at = step]
    BY <1>0, <1>b
  <2>2. QED
    BY <1>0, <2>1 DEF WorkerRecord
<1>c. \A d, k : Verified(d, k) \in {"complete", "fail_retry"}
  BY DEF Verified
<1>d. /\ DOMAIN keys[c] = 1..Len(keys[c]) /\ Len(keys[c]) \in Nat
      /\ keys[c] \in Seq(BOOLEAN)
  BY <1>1, KeysAreNumbered
<1>3. CASE load_binding(w)
  <2>1. /\ binding[c].key \in Nat /\ binding[c].key \in {NoKey} \cup DOMAIN keys[c]
        /\ FirstCall(i[2], binding[c].key) \in Steps
    <3>1. binding[c].key \in Nat
      BY <1>1 DEF TypeInv, TypeOK, Binding
    <3>2. FirstCall(i[2], binding[c].key) \in Steps
      BY <1>1 DEF FirstCall, Actions, Steps
    <3>3. QED
      BY <1>1, <3>1, <3>2 DEF KeyInv, CallerAgrees
  <2>2. /\ worker'[w].key = binding[c].key /\ worker'[w].at = FirstCall(i[2], binding[c].key)
        /\ keys' = keys
    BY <1>3, <1>b, <2>1 DEF load_binding, Caller, Of
  <2>3. QED
    BY <1>1, <1>2, <2>1, <2>2 DEF FirstCall, Actions
<1>4. CASE disable_virtual_key(w)
  <2>1. i[2] = "disable" /\ worker'[w].at \in {"complete", "fail_retry", "fail_final"}
    <3>1. Goto(w, "complete") => worker'[w].at = "complete"
      BY <1>0, GotoEffect DEF Steps
    <3>2. QED
      BY <1>0, <1>4, <1>a, <3>1 DEF disable_virtual_key, WorkerAgrees
  <2>2. QED
    BY <1>1, <2>1
<1>5. CASE get_virtual_key_material(w)
  <2>1. /\ worker'[w].at \in {"complete", "fail_retry", "fail_final"}
        /\ worker'[w].key = worker[w].key /\ worker[w].key \in DOMAIN keys[c] /\ keys' = keys
    <3>1. ASSUME Goto(w, Verified(Caller(w), worker[w].key))
          PROVE  /\ worker'[w].at \in {"complete", "fail_retry", "fail_final"}
                 /\ worker'[w].key = worker[w].key
      <4>1. Verified(Caller(w), worker[w].key) \in Steps
        BY <1>c DEF Steps
      <4>2. QED
        BY <1>0, <1>c, <3>1, <4>1, GotoEffect
    <3>2. worker[w].key \in DOMAIN keys[c] /\ keys' = keys
      BY <1>0, <1>5 DEF get_virtual_key_material, WorkerAgrees
    <3>3. CASE CallFails(w)
      BY <3>2, <3>3, CallTypes
    <3>4. QED
      BY <1>5, <3>1, <3>2, <3>3 DEF get_virtual_key_material
  <2>2. QED
    BY <1>1, <2>1
<1>6. CASE find_virtual_key_by_name(w)
  <2>0. i[2] = "create" /\ keys' = keys
    BY <1>0, <1>6 DEF find_virtual_key_by_name, WorkerAgrees
  <2>1. CASE Goto(w, "create") \/ Goto(w, "fail_retry")
    <3>1. worker'[w].at \in {"create", "fail_retry"}
      BY <1>0, <2>1, GotoEffect DEF Steps
    <3>2. QED
      BY <1>1, <2>0, <3>1
  <2>2. CASE CallFails(w)
    BY <1>1, <1>a, <2>2
  <2>3. CASE Len(keys[c]) = 1 /\ worker' = [worker EXCEPT ![w].key = 1, ![w].at = Verified(c, 1)]
    <3>1. Verified(c, 1) \in Steps
      BY <1>c DEF Steps
    <3>2. worker'[w].key = 1 /\ worker'[w].at = Verified(c, 1)
      BY <1>b, <2>3, <3>1
    <3>3. QED
      BY <1>1, <1>c, <1>d, <2>0, <2>3, <3>2
  <2>4. QED
    BY <1>6, <2>1, <2>2, <2>3 DEF find_virtual_key_by_name, Caller, Of
<1>7. CASE create_virtual_key(w)
  <2>1. CASE CallFails(w)
    BY <1>1, <1>a, <2>1
  <2>2. CASE /\ keys' = [keys EXCEPT ![c] = Append(keys[c], TRUE)]
             /\ worker' = [worker EXCEPT ![w].key = Len(keys[c]) + 1, ![w].at = "complete"]
    <3>0. Len(keys[c]) + 1 \in Nat /\ "complete" \in Steps
      BY <1>d DEF Steps
    <3>1. worker'[w].key = Len(keys[c]) + 1 /\ worker'[w].at = "complete"
      BY <1>b, <2>2, <3>0
    <3>2. keys'[c] = Append(keys[c], TRUE)
      BY <1>1, <2>2 DEF TypeInv, TypeOK
    <3>3. Len(keys[c]) + 1 \in DOMAIN keys'[c]
      BY <1>d, <3>2, KeyTypes
    <3>4. QED
      BY <1>1, <3>1, <3>3
  <2>3. QED
    BY <1>7, <2>1, <2>2 DEF create_virtual_key, Caller, Of
<1>8. QED
  BY <1>3, <1>4, <1>5, <1>6, <1>7

\* The invariant through a call to Bifrost.
LEMMA KeyInvCall ==
  ASSUME TypeInv, KeyInv, NEW w \in Workers,
         \/ load_binding(w) \/ disable_virtual_key(w) \/ get_virtual_key_material(w)
         \/ find_virtual_key_by_name(w) \/ create_virtual_key(w)
  PROVE  KeyInv' /\ Grows
<1> DEFINE i == worker[w].doing
           c == i[1]
<1>0. client' = client /\ binding' = binding /\ item' = item
  BY DEF load_binding, disable_virtual_key, get_virtual_key_material,
       find_virtual_key_by_name, create_virtual_key
<1>1. /\ worker'[w].batch = worker[w].batch /\ worker'[w].doing = i
      /\ \A v \in Workers : v # w => worker'[v] = worker[v]
  BY CallStep DEF Works
<1>2. /\ i \in Items /\ c \in Callers /\ worker[w].at # "next"
  <2>1. i \in Items
    BY KeyKnown
  <2>2. QED
    BY <2>1, ItemIsPair DEF load_binding, disable_virtual_key, get_virtual_key_material,
         find_virtual_key_by_name, create_virtual_key
<1>3. /\ \A d \in Callers : DOMAIN keys[d] \subseteq DOMAIN keys'[d]
      /\ \A d \in Callers : client[d] # "disabled" => \A k \in DOMAIN keys'[d] : keys'[d][k]
  <2>0. \A d \in Callers : client[d] # "disabled" => \A k \in DOMAIN keys[d] : keys[d][k]
    BY DEF KeyInv, CallerAgrees
  <2>1. CASE keys' = keys
    BY <2>0, <2>1
  <2>2. CASE create_virtual_key(w)
    <3>1. /\ \A d \in Callers : d # c => keys'[d] = keys[d]
          /\ keys'[c] = keys[c] \/ keys'[c] = Append(keys[c], TRUE)
          /\ DOMAIN keys[c] \subseteq DOMAIN keys'[c]
      BY <2>2, KeyStep DEF Caller, Of
    <3>2. ASSUME keys'[c] = Append(keys[c], TRUE), \A k \in DOMAIN keys[c] : keys[c][k]
          PROVE  \A k \in DOMAIN keys'[c] : keys'[c][k]
      <4>1. /\ keys[c] \in Seq(BOOLEAN) /\ Len(keys[c]) \in Nat
            /\ DOMAIN keys[c] = 1..Len(keys[c])
        BY <1>2, KeysAreNumbered
      <4>2. /\ DOMAIN keys'[c] = 1..(Len(keys[c]) + 1)
            /\ \A j \in DOMAIN keys[c] : keys'[c][j] = keys[c][j]
            /\ keys'[c][Len(keys[c]) + 1] = TRUE
        <5>1. /\ DOMAIN Append(keys[c], TRUE) = 1..(Len(keys[c]) + 1)
              /\ \A j \in DOMAIN keys[c] : Append(keys[c], TRUE)[j] = keys[c][j]
              /\ Append(keys[c], TRUE)[Len(keys[c]) + 1] = TRUE
          BY <4>1, KeyTypes, Zenon
        <5>2. QED
          BY <3>2, <5>1, Zenon
      <4>3. \A k \in 1..(Len(keys[c]) + 1) : k \in DOMAIN keys[c] \/ k = Len(keys[c]) + 1
        BY <4>1
      <4>4. QED
        BY <3>2, <4>2, <4>3
    <3>3. QED
      BY <2>0, <3>1, <3>2
  <2>3. CASE disable_virtual_key(w)
    <3>1. /\ \A d \in Callers : d # c => keys'[d] = keys[d]
          /\ DOMAIN keys[c] \subseteq DOMAIN keys'[c]
      BY <2>3, KeyStep DEF Caller, Of
    <3>2. i = <<c, "disable">> /\ item[i].status # "none"
      <4>1. i[2] = "disable" /\ item[i].status # "none"
        BY <2>3 DEF disable_virtual_key, KeyInv, WorkerAgrees
      <4>2. QED
        BY <1>2, <4>1, ItemIsPair
    <3>3. client[c] = "disabled"
      BY <1>2, <3>2 DEF KeyInv, CallerAgrees
    <3>4. QED
      BY <2>0, <3>1, <3>3
  <2>4. QED
    BY <2>1, <2>2, <2>3 DEF load_binding, get_virtual_key_material, find_virtual_key_by_name
<1>4. Grows
  BY <1>0, <1>3 DEF Grows
<1>5. ASSUME NEW d \in Callers PROVE CallerAgrees(d)'
  BY <1>0, <1>3 DEF KeyInv, CallerAgrees
<1>6. WorkerAgrees(w)'
  <2>1. WorkerAgrees(w)
    BY DEF KeyInv
  <2>2. /\ worker'[w].at \notin {"next", "commit", "load_binding", "completing", "failing_retry", "failing_final"}
        /\ worker'[w].at = "disable" => i[2] = "disable"
        /\ worker'[w].at \in {"get", "find", "create"} => i[2] = "create"
        /\ worker'[w].at = "get" => worker'[w].key \in DOMAIN keys'[c]
        /\ worker'[w].at = "complete" /\ i[2] = "create" => worker'[w].key \in DOMAIN keys'[c]
    BY KeyKnown
  <2>3. QED
    BY <1>0, <1>1, <1>2, <2>1, <2>2 DEF WorkerAgrees
<1>7. \A v \in Workers : WorkerAgrees(v)'
  BY <1>1, <1>4, <1>6, WorkerStands DEF KeyInv
<1>8. QED
  BY <1>4, <1>5, <1>7 DEF KeyInv

\* The invariant through the transaction of _complete or _fail.
LEMMA KeyInvWrite ==
  ASSUME TypeInv, KeyInv, NEW w \in Workers,
         read_item(w) \/ (\E how \in DOMAIN Reading : read_binding(w, how)) \/ commit(w)
  PROVE  KeyInv' /\ Grows
<1> DEFINE i == worker[w].doing
           c == i[1]
<1>0. WorkerAgrees(w) /\ worker[w].batch \in Seq(Items) /\ worker[w] \in WorkerRecord
  BY DEF KeyInv, TypeInv, WorkerRecord
<1>a. worker[w].at # "next" /\ item[i].status # "none"
  <2>1. worker[w].at # "next"
    BY ReadItemStep, ReadStep, ReadingSteps DEF commit
  <2>2. QED
    BY <1>0, <2>1 DEF WorkerAgrees
<1>1. i \in Items /\ c \in Callers /\ i[2] \in Actions
  <2>1. i \in Items
    BY <1>a DEF TypeInv, HasItem
  <2>2. QED
    BY <2>1, ItemIsPair
<1>2. ASSUME read_item(w) \/ \E how \in DOMAIN Reading : read_binding(w, how)
      PROVE  KeyInv' /\ Grows
  <2>1. client' = client /\ binding' = binding /\ keys' = keys /\ item' = item
    BY <1>2 DEF read_item, read_binding
  <2>2. Grows /\ \A d \in Callers : CallerAgrees(d)'
    BY <2>1, CallersStand
  <2>3. /\ \A v \in Workers : v # w => worker'[v] = worker[v]
        /\ worker'[w].batch = worker[w].batch
    BY <1>2, ReadItemStep, ReadStep DEF Works
  <2>4. WorkerAgrees(w)'
    <3>1. CASE worker'[w] = Idle(worker[w].batch)
      BY <1>0, <2>1, <3>1, IdleAgrees DEF WorkerAgrees
    <3>2. ASSUME read_item(w), worker'[w] # Idle(worker[w].batch) PROVE WorkerAgrees(w)'
      <4>1. /\ worker'[w].at = Reading[worker[w].at] /\ worker'[w].doing = i
            /\ worker'[w].key = worker[w].key /\ worker[w].at \in DOMAIN Reading
        BY <3>2, ReadItemStep
      <4>2. /\ worker'[w].at \in {"completing", "failing_retry", "failing_final"}
            /\ worker'[w].at = "completing" => worker[w].at = "complete"
        BY <4>1, ReadingSteps
      <4>3. QED
        BY <1>0, <1>a, <2>1, <2>3, <4>1, <4>2 DEF WorkerAgrees
    <3>3. ASSUME NEW how \in DOMAIN Reading, read_binding(w, how) PROVE WorkerAgrees(w)'
      <4> DEFINE write == worker'[w].write
                 row == binding[c]
      <4>1. /\ worker'[w].doing = i /\ write.how = how /\ worker'[w].at = "commit"
            /\ worker[w].at = Reading[how]
            /\ write.key.old = row.key /\ write.sync_status.old = row.sync_status
            /\ write.key.new = row.key \/ (/\ write.how = "complete" /\ i[2] = "create"
                                           /\ write.key.new = worker[w].key)
            /\ write.how = "complete" /\ i[2] = "create" => write.key.new = worker[w].key
            /\ write.sync_status.new = "active" =>
                 \/ write.how = "complete" /\ i[2] = "create"
                 \/ write.sync_status.old = "active"
        BY <3>3, ReadStep
      <4>2. how = "complete" /\ i[2] = "create" => worker[w].key \in DOMAIN keys[c]
        BY <1>0, <4>1, ReadingSteps DEF WorkerAgrees
      <4>3. /\ write.key.old # NoKey => row.key # NoKey
            /\ write.key.new # write.key.old => write.key.new \in DOMAIN keys[c]
            /\ write.sync_status.new = "active" =>
                 write.sync_status.old = "active" \/ write.key.new \in DOMAIN keys[c]
        BY <4>1, <4>2
      <4>4. item[i].status # "none" /\ \A j \in Range(worker[w].batch) : item[j].status # "none"
        BY <1>0, <1>a DEF WorkerAgrees
      <4> HIDE DEF write, row
      <4>5. QED
        BY <2>1, <2>3, <4>1, <4>3, <4>4 DEF WorkerAgrees, write, row
    <3>4. QED
      BY <1>2, <3>1, <3>2, <3>3
  <2>5. \A v \in Workers : WorkerAgrees(v)'
    BY <2>2, <2>3, <2>4, WorkerStands DEF KeyInv
  <2>6. QED
    BY <2>2, <2>5 DEF KeyInv
<1>3. CASE commit(w)
  <2> DEFINE write == worker[w].write
  <2>1. client' = client /\ keys' = keys
    BY <1>3 DEF commit
  <2>2. /\ worker'[w] = Idle(worker[w].batch)
        /\ \A v \in Workers : v # w => worker'[v] = worker[v]
        /\ binding'[c].key = Written(binding[c].key, write.key)
        /\ binding'[c].sync_status = Written(binding[c].sync_status, write.sync_status)
        /\ item'[i].status \in {"completed", "failed"}
        /\ \A d \in Callers : d # c => binding'[d] = binding[d]
        /\ \A j \in Items : j # i => item'[j] = item[j]
    BY <1>3, CommitStep DEF Works
  <2>3. /\ write.key.old # NoKey => binding[c].key # NoKey
        /\ write.key.new # write.key.old => write.key.new \in DOMAIN keys[c]
        /\ write.sync_status.new = "active" =>
             write.sync_status.old = "active" \/ write.key.new \in DOMAIN keys[c]
        /\ item[i].status # "none"
    BY <1>0, <1>3 DEF WorkerAgrees, commit
  <2>4. CallerAgrees(c) /\ NoKey \notin DOMAIN keys[c]
    BY <1>1, KeysAreNumbered DEF KeyInv
  <2>5. /\ binding'[c].key \in {NoKey} \cup DOMAIN keys[c]
        /\ binding[c].key # NoKey => binding'[c].key # NoKey
        /\ binding'[c].sync_status = "active" => binding'[c].key # NoKey
    <3> HIDE DEF write
    <3>1. QED
      BY <2>2, <2>3, <2>4 DEF CallerAgrees, Written
  <2>6. \A j \in Items : (item'[j].status = "none") = (item[j].status = "none")
    BY <2>2, <2>3
  <2>7. Grows
    BY <2>1, <2>2, <2>5, <2>6 DEF Grows
  <2>8. ASSUME NEW d \in Callers PROVE CallerAgrees(d)'
    <3>1. CallerAgrees(d) /\ <<d, "disable">> \in Items
      BY DEF KeyInv, Items, Actions
    <3>2. CASE d = c
      BY <2>1, <2>5, <2>6, <3>1, <3>2 DEF CallerAgrees
    <3>3. CASE d # c
      BY <2>1, <2>2, <2>6, <3>1, <3>3 DEF CallerAgrees
    <3>4. QED
      BY <3>2, <3>3
  <2>9. WorkerAgrees(w)'
    <3>1. \A j \in Range(worker[w].batch) : item'[j].status # "none"
      BY <1>0, <2>6, BatchFacts DEF WorkerAgrees
    <3>2. QED
      BY <1>0, <2>2, <3>1, IdleAgrees
  <2>10. \A v \in Workers : WorkerAgrees(v)'
    BY <2>2, <2>7, <2>9, WorkerStands DEF KeyInv
  <2>11. QED
    BY <2>7, <2>8, <2>10 DEF KeyInv
<1>4. QED
  BY <1>2, <1>3

\* The invariant through every step.
LEMMA KeyInvStep == TypeInv /\ KeyInv /\ [Next]_vars => KeyInv' /\ Grows
<1> SUFFICES ASSUME TypeInv, KeyInv, [Next]_vars PROVE KeyInv' /\ Grows
  OBVIOUS
<1>1. CASE UNCHANGED vars
  BY <1>1 DEF vars, KeyInv, CallerAgrees, WorkerAgrees, Grows
<1>2. CASE Next
  BY <1>2, KeyInvAdmin, KeyInvQueue, KeyInvCall, KeyInvWrite DEF Next, run_once
<1>3. QED
  BY <1>1, <1>2

\* Nothing has been asked for yet.
LEMMA KeyInvInit == Init => KeyInv
<1> SUFFICES ASSUME Init PROVE KeyInv
  OBVIOUS
<1>1. \A w \in Workers : worker[w] = Idle(<<>>)
  BY DEF Init
<1>2. \A w \in Workers : WorkerAgrees(w)
  BY <1>1, IdleTypes, EmptyBatch DEF WorkerAgrees
<1>3. ASSUME NEW c \in Callers PROVE CallerAgrees(c)
  <2>1. binding[c].key = NoKey /\ binding[c].sync_status = "pending" /\ keys[c] = <<>>
    BY DEF Init
  <2>2. item[<<c, "disable">>].status = "none"
    BY DEF Init, NotStaged, Items, Actions
  <2>3. QED
    BY <2>1, <2>2 DEF CallerAgrees
<1>4. QED
  BY <1>2, <1>3 DEF KeyInv

\* The invariant holds in every behaviour.
LEMMA KeyInvHolds == Spec => [](TypeInv /\ KeyInv)
<1>1. Init => TypeInv /\ KeyInv
  BY TypeInit, KeyInvInit
<1>2. TypeInv /\ KeyInv /\ [Next]_vars => (TypeInv /\ KeyInv)'
  BY TypeStep, KeyInvStep
<1>3. QED
  BY <1>1, <1>2, PTL DEF Spec

\* An active caller with an active binding has a key that exists and is on,
\* however many workers work on its items, however late they commit.
THEOREM ActiveBindingsAreUsable == Spec => []ActiveBindingIsUsable
<1>1. KeyInv => ActiveBindingIsUsable
  BY DEF KeyInv, CallerAgrees, ActiveBindingIsUsable
<1>2. QED
  BY <1>1, KeyInvHolds, PTL

-----------------------------------------------------------------------------
(* Workers within the claim timeout *)

\* No worker has outlasted its claim so far.
Prompt == late = 0

\* Nobody has an item somebody else has.
Exclusive == \A i \in Items, v, w \in Workers : Holds(v, i) /\ Holds(w, i) => v = w

\* No item is twice in a worker's batch, or there while it is worked on.
Apart(w) ==
  IsInjective(worker[w].batch) /\ worker[w].doing \notin Range(worker[w].batch)

\* An item in the hands of a worker is being processed under a claim that has
\* not expired; the worker has it once and nobody else has it.
ClaimInv ==
  /\ \A w \in Workers, i \in Items :
       Holds(w, i) => item[i].status = "processing" /\ ~item[i].expired
  /\ \A w \in Workers : Apart(w)
  /\ Exclusive

\* A step after which every worker has the items it had, or fewer.
LEMMA ClaimsStand ==
  ASSUME ClaimInv,
         \A v \in Workers, i \in Items :
           Holds(v, i)' => Holds(v, i) /\ item'[i].status = "processing" /\ ~item'[i].expired,
         \A v \in Workers : Apart(v)'
  PROVE  ClaimInv'
BY DEF ClaimInv, Exclusive

\* A worker between two items has its batch and nothing else.
LEMMA IdleHolds ==
  ASSUME NEW w \in Workers, NEW S \in Seq(Items), worker'[w] = Idle(S)
  PROVE  /\ \A i \in Items : Holds(w, i)' <=> i \in Range(S)
         /\ IsInjective(S) => Apart(w)'
<1>1. worker'[w].batch = S /\ worker'[w].doing = <<>>
  BY IdleTypes
<1>2. <<>> \notin Items /\ Range(S) \subseteq Items
  BY ItemIsPair, BatchFacts
<1>3. QED
  BY <1>1, <1>2 DEF Holds, Of, Apart

\* A step of a worker that gives up its item or keeps it.
LEMMA WorkHolds ==
  ASSUME TypeInv, ClaimInv, NEW w \in Workers, Works(w), NEW v \in Workers, NEW i \in Items,
         Holds(v, i)'
  PROVE  Holds(v, i)
<1>1. CASE v # w
  BY <1>1 DEF Works, Holds, Of
<1>2. CASE v = w /\ worker'[w] = Idle(worker[w].batch)
  <2>1. worker[w].batch \in Seq(Items)
    BY DEF TypeInv, WorkerRecord
  <2>2. QED
    BY <1>2, <2>1, IdleHolds DEF Holds
<1>3. CASE v = w /\ worker'[w].doing = worker[w].doing
  BY <1>3 DEF Works, Holds, Of
<1>4. QED
  BY <1>1, <1>2, <1>3 DEF Works

\* The item of a worker that keeps it is not in its batch either.
LEMMA WorkApart ==
  ASSUME TypeInv, ClaimInv, NEW w \in Workers, Works(w), NEW v \in Workers
  PROVE  Apart(v)'
<1>1. CASE v # w
  BY <1>1 DEF Works, ClaimInv, Apart
<1>2. CASE v = w /\ worker'[w] = Idle(worker[w].batch)
  <2>1. worker[w].batch \in Seq(Items)
    BY DEF TypeInv, WorkerRecord
  <2>2. QED
    BY <1>2, <2>1, IdleHolds DEF ClaimInv, Apart
<1>3. CASE v = w /\ worker'[w].doing = worker[w].doing
  BY <1>3 DEF Works, ClaimInv, Apart
<1>4. QED
  BY <1>1, <1>2, <1>3 DEF Works

\* Claims stay exclusive through every step.
LEMMA ClaimInvStep ==
  ASSUME Prompt, Prompt', TypeInv, KeyInv, ClaimInv,
         \A c \in Callers : client[c] = "absent" => item[<<c, "create">>].status = "none",
         [Next]_vars
  PROVE  ClaimInv'
<1>0. /\ worker \in [Workers -> WorkerRecord]
      /\ \A w \in Workers : worker[w].batch \in Seq(Items)
      /\ \A w \in Workers, i \in Items :
           Holds(w, i) => item[i].status = "processing" /\ ~item[i].expired
      /\ \A w \in Workers : Apart(w)
  BY DEF TypeInv, WorkerRecord, ClaimInv
<1>1. ASSUME NEW c \in Callers, create_caller(c) \/ disable_caller(c) PROVE ClaimInv'
  <2>1. worker' = worker
    BY <1>1 DEF create_caller, disable_caller
  <2>2. PICK action \in Actions :
          /\ \A i \in Items : i # <<c, action>> => item'[i] = item[i]
          /\ item[<<c, action>>].status = "none"
    <3>1. CASE create_caller(c)
      <4>1. item[<<c, "create">>].status = "none" /\ "create" \in Actions
        BY <3>1 DEF create_caller, Actions
      <4>2. \A i \in Items : i # <<c, "create">> => item'[i] = item[i]
        BY <3>1 DEF create_caller, queue_binding_sync, TypeInv, TypeOK
      <4>3. QED
        BY <4>1, <4>2
    <3>2. CASE disable_caller(c)
      <4>1. item[<<c, "disable">>].status = "none" /\ "disable" \in Actions
        BY <3>2 DEF disable_caller, Actions, KeyInv, CallerAgrees
      <4>2. \A i \in Items : i # <<c, "disable">> => item'[i] = item[i]
        BY <3>2 DEF disable_caller, queue_binding_sync, TypeInv, TypeOK
      <4>3. QED
        BY <4>1, <4>2
    <3>3. QED
      BY <1>1, <3>1, <3>2
  <2>3. ASSUME NEW v \in Workers, NEW i \in Items, Holds(v, i)'
        PROVE  Holds(v, i) /\ item'[i].status = "processing" /\ ~item'[i].expired
    <3>1. Holds(v, i)
      BY <2>1, <2>3 DEF Holds, Of
    <3>2. i # <<c, action>>
      BY <1>0, <2>2, <3>1
    <3>3. QED
      BY <1>0, <2>2, <3>1, <3>2
  <2>4. QED
    BY <1>0, <2>1, <2>3, ClaimsStand DEF Apart
<1>2. ASSUME NEW w \in Workers, _claim(w) PROVE ClaimInv'
  <2>1. PICK S \in Seq(Items) :
          /\ worker'[w] = Idle(S) /\ worker[w] = Idle(<<>>)
          /\ \A v \in Workers : v # w => worker'[v] = worker[v]
          /\ Range(S) \subseteq Claimable /\ Range(S) \subseteq Items /\ IsInjective(S)
          /\ \A i \in Range(S) : item'[i].status = "processing" /\ ~item'[i].expired
          /\ \A i \in Items \ Range(S) : item'[i] = item[i]
    BY <1>2, ClaimStep
  <2>2. ASSUME NEW v \in Workers, NEW i \in Range(S) PROVE ~Holds(v, i)
    BY <1>0, <2>1 DEF Claimable
  <2>3. ASSUME NEW v \in Workers, NEW i \in Items
        PROVE  Holds(v, i)' <=> IF v = w THEN i \in Range(S) ELSE Holds(v, i)
    <3>1. CASE v = w
      BY <2>1, <3>1, IdleHolds
    <3>2. CASE v # w
      BY <2>1, <3>2 DEF Holds, Of
    <3>3. QED
      BY <3>1, <3>2
  <2>4. ASSUME NEW v \in Workers, NEW i \in Items, Holds(v, i)'
        PROVE  item'[i].status = "processing" /\ ~item'[i].expired
    BY <1>0, <2>1, <2>3, <2>4
  <2>5. Exclusive'
    <3> SUFFICES ASSUME NEW i \in Items, NEW u \in Workers, NEW v \in Workers,
                        Holds(u, i)', Holds(v, i)'
                 PROVE  u = v
      BY DEF Exclusive
    <3>1. CASE i \in Range(S)
      BY <2>2, <2>3, <3>1
    <3>2. CASE i \notin Range(S)
      BY <2>3, <3>2 DEF ClaimInv, Exclusive
    <3>3. QED
      BY <3>1, <3>2
  <2>6. \A v \in Workers : Apart(v)'
    BY <1>0, <2>1, IdleHolds DEF Apart
  <2>7. QED
    BY <2>4, <2>5, <2>6 DEF ClaimInv
<1>3. ASSUME NEW w \in Workers, _load(w) PROVE ClaimInv'
  <2> DEFINE i == Head(worker[w].batch)
             rest == Tail(worker[w].batch)
  <2>1. /\ worker[w].batch # <<>> /\ worker'[w].batch = rest /\ worker'[w].doing = i
        /\ i \in Range(worker[w].batch)
        /\ \A v \in Workers : v # w => worker'[v] = worker[v]
    BY <1>3, LoadStep
  <2>2. item' = item
    BY <1>3 DEF _load
  <2>3. /\ Range(rest) \subseteq Range(worker[w].batch)
        /\ i \notin Range(rest) /\ IsInjective(rest)
    <3>1. IsInjective(worker[w].batch)
      BY <1>0 DEF Apart
    <3>2. QED
      BY <1>0, <2>1, <3>1, BatchFacts
  <2>4. ASSUME NEW v \in Workers, NEW j \in Items, Holds(v, j)' PROVE Holds(v, j)
    <3>1. CASE v # w
      BY <2>1, <2>4, <3>1 DEF Holds, Of
    <3>2. CASE v = w
      BY <2>1, <2>3, <2>4, <3>2 DEF Holds, Of
    <3>3. QED
      BY <3>1, <3>2
  <2>5. \A v \in Workers : Apart(v)'
    BY <1>0, <2>1, <2>3 DEF Apart
  <2>6. QED
    BY <1>0, <2>2, <2>4, <2>5, ClaimsStand
<1>4. ASSUME NEW w \in Workers,
             \/ load_binding(w) \/ disable_virtual_key(w) \/ get_virtual_key_material(w)
             \/ find_virtual_key_by_name(w) \/ create_virtual_key(w)
             \/ read_item(w) \/ \E how \in DOMAIN Reading : read_binding(w, how)
      PROVE  ClaimInv'
  <2>1. item' = item
    BY <1>4 DEF load_binding, disable_virtual_key, get_virtual_key_material,
         find_virtual_key_by_name, create_virtual_key, read_item, read_binding
  <2>2. Works(w)
    BY <1>4, CallStep, ReadItemStep, ReadStep
  <2>3. QED
    BY <1>0, <2>1, <2>2, WorkHolds, WorkApart, ClaimsStand
<1>5. ASSUME NEW w \in Workers, commit(w) PROVE ClaimInv'
  <2> DEFINE i == worker[w].doing
  <2>1. /\ Works(w) /\ worker'[w] = Idle(worker[w].batch) /\ i \in Items
        /\ \A j \in Items : j # i => item'[j] = item[j]
    BY <1>5, CommitStep
  <2>2. Holds(w, i)
    BY DEF Holds, Of
  <2>3. ASSUME NEW v \in Workers, NEW j \in Items, Holds(v, j)'
        PROVE  Holds(v, j) /\ item'[j].status = "processing" /\ ~item'[j].expired
    <3>1. Holds(v, j)
      BY <2>1, <2>3, WorkHolds
    <3>2. j # i
      <4>1. CASE v = w
        BY <1>0, <2>1, <2>3, <4>1, IdleHolds DEF Apart
      <4>2. CASE v # w
        BY <2>1, <2>2, <3>1, <4>2 DEF ClaimInv, Exclusive
      <4>3. QED
        BY <4>1, <4>2
    <3>3. QED
      BY <1>0, <2>1, <3>1, <3>2
  <2>4. QED
    BY <2>1, <2>3, WorkApart, ClaimsStand
<1>6. ASSUME NEW w \in Workers, Crash(w) PROVE ClaimInv'
  <2>1. worker' = [worker EXCEPT ![w] = Idle(<<>>)] /\ item' = item
    BY <1>6 DEF Crash
  <2>2. worker'[w] = Idle(<<>>) /\ \A v \in Workers : v # w => worker'[v] = worker[v]
    BY <1>0, <2>1, WorkerEffect, IdleTypes, EmptyBatch
  <2>3. ASSUME NEW v \in Workers, NEW j \in Items, Holds(v, j)' PROVE Holds(v, j)
    <3>1. CASE v = w
      BY <2>2, <2>3, <3>1, IdleHolds, EmptyBatch
    <3>2. CASE v # w
      BY <2>2, <2>3, <3>2 DEF Holds, Of
    <3>3. QED
      BY <3>1, <3>2
  <2>4. \A v \in Workers : Apart(v)'
    BY <1>0, <2>2, IdleHolds, EmptyBatch DEF Apart
  <2>5. QED
    BY <1>0, <2>1, <2>3, <2>4, ClaimsStand
<1>7. ASSUME NEW i \in Items, Backoff(i) \/ Expire(i) PROVE ClaimInv'
  <2>1. worker' = worker
    BY <1>7 DEF Backoff, Expire
  <2>2. ASSUME NEW v \in Workers PROVE ~Holds(v, i)
    <3>1. CASE Backoff(i)
      BY <1>0, <3>1 DEF Backoff
    <3>2. CASE Expire(i)
      <4>1. late \in Nat /\ late = 0 /\ late' = 0
        BY DEF Prompt
      <4>2. QED
        BY <3>2, <4>1 DEF Expire
    <3>3. QED
      BY <1>7, <3>1, <3>2
  <2>3. \A j \in Items : j # i => item'[j] = item[j]
    BY <1>7, TimeStep
  <2>4. ASSUME NEW v \in Workers, NEW j \in Items, Holds(v, j)' PROVE Holds(v, j) /\ j # i
    BY <2>1, <2>2, <2>4 DEF Holds, Of
  <2>5. QED
    BY <1>0, <2>1, <2>3, <2>4, ClaimsStand DEF Apart
<1>8. CASE UNCHANGED vars
  BY <1>8 DEF vars, ClaimInv, Exclusive, Holds, Of, Apart
<1>9. QED
  BY <1>1, <1>2, <1>3, <1>4, <1>5, <1>6, <1>7, <1>8 DEF Next, run_once

\* What a caller's rows show: one key at most, recorded by the transaction that
\* completed its creation; only a key can make a disabling fail; an item that has
\* failed for the current version shows in the binding, tried again or not.
CallerShows(c) ==
  /\ Len(keys[c]) <= 1
  /\ client[c] = "absent" => item[<<c, "create">>].status = "none"
  /\ binding[c].key # NoKey => item[<<c, "create">>].status = "completed"
  /\ item[<<c, "disable">>].status = "failed" => binding[c].key # NoKey
  /\ item[<<c, "create">>].status # "none" => item[<<c, "create">>].version = 2
  /\ \A action \in Actions :
       /\ item[<<c, action>>].status = "failed"
       /\ item[<<c, action>>].version = binding[c].version
       => binding[c].sync_status = "error"

\* What a worker may rely on between two steps: a name that was not found is not
\* there, and a binding whose failure it is about to report has not changed.
WorkerShows(w) ==
  LET me == worker[w]
      i == me.doing
      c == i[1]
  IN  /\ me.at = "create" => keys[c] = <<>>
      /\ me.at \in {"disable", "fail_retry", "fail_final", "failing_retry", "failing_final"}
           /\ i[2] = "disable" => binding[c].key # NoKey
      /\ me.at = "commit" =>
           /\ me.write.key.new # me.write.key.old =>
                me.write.how = "complete" /\ i[2] = "create"
           /\ me.write.how # "complete" /\ i[2] = "disable" => binding[c].key # NoKey
           /\ me.write.how # "complete" /\ item[i].version = binding[c].version =>
                /\ me.write.sync_status.new = "error"
                /\ me.write.sync_status.old = binding[c].sync_status

\* The inductive invariant for workers within the claim timeout, on top of KeyInv.
ShowInv ==
  /\ ClaimInv
  /\ \A c \in Callers : CallerShows(c)
  /\ \A w \in Workers : WorkerShows(w)

\* A worker relies on its own item and its caller's rows only.
LEMMA ShowsStand ==
  ASSUME TypeInv, NEW v \in Workers, WorkerShows(v), worker'[v] = worker[v], Grows,
         LET i == worker[v].doing
             c == i[1]
         IN  i \in Items =>
               /\ worker[v].at = "create" /\ keys[c] = <<>> => keys'[c] = <<>>
               /\ worker[v].at = "commit" =>
                    /\ item'[i].version = item[i].version
                    /\ \/ worker[v].write.how = "complete"
                       \/ item'[i].version # binding'[c].version
                       \/ /\ binding'[c].version = binding[c].version
                          /\ binding'[c].sync_status = binding[c].sync_status
  PROVE  WorkerShows(v)'
<1>1. CASE worker[v].at = "next"
  BY <1>1 DEF WorkerShows
<1>2. CASE worker[v].at # "next"
  <2>1. worker[v].doing \in Items /\ worker[v].doing[1] \in Callers
    BY <1>2, ItemIsPair DEF TypeInv, HasItem
  <2>2. QED
    BY <1>2, <2>1 DEF WorkerShows, Grows
<1>3. QED
  BY <1>1, <1>2

\* The item a worker works on is being processed, and is that of a caller.
LEMMA WorkingOn ==
  ASSUME TypeInv, ClaimInv, NEW w \in Workers, worker[w].at # "next"
  PROVE  LET i == worker[w].doing
         IN  /\ i \in Items /\ i[1] \in Callers /\ i[2] \in Actions
             /\ i = <<i[1], i[2]>> /\ Holds(w, i) /\ item[i].status = "processing"
<1>1. worker[w].doing \in Items
  BY DEF TypeInv, HasItem
<1>2. Holds(w, worker[w].doing)
  BY DEF Holds, Of
<1>3. QED
  BY <1>1, <1>2, ItemIsPair DEF ClaimInv

\* The rows of an administrator's transaction.
LEMMA ShowAdmin ==
  ASSUME TypeInv, KeyInv, ShowInv, Grows, NEW c \in Callers, create_caller(c) \/ disable_caller(c)
  PROVE  /\ \A d \in Callers : CallerShows(d)'
         /\ \A w \in Workers : WorkerShows(w)'
<1>0. /\ client \in [Callers -> {"absent", "active", "disabled"}]
      /\ binding \in [Callers -> Binding] /\ CallerShows(c) /\ CallerAgrees(c)
  BY DEF TypeInv, TypeOK, ShowInv, KeyInv
<1>1. keys' = keys /\ worker' = worker
  BY DEF create_caller, disable_caller
<1>2. PICK action \in Actions :
        /\ binding'[c].key = binding[c].key
        /\ item'[<<c, action>>].status = "pending" /\ item[<<c, action>>].status = "none"
        /\ \A d \in Callers : d # c => binding'[d] = binding[d] /\ client'[d] = client[d]
        /\ \A i \in Items : i # <<c, action>> => item'[i] = item[i]
        /\ client'[c] # "absent" /\ item[<<c, "disable">>].status = "none"
        /\ action = "create" => /\ item'[<<c, "create">>].version = 2
                                /\ binding'[c].version = 2
        /\ action = "disable" => binding'[c].version = 3
  <2>1. CASE create_caller(c)
    <3>1. /\ queue_binding_sync(c, [binding[c] EXCEPT !.version = 1], "create")
          /\ "create" \in Actions /\ 1 \in 1..2
      BY <2>1 DEF create_caller, Actions
    <3>2. /\ binding'[c].version = 1 + 1 /\ binding'[c].key = binding[c].key
          /\ item'[<<c, "create">>].status = "pending" /\ item'[<<c, "create">>].version = 1 + 1
          /\ \A d \in Callers : d # c => binding'[d] = binding[d]
          /\ \A i \in Items : i # <<c, "create">> => item'[i] = item[i]
      BY <3>1, QueueTypes, Zenon
    <3>3. /\ client[c] = "absent" /\ client'[c] = "active"
          /\ \A d \in Callers : d # c => client'[d] = client[d]
      BY <1>0, <2>1 DEF create_caller
    <3>4. item[<<c, "create">>].status = "none" /\ item[<<c, "disable">>].status = "none"
      BY <1>0, <3>3 DEF CallerShows, CallerAgrees
    <3>5. QED
      BY <3>1, <3>2, <3>3, <3>4
  <2>2. CASE disable_caller(c)
    <3>1. binding[c].version = 2 /\ binding[c] \in Binding
      BY <1>0, <2>2 DEF disable_caller, TypeInv, VersionCounts
    <3>2. binding[c] = [binding[c] EXCEPT !.version = 2]
      BY <3>1 DEF Binding
    <3>3. queue_binding_sync(c, binding[c], "disable")
      BY <2>2 DEF disable_caller
    <3>4. /\ queue_binding_sync(c, [binding[c] EXCEPT !.version = 2], "disable")
          /\ "disable" \in Actions /\ 2 \in 1..2
      BY <3>2, <3>3 DEF Actions
    <3>5. /\ binding'[c].version = 2 + 1 /\ binding'[c].key = binding[c].key
          /\ item'[<<c, "disable">>].status = "pending"
          /\ \A d \in Callers : d # c => binding'[d] = binding[d]
          /\ \A i \in Items : i # <<c, "disable">> => item'[i] = item[i]
      BY <3>4, QueueTypes, Zenon
    <3>6. /\ client[c] = "active" /\ client'[c] = "disabled"
          /\ \A d \in Callers : d # c => client'[d] = client[d]
      BY <1>0, <2>2 DEF disable_caller
    <3>7. item[<<c, "disable">>].status = "none"
      BY <1>0, <3>6 DEF CallerAgrees
    <3>8. QED
      BY <3>4, <3>5, <3>6, <3>7
  <2>3. QED
    BY <2>1, <2>2
<1>3. ASSUME NEW d \in Callers PROVE CallerShows(d)'
  <2>0. CallerShows(d) /\ \A a \in Actions : <<d, a>> \in Items
    BY DEF ShowInv, Items
  <2>1. CASE d # c
    <3>1. \A a \in Actions : item'[<<d, a>>] = item[<<d, a>>]
      BY <1>2, <2>0, <2>1
    <3>2. binding'[d] = binding[d] /\ client'[d] = client[d]
      BY <1>2, <2>1
    <3>3. QED
      BY <1>1, <2>0, <3>1, <3>2 DEF CallerShows, Actions
  <2>2. CASE d = c /\ action = "create"
    <3>1. item'[<<c, "disable">>] = item[<<c, "disable">>]
      BY <1>2, <2>0, <2>2 DEF Actions
    <3>2. QED
      BY <1>1, <1>2, <2>0, <2>2, <3>1 DEF CallerShows, Actions
  <2>3. CASE d = c /\ action = "disable"
    <3>1. item'[<<c, "create">>] = item[<<c, "create">>]
      BY <1>2, <2>0, <2>3 DEF Actions
    <3>2. QED
      BY <1>1, <1>2, <2>0, <2>3, <3>1 DEF CallerShows, Actions
  <2>4. QED
    BY <2>1, <2>2, <2>3 DEF Actions
<1>4. ASSUME NEW w \in Workers PROVE WorkerShows(w)'
  <2> DEFINE i == worker[w].doing
  <2>1. ASSUME worker[w].at = "commit"
        PROVE  /\ item'[i].version = item[i].version
               /\ \/ item'[i].version # binding'[i[1]].version
                  \/ binding'[i[1]] = binding[i[1]]
    <3>1. i \in Items /\ i[1] \in Callers /\ i[2] \in Actions /\ i = <<i[1], i[2]>>
          /\ item[i].status = "processing"
      BY <2>1, WorkingOn DEF ShowInv
    <3>2. item'[i] = item[i]
      BY <1>2, <3>1
    <3>3. CASE i[1] # c
      BY <1>2, <3>1, <3>2, <3>3
    <3>4. CASE i[1] = c
      <4>1. i = <<c, "create">> /\ action = "disable"
        BY <1>2, <3>1, <3>4 DEF Actions
      <4>2. item[i].version = 2 /\ binding'[c].version = 3
        BY <1>0, <1>2, <3>1, <4>1 DEF CallerShows
      <4>3. QED
        BY <3>2, <3>4, <4>2
    <3>5. QED
      BY <3>3, <3>4
  <2>2. WorkerShows(w)
    BY DEF ShowInv
  <2>3. QED
    BY <1>1, <2>1, <2>2, ShowsStand
<1>5. QED
  BY <1>3, <1>4

\* Claiming, _load, a crash and the passing of time.
LEMMA ShowQueue ==
  ASSUME TypeInv, ShowInv, Grows,
         \/ \E w \in Workers : _claim(w) \/ Crash(w) \/ _load(w)
         \/ \E i \in Items : Backoff(i) \/ Expire(i)
  PROVE  /\ \A c \in Callers : CallerShows(c)'
         /\ \A w \in Workers : WorkerShows(w)'
<1>0. client' = client /\ binding' = binding /\ keys' = keys
  BY DEF _claim, Crash, _load, Backoff, Expire
<1>1. /\ \A i \in Items : item'[i].version = item[i].version
      /\ \A i \in Items : item'[i].status = item[i].status
                          \/ (item[i].status \in {"pending", "failed", "processing"}
                              /\ item'[i].status = "processing")
  <2>1. ASSUME NEW w \in Workers, _claim(w)
        PROVE  /\ \A i \in Items : item'[i].version = item[i].version
               /\ \A i \in Items : item'[i].status = item[i].status
                                   \/ (item[i].status \in {"pending", "failed", "processing"}
                                       /\ item'[i].status = "processing")
    <3>1. PICK S \in Seq(Items) :
            /\ \A i \in Items : item'[i].version = item[i].version
            /\ Range(S) \subseteq Claimable
            /\ \A i \in Range(S) : item'[i].status = "processing"
            /\ \A i \in Items \ Range(S) : item'[i] = item[i]
      BY <2>1, ClaimStep
    <3>2. QED
      BY <3>1 DEF Claimable
  <2>2. ASSUME NEW i \in Items, Backoff(i) \/ Expire(i)
        PROVE  \A j \in Items : item'[j].version = item[j].version /\ item'[j].status = item[j].status
    BY <2>2, TimeStep
  <2>3. QED
    BY <2>1, <2>2 DEF Crash, _load
<1>2. ASSUME NEW c \in Callers PROVE CallerShows(c)'
  <2>1. CallerShows(c) /\ \A a \in Actions : <<c, a>> \in Items
    BY DEF ShowInv, Items
  <2>2. <<c, "create">> \in Items /\ <<c, "disable">> \in Items
    BY <2>1 DEF Actions
  <2>3. /\ Len(keys'[c]) <= 1
        /\ client'[c] = "absent" => item'[<<c, "create">>].status = "none"
        /\ binding'[c].key # NoKey => item'[<<c, "create">>].status = "completed"
        /\ item'[<<c, "disable">>].status = "failed" => binding'[c].key # NoKey
        /\ item'[<<c, "create">>].status # "none" => item'[<<c, "create">>].version = 2
    BY <1>0, <1>1, <2>1, <2>2 DEF CallerShows
  <2>4. ASSUME NEW a \in Actions, item'[<<c, a>>].status = "failed",
               item'[<<c, a>>].version = binding'[c].version
        PROVE  binding'[c].sync_status = "error"
    <3>1. item[<<c, a>>].status = "failed" /\ item[<<c, a>>].version = binding[c].version
      BY <1>0, <1>1, <2>1, <2>4
    <3>2. QED
      BY <1>0, <2>1, <3>1 DEF CallerShows
  <2>5. QED
    BY <2>3, <2>4 DEF CallerShows
<1>3. ASSUME NEW w \in Workers PROVE WorkerShows(w)'
  <2>1. CASE worker'[w] = worker[w]
    BY <1>0, <1>1, <2>1, ShowsStand DEF ShowInv
  <2>2. CASE worker'[w].at \in {"next", "load_binding"}
    BY <2>2 DEF WorkerShows
  <2>3. worker'[w] = worker[w] \/ worker'[w].at \in {"next", "load_binding"}
    <3>0. worker \in [Workers -> WorkerRecord] /\ \A v \in Workers : worker[v].batch \in Seq(Items)
      BY DEF TypeInv, WorkerRecord
    <3>1. ASSUME NEW v \in Workers, _claim(v)
          PROVE  worker'[w] = worker[w] \/ worker'[w].at \in {"next", "load_binding"}
      <4>1. PICK S \in Seq(Items) :
              worker'[v] = Idle(S) /\ \A u \in Workers : u # v => worker'[u] = worker[u]
        BY <3>1, ClaimStep
      <4>2. QED
        BY <4>1, IdleTypes
    <3>2. ASSUME NEW v \in Workers, _load(v)
          PROVE  worker'[w] = worker[w] \/ worker'[w].at \in {"next", "load_binding"}
      <4> DEFINE i == Head(worker[v].batch)
      <4>1. /\ i \in Items /\ i \in Range(worker[v].batch)
            /\ item[i].status = "processing" => worker'[v].at = "load_binding"
            /\ \A u \in Workers : u # v => worker'[u] = worker[u]
        BY <3>2, LoadStep
      <4>2. Holds(v, i)
        BY <4>1 DEF Holds
      <4>3. item[i].status = "processing"
        BY <4>1, <4>2 DEF ShowInv, ClaimInv
      <4>4. QED
        BY <4>1, <4>3
    <3>3. ASSUME NEW v \in Workers, Crash(v)
          PROVE  worker'[w] = worker[w] \/ worker'[w].at \in {"next", "load_binding"}
      <4>1. worker' = [worker EXCEPT ![v] = Idle(<<>>)]
        BY <3>3 DEF Crash
      <4>2. QED
        BY <3>0, <4>1, IdleTypes, EmptyBatch
    <3>4. QED
      BY <3>1, <3>2, <3>3 DEF Backoff, Expire
  <2>4. QED
    BY <2>1, <2>2, <2>3
<1>4. QED
  BY <1>2, <1>3

\* The calls to Bifrost.
LEMMA ShowCall ==
  ASSUME TypeInv, KeyInv, ShowInv, Grows, NEW w \in Workers,
         \/ load_binding(w) \/ disable_virtual_key(w) \/ get_virtual_key_material(w)
         \/ find_virtual_key_by_name(w) \/ create_virtual_key(w)
  PROVE  /\ \A c \in Callers : CallerShows(c)'
         /\ \A v \in Workers : WorkerShows(v)'
<1> DEFINE i == worker[w].doing
           c == i[1]
<1>0. client' = client /\ binding' = binding /\ item' = item
  BY DEF load_binding, disable_virtual_key, get_virtual_key_material,
       find_virtual_key_by_name, create_virtual_key
<1>1. /\ worker'[w].doing = i /\ worker'[w].at \notin {"next", "commit", "load_binding", "completing", "failing_retry", "failing_final"}
      /\ \A v \in Workers : v # w => worker'[v] = worker[v]
      /\ worker \in [Workers -> WorkerRecord]
  BY CallStep DEF Works, TypeInv
<1>2. /\ i \in Items /\ c \in Callers /\ i[2] \in Actions /\ i = <<c, i[2]>> /\ Holds(w, i)
      /\ worker[w].at # "next"
  <2>1. worker[w].at # "next"
    BY DEF load_binding, disable_virtual_key, get_virtual_key_material,
         find_virtual_key_by_name, create_virtual_key
  <2>2. QED
    BY <2>1, WorkingOn DEF ShowInv
<1>3. WorkerShows(w) /\ WorkerAgrees(w) /\ CallerShows(c)
  BY <1>2 DEF ShowInv, KeyInv
<1>4. /\ \A d \in Callers : d # c => keys'[d] = keys[d]
      /\ keys'[c] = keys[c] \/ Len(keys'[c]) = Len(keys[c])
         \/ (create_virtual_key(w) /\ keys'[c] = Append(keys[c], TRUE))
  <2>1. CASE keys' = keys
    BY <2>1
  <2>2. CASE disable_virtual_key(w) \/ create_virtual_key(w)
    BY <2>2, KeyStep DEF Caller, Of
  <2>3. QED
    BY <2>1, <2>2 DEF load_binding, get_virtual_key_material, find_virtual_key_by_name
<1>5. Len(keys'[c]) <= 1
  <2>1. CASE create_virtual_key(w) /\ keys'[c] = Append(keys[c], TRUE)
    <3>1. keys[c] = <<>>
      BY <1>3, <2>1 DEF WorkerShows, create_virtual_key
    <3>2. Len(Append(<<>>, TRUE)) = 1
      OBVIOUS
    <3>3. QED
      BY <2>1, <3>1, <3>2
  <2>2. QED
    BY <1>3, <1>4, <2>1 DEF CallerShows
<1>6. ASSUME NEW d \in Callers PROVE CallerShows(d)'
  <2>1. CallerShows(d) /\ Len(keys'[d]) <= 1
    BY <1>4, <1>5 DEF ShowInv, CallerShows
  <2>2. QED
    BY <1>0, <2>1 DEF CallerShows
<1>7. WorkerShows(w)'
  <2>1. worker'[w].at = "create" => keys'[c] = <<>>
    <3>1. worker'[w].at = "create" => find_virtual_key_by_name(w) /\ keys[c] = <<>> /\ keys' = keys
      <4>a. \A d, k : Verified(d, k) \in {"complete", "fail_retry"}
        BY DEF Verified
      <4>b. CallFails(w) => worker'[w].at # "create"
        BY CallTypes
      <4>c. ASSUME NEW step \in Steps, Goto(w, step) PROVE worker'[w].at = step
        BY <1>1, <4>c, GotoEffect
      <4>d. ASSUME NEW key, NEW step, worker' = [worker EXCEPT ![w].key = key, ![w].at = step]
            PROVE  worker'[w].at = step
        <5>1. worker'[w] = [worker[w] EXCEPT !.key = key, !.at = step] /\ worker[w] \in WorkerRecord
          BY <1>1, <4>d
        <5>2. QED
          BY <5>1 DEF WorkerRecord
      <4>1. CASE load_binding(w)
        <5>1. FirstCall(i[2], binding[c].key) # "create"
          BY <1>2 DEF FirstCall, Actions
        <5>2. worker'[w].at = FirstCall(i[2], binding[c].key)
          BY <4>1, <4>d DEF load_binding, Caller, Of
        <5>3. QED
          BY <5>1, <5>2
      <4>2. CASE disable_virtual_key(w)
        BY <4>2, <4>b, <4>c DEF disable_virtual_key, Steps
      <4>3. CASE get_virtual_key_material(w)
        <5>1. Verified(Caller(w), worker[w].key) \in Steps
          BY <4>a DEF Steps
        <5>2. QED
          BY <4>3, <4>a, <4>b, <4>c, <5>1 DEF get_virtual_key_material
      <4>4. CASE find_virtual_key_by_name(w)
        <5>1. Goto(w, "fail_retry") => worker'[w].at = "fail_retry"
          BY <4>c DEF Steps
        <5>2. keys' = keys
          BY <4>4 DEF find_virtual_key_by_name
        <5>3. \/ keys[c] = <<>>
              \/ worker' = [worker EXCEPT ![w].key = 1, ![w].at = Verified(c, 1)]
              \/ Goto(w, "fail_retry") \/ CallFails(w)
          BY <4>4 DEF find_virtual_key_by_name, Caller, Of
        <5>4. worker' = [worker EXCEPT ![w].key = 1, ![w].at = Verified(c, 1)] =>
                worker'[w].at # "create"
          BY <4>a, <4>d
        <5>5. QED
          BY <4>4, <4>b, <5>1, <5>2, <5>3, <5>4
      <4>5. CASE create_virtual_key(w)
        BY <4>5, <4>b, <4>d DEF create_virtual_key
      <4>6. QED
        BY <4>1, <4>2, <4>3, <4>4, <4>5
    <3>2. QED
      BY <3>1
  <2>2. worker'[w].at \in {"disable", "fail_retry", "fail_final", "failing_retry", "failing_final"}
          /\ i[2] = "disable" => binding[c].key # NoKey
    <3>1. CASE load_binding(w)
      <4>1. worker'[w] = [worker[w] EXCEPT !.key = binding[c].key,
                                           !.at = FirstCall(i[2], binding[c].key)]
        BY <1>1, <3>1 DEF load_binding, Caller, Of
      <4>2. worker[w] \in WorkerRecord
        BY <1>1
      <4>3. worker'[w].at = FirstCall(i[2], binding[c].key)
        BY <4>1, <4>2 DEF WorkerRecord
      <4>4. QED
        BY <4>3 DEF FirstCall
    <3>2. CASE disable_virtual_key(w)
      BY <1>3, <3>2 DEF WorkerShows, WorkerAgrees, disable_virtual_key
    <3>3. CASE get_virtual_key_material(w) \/ find_virtual_key_by_name(w) \/ create_virtual_key(w)
      BY <1>3, <3>3 DEF WorkerAgrees, get_virtual_key_material, find_virtual_key_by_name,
           create_virtual_key
    <3>4. QED
      BY <3>1, <3>2, <3>3
  <2>3. QED
    BY <1>0, <1>1, <2>1, <2>2 DEF WorkerShows
<1>8. ASSUME NEW v \in Workers, v # w PROVE WorkerShows(v)'
  <2> DEFINE j == worker[v].doing
  <2>1. WorkerShows(v) /\ worker'[v] = worker[v]
    BY <1>1, <1>8 DEF ShowInv
  <2>2. ASSUME worker[v].at = "create", keys[j[1]] = <<>> PROVE keys'[j[1]] = <<>>
    <3>1. j \in Items /\ j[1] \in Callers /\ j[2] = "create" /\ j = <<j[1], j[2]>> /\ Holds(v, j)
      <4>1. j[2] = "create"
        BY <2>2 DEF KeyInv, WorkerAgrees
      <4>2. QED
        BY <2>2, <4>1, WorkingOn DEF ShowInv
    <3>2. CASE j[1] # c
      BY <1>4, <2>2, <3>1, <3>2
    <3>3. CASE j[1] = c /\ Len(keys'[c]) = Len(keys[c])
      <4>1. Len(keys'[c]) = 0
        BY <2>2, <3>3
      <4>2. keys' \in [Callers -> Seq(BOOLEAN)]
        <5>1. TypeInv'
          BY TypeStep DEF Next, run_once
        <5>2. QED
          BY <5>1 DEF TypeInv, TypeOK
      <4>3. QED
        BY <1>2, <3>3, <4>1, <4>2, EmptySeq
    <3>4. CASE j[1] = c /\ create_virtual_key(w)
      <4>1. i[2] = "create"
        BY <1>3, <3>4 DEF WorkerAgrees, create_virtual_key
      <4>2. i = j
        BY <1>2, <3>1, <3>4, <4>1
      <4>3. QED
        BY <1>2, <1>8, <3>1, <4>2 DEF ShowInv, ClaimInv, Exclusive
    <3>5. CASE j[1] = c /\ keys'[c] = keys[c]
      BY <2>2, <3>5
    <3>6. QED
      BY <1>4, <3>2, <3>3, <3>4, <3>5
  <2>3. QED
    BY <1>0, <2>1, <2>2, ShowsStand
<1>9. QED
  BY <1>6, <1>7, <1>8

\* The transaction of _complete or _fail, as far as it has only read.
LEMMA ShowRead ==
  ASSUME TypeInv, ShowInv, Grows, NEW w \in Workers,
         read_item(w) \/ \E how \in DOMAIN Reading : read_binding(w, how)
  PROVE  /\ \A c \in Callers : CallerShows(c)'
         /\ \A v \in Workers : WorkerShows(v)'
<1> DEFINE i == worker[w].doing
           c == i[1]
<1>0. client' = client /\ binding' = binding /\ item' = item /\ keys' = keys
  BY DEF read_item, read_binding
<1>1. \A v \in Workers : v # w => worker'[v] = worker[v]
  BY ReadItemStep, ReadStep DEF Works
<1>2. worker[w].batch \in Seq(Items) /\ WorkerShows(w)
  BY DEF ShowInv, TypeInv, WorkerRecord
<1>3. \A d \in Callers : CallerShows(d)'
  BY <1>0 DEF ShowInv, CallerShows
<1>4. WorkerShows(w)'
  <2>1. CASE worker'[w] = Idle(worker[w].batch)
    BY <1>2, <2>1, IdleTypes DEF WorkerShows
  <2>2. ASSUME read_item(w), worker'[w] # Idle(worker[w].batch) PROVE WorkerShows(w)'
    <3>1. /\ worker'[w].at = Reading[worker[w].at] /\ worker'[w].doing = i
          /\ worker[w].at \in DOMAIN Reading
      BY <2>2, ReadItemStep
    <3>2. /\ worker'[w].at \in {"completing", "failing_retry", "failing_final"}
          /\ worker'[w].at # "completing" => worker[w].at \in {"fail_retry", "fail_final"}
      BY <3>1, ReadingSteps
    <3>3. QED
      BY <1>0, <1>2, <3>1, <3>2 DEF WorkerShows
  <2>3. ASSUME NEW how \in DOMAIN Reading, read_binding(w, how) PROVE WorkerShows(w)'
    <3> DEFINE write == worker'[w].write
               row == binding[c]
    <3>1. /\ worker'[w].at = "commit" /\ worker'[w].doing = i
          /\ write.how = how /\ worker[w].at = Reading[how]
          /\ write.key.old = row.key /\ write.sync_status.old = row.sync_status
          /\ write.key.new = row.key \/ (/\ write.how = "complete" /\ i[2] = "create"
                                         /\ write.key.new = worker[w].key)
          /\ write.how # "complete" /\ item[i].version = row.version =>
               write.sync_status.new = "error"
      BY <2>3, ReadStep
    <3>2. write.how # "complete" /\ i[2] = "disable" => row.key # NoKey
      BY <1>2, <3>1, ReadingSteps DEF WorkerShows
    <3> HIDE DEF write, row
    <3>3. QED
      BY <1>0, <3>1, <3>2 DEF WorkerShows, write, row
  <2>4. QED
    BY <2>1, <2>2, <2>3
<1>5. ASSUME NEW v \in Workers, v # w PROVE WorkerShows(v)'
  BY <1>0, <1>1, <1>5, ShowsStand DEF ShowInv
<1>6. QED
  BY <1>3, <1>4, <1>5

\* The commit of that transaction.  Nobody else writes the binding while a failure
\* for its current version is being reported: a create can fail for the current
\* version only before the caller is disabled, and a disable only once the create
\* is completed.
LEMMA ShowCommit ==
  ASSUME TypeInv, KeyInv, ShowInv, Grows, NEW w \in Workers, commit(w)
  PROVE  /\ \A c \in Callers : CallerShows(c)'
         /\ \A v \in Workers : WorkerShows(v)'
<1> DEFINE i == worker[w].doing
           c == i[1]
           write == worker[w].write
<1>0. client' = client /\ keys' = keys /\ worker[w].at = "commit"
  BY DEF commit
<1>1. /\ worker'[w] = Idle(worker[w].batch)
      /\ \A v \in Workers : v # w => worker'[v] = worker[v]
      /\ binding'[c].version = binding[c].version
      /\ binding'[c].key = Written(binding[c].key, write.key)
      /\ binding'[c].sync_status = Written(binding[c].sync_status, write.sync_status)
      /\ item'[i].status = IF write.how = "complete" THEN "completed" ELSE "failed"
      /\ item'[i].version = item[i].version
      /\ \A d \in Callers : d # c => binding'[d] = binding[d]
      /\ \A j \in Items : j # i => item'[j] = item[j]
  BY CommitStep DEF Works
<1>2. /\ i \in Items /\ c \in Callers /\ i[2] \in Actions /\ i = <<c, i[2]>> /\ Holds(w, i)
      /\ item[i].status = "processing"
  BY <1>0, WorkingOn DEF ShowInv
<1>3. /\ write.key.new # write.key.old => write.how = "complete" /\ i[2] = "create"
      /\ write.how # "complete" /\ i[2] = "disable" => binding[c].key # NoKey
      /\ write.how # "complete" /\ item[i].version = binding[c].version =>
           write.sync_status.new = "error" /\ write.sync_status.old = binding[c].sync_status
  BY <1>0 DEF ShowInv, WorkerShows
<1>4. CallerShows(c) /\ CallerAgrees(c) /\ VersionCounts(c)
      /\ client[c] \in {"absent", "active", "disabled"}
      /\ <<c, "create">> \in Items /\ <<c, "disable">> \in Items
  BY <1>2 DEF ShowInv, KeyInv, TypeInv, TypeOK, Items, Actions
<1>a. i = <<c, "create">> \/ i = <<c, "disable">>
  BY <1>2 DEF Actions
<1>b. <<c, "create">> # <<c, "disable">>
  OBVIOUS
<1>c. item[<<c, "disable">>].status # "none" => binding[c].version = 3
  <2>1. item[<<c, "disable">>].status # "none" => client[c] = "disabled"
    BY <1>4 DEF CallerAgrees
  <2>2. QED
    BY <1>4, <2>1 DEF VersionCounts
<1>5. ASSUME NEW d \in Callers, d = c PROVE CallerShows(d)'
  <2> HIDE DEF write
  <2>1. binding'[c].key # NoKey => item'[<<c, "create">>].status = "completed"
    <3>1. CASE binding[c].key # NoKey
      <4>1. item[<<c, "create">>].status = "completed"
        BY <1>4, <3>1 DEF CallerShows
      <4>2. i # <<c, "create">>
        BY <1>2, <4>1
      <4>3. QED
        BY <1>1, <1>4, <4>1, <4>2
    <3>2. CASE binding[c].key = NoKey /\ binding'[c].key # NoKey
      <4>1. write.key.new # write.key.old
        BY <1>1, <3>2 DEF Written
      <4>2. write.how = "complete" /\ i = <<c, "create">>
        BY <1>2, <1>3, <4>1
      <4>3. QED
        BY <1>1, <4>2
    <3>3. QED
      BY <3>1, <3>2
  <2>2. item'[<<c, "disable">>].status = "failed" => binding'[c].key # NoKey
    <3>1. item'[<<c, "disable">>].status = "failed" => binding[c].key # NoKey
      <4>1. CASE i = <<c, "disable">>
        BY <1>1, <1>3, <4>1
      <4>2. CASE i # <<c, "disable">>
        BY <1>1, <1>4, <4>2 DEF CallerShows
      <4>3. QED
        BY <4>1, <4>2
    <3>2. QED
      BY <1>2, <3>1 DEF Grows
  <2>3. item'[<<c, "create">>].status # "none" => item'[<<c, "create">>].version = 2
    <3>1. CASE i = <<c, "create">>
      BY <1>1, <1>2, <1>4, <3>1 DEF CallerShows
    <3>2. CASE i # <<c, "create">>
      BY <1>1, <1>4, <3>2 DEF CallerShows
    <3>3. QED
      BY <3>1, <3>2
  <2>4. client'[c] = "absent" => item'[<<c, "create">>].status = "none"
    <3>1. client[c] = "absent" => FALSE
      <4>1. client[c] = "absent" =>
              item[<<c, "create">>].status = "none" /\ item[<<c, "disable">>].status = "none"
        BY <1>4 DEF CallerShows, CallerAgrees
      <4>2. QED
        BY <1>2, <1>a, <4>1
    <3>2. QED
      BY <1>0, <3>1
  <2>5. ASSUME NEW action \in Actions, item'[<<c, action>>].status = "failed",
               item'[<<c, action>>].version = binding'[c].version
        PROVE  binding'[c].sync_status = "error"
    <3>0. <<c, action>> \in Items
      BY <1>2 DEF Items
    <3>1. CASE i = <<c, action>>
      <4>1. write.how # "complete" /\ item[i].version = binding[c].version
        BY <1>1, <2>5, <3>1
      <4>2. QED
        BY <1>1, <1>3, <4>1 DEF Written
    <3>2. CASE i # <<c, action>>
      <4>1. /\ item[<<c, action>>].status = "failed"
            /\ item[<<c, action>>].version = binding[c].version
        BY <1>1, <2>5, <3>0, <3>2
      <4>2. CASE action = "create"
        <5>1. item[<<c, "disable">>].status = "processing"
          BY <1>2, <1>a, <3>2, <4>2
        <5>2. item[<<c, "create">>].version = 2 /\ binding[c].version = 3
          BY <1>4, <1>c, <4>1, <4>2, <5>1 DEF CallerShows
        <5>3. QED
          BY <4>1, <4>2, <5>2
      <4>3. CASE action = "disable"
        <5>1. item[<<c, "create">>].status = "processing"
          BY <1>2, <1>a, <3>2, <4>3
        <5>2. QED
          BY <1>4, <4>1, <4>3, <5>1 DEF CallerShows
      <4>4. QED
        BY <4>2, <4>3 DEF Actions
    <3>3. QED
      BY <3>1, <3>2
  <2>6. Len(keys'[c]) <= 1
    BY <1>0, <1>4 DEF CallerShows
  <2>7. QED
    <3> HIDE DEF c
    <3>1. QED
      BY <1>5, <2>1, <2>2, <2>3, <2>4, <2>5, <2>6 DEF CallerShows
<1>6. ASSUME NEW d \in Callers, d # c PROVE CallerShows(d)'
  <2>1. \A a \in Actions : <<d, a>> \in Items /\ <<d, a>> # i
    BY <1>2, <1>6 DEF Items
  <2>2. \A a \in Actions : item'[<<d, a>>] = item[<<d, a>>]
    BY <1>1, <2>1
  <2>3. binding'[d] = binding[d] /\ CallerShows(d)
    BY <1>1, <1>6 DEF ShowInv
  <2>4. QED
    BY <1>0, <2>2, <2>3 DEF CallerShows, Actions
<1>7. WorkerShows(w)'
  <2>1. worker'[w].at = "next"
    BY <1>1, IdleTypes DEF TypeInv, WorkerRecord
  <2>2. QED
    BY <2>1 DEF WorkerShows
<1>8. ASSUME NEW v \in Workers, v # w PROVE WorkerShows(v)'
  <2> DEFINE j == worker[v].doing
  <2>1. ASSUME worker[v].at = "commit"
        PROVE  /\ item'[j].version = item[j].version
               /\ \/ worker[v].write.how = "complete"
                  \/ item'[j].version # binding'[j[1]].version
                  \/ binding'[j[1]] = binding[j[1]]
    <3>1. /\ j \in Items /\ j[1] \in Callers /\ j[2] \in Actions /\ j = <<j[1], j[2]>> /\ Holds(v, j)
          /\ item[j].status = "processing"
      BY <2>1, WorkingOn DEF ShowInv
    <3>2. i # j
      BY <1>2, <1>8, <3>1 DEF ShowInv, ClaimInv, Exclusive
    <3>3. item'[j] = item[j]
      BY <1>1, <3>1, <3>2
    <3>4. CASE j[1] # c
      BY <1>1, <3>1, <3>3, <3>4
    <3>5. CASE j = <<c, "create">>
      <4>1. i = <<c, "disable">>
        BY <1>a, <3>2, <3>5
      <4>2. item[j].version = 2 /\ binding'[c].version = 3
        BY <1>1, <1>2, <1>4, <1>c, <3>1, <3>5, <4>1 DEF CallerShows
      <4>3. j[1] = c
        BY <3>5
      <4>4. QED
        BY <3>3, <4>2, <4>3
    <3>6. CASE j = <<c, "disable">>
      <4>1. i = <<c, "create">>
        BY <1>a, <3>2, <3>6
      <4>2. binding[c].key = NoKey
        BY <1>2, <1>4, <4>1 DEF CallerShows
      <4>3. worker[v].write.how = "complete"
        BY <2>1, <3>6, <4>2 DEF ShowInv, WorkerShows
      <4>4. QED
        BY <3>3, <4>3
    <3>7. QED
      BY <3>1, <3>4, <3>5, <3>6 DEF Actions
  <2>2. worker'[v] = worker[v] /\ WorkerShows(v)
    BY <1>1, <1>8 DEF ShowInv
  <2>3. QED
    BY <1>0, <2>1, <2>2, ShowsStand
<1>9. QED
  BY <1>5, <1>6, <1>7, <1>8

\* The invariant through every step.
LEMMA ShowInvStep ==
  TypeInv /\ KeyInv /\ (Prompt => ShowInv) /\ [Next]_vars => (Prompt' => ShowInv')
<1> SUFFICES ASSUME TypeInv, KeyInv, Prompt => ShowInv, [Next]_vars, Prompt' PROVE ShowInv'
  OBVIOUS
<1>0. Prompt /\ ShowInv
  <2>1. late' = late \/ late' = late + 1
    BY DEF Next, run_once, vars, create_caller, disable_caller, _claim, _load, load_binding,
         disable_virtual_key, get_virtual_key_material, find_virtual_key_by_name,
         create_virtual_key, read_item, read_binding, commit, Crash, Backoff, Expire
  <2>2. late \in Nat /\ late' = 0
    BY OutboxAssumption DEF TypeInv, TypeOK, Prompt
  <2>3. QED
    BY <2>1, <2>2 DEF Prompt
<1>1. ClaimInv'
  BY <1>0, ClaimInvStep DEF ShowInv, CallerShows
<1>2. Grows
  BY KeyInvStep
<1>3. /\ \A c \in Callers : CallerShows(c)'
      /\ \A w \in Workers : WorkerShows(w)'
  <2>1. CASE UNCHANGED vars
    BY <1>0, <2>1 DEF vars, ShowInv, CallerShows, WorkerShows
  <2>2. CASE Next
    BY <1>0, <1>2, <2>2, ShowAdmin, ShowQueue, ShowCall, ShowRead, ShowCommit DEF Next, run_once
  <2>3. QED
    BY <2>1, <2>2
<1>4. QED
  BY <1>1, <1>3 DEF ShowInv

\* Nobody holds anything yet.
LEMMA ShowInvInit == Init => ShowInv
<1> SUFFICES ASSUME Init PROVE ShowInv
  OBVIOUS
<1>0. \A w \in Workers : worker[w] = Idle(<<>>)
  BY DEF Init
<1>1. \A w \in Workers : worker[w].batch = <<>> /\ worker[w].doing = <<>> /\ worker[w].at = "next"
  BY <1>0, IdleTypes, EmptyBatch
<1>2. ClaimInv
  <2>1. \A w \in Workers, i \in Items : ~Holds(w, i)
    BY <1>1, ItemIsPair, EmptyBatch DEF Holds, Of
  <2>2. QED
    BY <1>1, <2>1, EmptyBatch DEF ClaimInv, Exclusive, Apart
<1>3. ASSUME NEW c \in Callers PROVE CallerShows(c)
  <2>1. binding[c].key = NoKey /\ keys[c] = <<>>
    BY DEF Init
  <2>2. \A a \in Actions : item[<<c, a>>].status = "none"
    BY DEF Init, NotStaged, Items
  <2>3. item[<<c, "create">>].status = "none" /\ item[<<c, "disable">>].status = "none"
    BY <2>2 DEF Actions
  <2>4. QED
    BY <2>1, <2>2, <2>3 DEF CallerShows
<1>4. \A w \in Workers : WorkerShows(w)
  BY <1>1 DEF WorkerShows
<1>5. QED
  BY <1>2, <1>3, <1>4 DEF ShowInv

\* The invariant holds in every behaviour.
LEMMA ShowInvHolds == Spec => [](Prompt => ShowInv)
<1>1. Init => (Prompt => ShowInv)
  BY ShowInvInit
<1>2. TypeInv /\ KeyInv /\ (Prompt => ShowInv) /\ [Next]_vars => (Prompt => ShowInv)'
  BY ShowInvStep
<1>3. QED
  BY <1>1, <1>2, KeyInvHolds, PTL DEF Spec

\* As long as no worker has outlasted the claim timeout, no two workers work on the
\* same item, for any number of workers, crashes and failed calls.
THEOREM ClaimsAreExclusive == Spec => []ClaimIsExclusive
<1>1. (Prompt => ShowInv) => ClaimIsExclusive
  BY DEF Prompt, ShowInv, ClaimInv, Exclusive, ClaimIsExclusive
<1>2. QED
  BY <1>1, ShowInvHolds, PTL

\* Until then Bifrost never has two keys for one caller, however many replies to a
\* creation are lost and however many workers die.
THEOREM KeysAreNotDoubled == Spec => []OneKeyPerCaller
<1>1. (Prompt => ShowInv) => OneKeyPerCaller
  BY DEF Prompt, ShowInv, CallerShows, OneKeyPerCaller
<1>2. QED
  BY <1>1, ShowInvHolds, PTL

\* Until then an item that is given up shows as an error in the binding of its
\* caller, unless something newer has been asked for.
THEOREM FailuresAreVisible == Spec => []FailureIsVisible
<1>1. (Prompt => ShowInv) => FailureIsVisible
  <2> SUFFICES ASSUME ShowInv, NEW i \in Items, item[i].status = "failed",
                      item[i].version = binding[i[1]].version
               PROVE  binding[i[1]].sync_status = "error"
    BY DEF FailureIsVisible, Prompt
  <2>1. i[1] \in Callers /\ i[2] \in Actions /\ i = <<i[1], i[2]>>
    BY ItemIsPair
  <2>2. CallerShows(i[1])
    BY <2>1 DEF ShowInv
  <2>3. QED
    BY <2>1, <2>2 DEF CallerShows
<1>2. QED
  BY <1>1, ShowInvHolds, PTL

\* Neither a key nor its record in a binding nor an item ever disappears.
THEOREM NothingIsLost == Spec => [][Grows]_vars
<1>1. TypeInv /\ KeyInv /\ [Next]_vars => [Grows]_vars
  BY KeyInvStep
<1>2. QED
  BY <1>1, KeyInvHolds, PTL DEF Spec

=============================================================================
