---------------------------- MODULE ResultCache ----------------------------
(****************************************************************************)
(* The result cache: an item is looked up before it is submitted, restored  *)
(* on a hit, and stored under the key of its submission once it has         *)
(* completed.  (runs/cache.py with probe_cache_for_task,                    *)
(* _try_restore_from_cache, _after_item_completed and _maybe_store_cache of *)
(* runs/manager.py)                                                         *)
(*                                                                          *)
(* Every run has one item, all with the same command and environment.  What *)
(* a job writes is determined by the commit and the inputs it has read, so  *)
(* that content is represented by these.  An action is the code between two *)
(* awaits; the other runs, the jobs and the users go on in between.         *)
(****************************************************************************)
EXTENDS Naturals, FiniteSets

CONSTANTS
    Runs,       \* the ids of the runs
    DirOf,      \* run -> working directory
    CommitOf,   \* run -> commit of the source
    Scope,      \* task.cache_scope: "commit" or "inputs"
    Patterns,   \* task.inputs
    Optional,   \* the inputs that may be missing
    Versions,   \* the contents an input may have
    Faults,     \* which of the remote steps may fail
    Quiet,      \* nobody edits the inputs while an item of the directory is busy
    MaxEdits,   \* bound: edits of input files
    MaxReruns   \* bound: reruns

VARIABLES
    inputs,     \* directory -> pattern -> version, or Missing
    outs,       \* directory -> what the output files hold
    spoiled,    \* runs whose outputs are in part what others wrote (history)
    ac,         \* key -> manifest of the store, or NoEntry
    cas,        \* blobs of the store
    item,       \* run -> its item with the progress of its coroutine
    job,        \* run -> its job in the scheduler
    edits, reruns

vars == <<inputs, outs, spoiled, ac, cas, item, job, edits, reruns>>

Missing == 0
Dirs    == {DirOf[r] : r \in Runs}
Commit(r) == IF Scope = "commit" THEN CommitOf[r] ELSE "any"
InputMaps == {m \in [Patterns -> Versions \cup {Missing}] :
                \A p \in Patterns \ Optional : m[p] # Missing}
\* compute_key: two keys are equal iff all of their parts are.  A missing
\* file is no part of the map of hashes.
Keys == [commit : {Commit(r) : r \in Runs}, inputs : InputMaps]
\* What a command writes that has read these inputs; ok: it ran to its end.
Content == [commit : {Commit(r) : r \in Runs}, inputs : InputMaps, ok : BOOLEAN]

None      == [none |-> TRUE]
NoEntry   == None
Unhashed  == None   \* hash_inputs returned None, or has not been called

Fresh == [pc |-> "pending", key |-> None, hashes |-> None, entry |-> None, hit |-> FALSE]

Init ==
    /\ inputs \in [Dirs -> InputMaps]
    /\ outs = [d \in Dirs |-> None] /\ spoiled = {}
    /\ ac = [k \in Keys |-> NoEntry] /\ cas = {}
    /\ item = [r \in Runs |-> Fresh] /\ job = [r \in Runs |-> None]
    /\ edits = 0 /\ reruns = 0

Outputs == <<outs, spoiled>>
Store == <<ac, cas>>
World == <<inputs, edits, reruns>>
May(fault) == fault \in Faults
Goto(r, pc) == item' = [item EXCEPT ![r].pc = pc]
Result(r, ok) == [commit |-> Commit(r), inputs |-> job[r].saw, ok |-> ok]

\* The item is between the hashing of its inputs and the end of its hooks.
Busy(r) == item[r].pc \notin {"pending", "failed", "done"} \/ job[r] # None

-----------------------------------------------------------------------------
(* Submission: submit_task with the probe and the restoration.              *)

\* hash_inputs: files that are there are hashed, and a pattern without a file
\* goes unnoticed as long as another has one (the exit code is that of the end
\* of the pipe).  When nothing is found, or the command fails, the item has no
\* new key and is submitted.
hash_inputs(r) ==
    /\ item[r].pc = "pending"
    /\ \/ /\ \E p \in Patterns : inputs[DirOf[r]][p] # Missing
          /\ item' = [item EXCEPT ![r].pc = "lookup",
                        ![r].key = [commit |-> Commit(r), inputs |-> inputs[DirOf[r]]]]
       \/ /\ May("hash") \/ \A p \in Patterns : inputs[DirOf[r]][p] = Missing
          /\ Goto(r, "submit")
    /\ UNCHANGED <<Outputs, Store, job, World>>

\* lookup: an error is a miss.
lookup(r) ==
    /\ item[r].pc = "lookup"
    /\ LET entry == ac[item[r].key]
       IN  IF entry = NoEntry THEN Goto(r, "submit")
           ELSE \/ item' = [item EXCEPT ![r].pc = "restore", ![r].entry = entry]
                \/ May("lookup") /\ Goto(r, "submit")
    /\ UNCHANGED <<Outputs, Store, job, World>>

Hit(r) == item' = [item EXCEPT ![r].pc = "completed", ![r].hit = TRUE,
                               ![r].hashes = item[r].entry.hashes]
Torn(content) == [content EXCEPT !.ok = FALSE]

\* Runs of one commit, and runs of a path source, share a directory.
Sharing(r) == {x \in Runs : DirOf[x] = DirOf[r]}

\* Run r leaves content in its directory, of which it writes the whole or a
\* part: the part of one run spoils the outputs of the others.
Leaves(r, content) ==
    /\ outs' = [outs EXCEPT ![DirOf[r]] = content]
    /\ spoiled' = IF content.ok THEN spoiled \ Sharing(r) ELSE spoiled \cup (Sharing(r) \ {r})

\* restore that takes a failed extraction for a success.
restore_unchecked(r) ==
    /\ item[r].pc = "restore"
    /\ LET blob == item[r].entry.blob
       IN  \/ Leaves(r, blob)
           \/ May("restore") /\ Leaves(r, Torn(blob))
    /\ Hit(r)
    /\ UNCHANGED <<Store, job, World>>

\* restore: a failure may leave half of the files behind, and the item is
\* submitted after all.
restore(r) ==
    /\ item[r].pc = "restore"
    /\ LET blob == item[r].entry.blob
       IN  \/ Leaves(r, blob) /\ Hit(r)
           \/ /\ May("restore")
              /\ Leaves(r, Torn(blob)) \/ UNCHANGED Outputs
              /\ Goto(r, "submit")
    /\ UNCHANGED <<Store, job, World>>

submit_task(r) ==
    /\ item[r].pc = "submit"
    /\ \/ job' = [job EXCEPT ![r] = [st |-> "queued"]] /\ Goto(r, "submitted")
       \/ job' = job /\ Goto(r, "failed")
    /\ UNCHANGED <<Outputs, Store, inputs, edits, reruns>>

-----------------------------------------------------------------------------
(* The job, and the verdict of the poll.                                    *)

JobReads(r) ==
    /\ job[r] # None /\ job[r].st = "queued"
    /\ job' = [job EXCEPT ![r] = [st |-> "running", saw |-> inputs[DirOf[r]]]]
    /\ UNCHANGED <<Outputs, Store, item, World>>

\* The job is writing: its outputs are there in part.
JobOverwrites(r) ==
    /\ job[r] # None /\ job[r].st = "running"
    /\ Leaves(r, Result(r, FALSE))
    /\ UNCHANGED <<Store, item, job, World>>

JobWrites(r, ok) ==
    /\ job[r] # None /\ job[r].st = "running"
    /\ Leaves(r, Result(r, ok))
    /\ job' = [job EXCEPT ![r] = [st |-> "ended", ok |-> ok]]
    /\ UNCHANGED <<Store, item, World>>

\* The verdict of accounting; a job of which accounting has no row becomes
\* COMPLETED all the same after a while.  Only COMPLETED runs the hooks.
Verdict(r) ==
    /\ item[r].pc = "submitted" /\ job[r].st = "ended"
    /\ \/ Goto(r, IF job[r].ok THEN "completed" ELSE "failed")
       \/ May("unconfirmed") /\ Goto(r, "completed")
    /\ job' = [job EXCEPT ![r] = None]
    /\ UNCHANGED <<Outputs, Store, World>>

-----------------------------------------------------------------------------
(* The hooks of a completed item.                                           *)

\* The outputs are hashed unless the item has hashes already.
_after_item_completed(r) ==
    /\ item[r].pc = "completed"
    /\ \/ item' = [item EXCEPT ![r].pc = "hashed",
                     ![r].hashes = IF @ # Unhashed THEN @ ELSE outs[DirOf[r]]]
       \/ May("hash_outputs") /\ Goto(r, "hashed")
    /\ UNCHANGED <<Outputs, Store, job, World>>

\* The blob is there: the manifest is next.  spoiled is no part of it, but
\* remembers that the outputs had been overwritten in part (history).
Uploads(r) == item' = [item EXCEPT ![r].pc = "upload",
                         ![r].entry = [blob |-> outs[DirOf[r]], hashes |-> item[r].hashes,
                                        spoiled |-> r \in spoiled]]

\* store that goes on to the manifest when the upload of the blob has failed.
StoreBlob_unchecked(r) ==
    /\ item[r].pc = "hashed"
    /\ IF item[r].hit \/ item[r].key = None
       THEN Goto(r, "done") /\ UNCHANGED Store
       ELSE /\ \/ cas' = cas \cup {outs[DirOf[r]]}
               \/ May("store") /\ cas' = cas
            /\ Uploads(r)
            /\ UNCHANGED ac
    /\ UNCHANGED <<Outputs, job, World>>

\* store: tar and upload the blob under its content hash.  A hit and an item
\* without a key store nothing.
StoreBlob(r) ==
    /\ item[r].pc = "hashed"
    /\ IF item[r].hit \/ item[r].key = None
       THEN Goto(r, "done") /\ UNCHANGED Store
       ELSE \/ /\ cas' = cas \cup {outs[DirOf[r]]}
               /\ Uploads(r)
               /\ UNCHANGED ac
            \/ May("store") /\ Goto(r, "done") /\ UNCHANGED Store
    /\ UNCHANGED <<Outputs, job, World>>

\* store: the manifest goes up last.
StoreManifest(r) ==
    /\ item[r].pc = "upload"
    /\ \/ ac' = [ac EXCEPT ![item[r].key] = item[r].entry]
       \/ May("store") /\ UNCHANGED ac
    /\ Goto(r, "done")
    /\ UNCHANGED <<Outputs, cas, job, World>>

\* rerun_in_place keeps the key, the hashes and the mark of a hit.
rerun_in_place(r) ==
    /\ item[r].pc \in {"failed", "done"} /\ reruns < MaxReruns
    /\ Goto(r, "pending") /\ reruns' = reruns + 1
    /\ UNCHANGED <<Outputs, Store, job, inputs, edits>>

\* Somebody changes, adds or removes an input file.
EditInput(d) ==
    /\ edits < MaxEdits /\ edits' = edits + 1
    /\ Quiet => \A r \in Runs : DirOf[r] = d => ~Busy(r)
    /\ \E m \in InputMaps : /\ Cardinality({p \in Patterns : m[p] # inputs[d][p]}) = 1
                            /\ inputs' = [inputs EXCEPT ![d] = m]
    /\ UNCHANGED <<Outputs, Store, item, job, reruns>>

Next ==
    \/ \E r \in Runs :
          \/ hash_inputs(r) \/ lookup(r) \/ restore(r) \/ submit_task(r)
          \/ JobReads(r) \/ JobOverwrites(r) \/ JobWrites(r, TRUE) \/ JobWrites(r, FALSE)
          \/ Verdict(r)
          \/ _after_item_completed(r) \/ StoreBlob(r) \/ StoreManifest(r)
          \/ rerun_in_place(r)
    \/ \E d \in Dirs : EditInput(d)

Spec == Init /\ [][Next]_vars

-----------------------------------------------------------------------------
(* Properties.                                                              *)

TypeOK ==
    /\ inputs \in [Dirs -> InputMaps]
    /\ \A d \in Dirs : outs[d] = None \/ outs[d] \in Content
    /\ \A k \in Keys : ac[k] = NoEntry \/ ac[k].blob \in cas \cup {None}
    /\ cas \subseteq Content \cup {None}
    /\ spoiled \subseteq Runs

\* "A cache never replaces work it can't prove reusable": when an item is
\* completed from the cache, its outputs are those that its own job would have
\* written from the inputs of its key.  The one hole is a shared directory: an
\* entry stored while another run had overwritten the outputs in part.
HitIsTrue ==
    [][\A r \in Runs : item'[r].hit /\ item[r].pc = "restore" /\ item'[r].pc = "completed" =>
          \/ outs'[DirOf[r]] = [commit |-> Commit(r), inputs |-> item[r].key.inputs, ok |-> TRUE]
          \/ item[r].entry.spoiled]_vars

\* The store never has a manifest for a blob it does not have, whatever
\* upload has failed and however many items store at the same time.
ManifestHasBlob == \A k \in Keys : ac[k] = NoEntry \/ ac[k].blob \in cas

\* (violated) "hit and miss report identical hashes for identical work": the
\* hashes in a manifest are those of its blob.
HashesAgree == \A k \in Keys : ac[k] = NoEntry \/ ac[k].hashes \in {Unhashed, ac[k].blob}
=============================================================================
