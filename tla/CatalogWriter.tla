---------------------------- MODULE CatalogWriter ----------------------------
(***************************************************************************)
(* writeCatalog of cmd/xkeen-config-demo: runs of the command, each a      *)
(* process, that write the files of a catalog into one directory.  Between *)
(* the reading of the directory and every system call after it the others  *)
(* go on: other runs, and strangers that create files of any name.  A call *)
(* may fail and a run may be killed.  Nobody but a run that rolls back     *)
(* deletes a file.                                                         *)
(*                                                                         *)
(* The names are those of AssembleXrayCatalog, which writeCatalog accepts. *)
(* What a file holds is reduced to whether a run has written all of it.    *)
(***************************************************************************)
EXTENDS Naturals, SequencesExt

CONSTANTS
    Writer,     \* the runs
    Files,      \* the names of the catalog's files, in order
    Others,     \* other names a file in the directory may have
    Nobody,     \* the owner of a name that is free
    Before,     \* owns the files that were there before all runs
    Stranger    \* owns the files created by other programs

ASSUME FilesAssumption == Files \in Seq(Range(Files)) /\ IsInjective(Files)
ASSUME OwnersAssumption ==
    /\ {Nobody, Before, Stranger} \cap Writer = {}
    /\ Nobody # Before /\ Nobody # Stranger /\ Before # Stranger

VARIABLES
    owner,      \* whose file has a name
    complete,   \* names of the files a run has written in full
    pc,         \* where a run is
    created,    \* the files a run has created and, once it rolls back, not tried to remove
    leftover,   \* names of the files a run failed to remove
    calm        \* whether no call fails, no run is killed and no stranger shows up, ever

writerVars == <<owner, complete, pc, created, leftover, calm>>

Name  == Range(Files) \cup Others
Final == {"ok", "failed", "killed"}

WriterTypeOK ==
    /\ owner \in [Name -> Writer \cup {Nobody, Before, Stranger}]
    /\ complete \subseteq Name
    /\ pc \in [Writer -> {"list", "open", "write", "close", "remove"} \cup Final]
    /\ created \in [Writer -> Seq(Range(Files))]
    /\ leftover \subseteq Name
    /\ calm \in BOOLEAN

WriterInit ==
    /\ owner \in [Name -> {Nobody, Before}]
    /\ complete = {}
    /\ pc = [w \in Writer |-> "list"]
    /\ created = [w \in Writer |-> <<>>]
    /\ leftover = {}
    /\ calm \in BOOLEAN

Goto(w, label) == pc' = [pc EXCEPT ![w] = label]

-----------------------------------------------------------------------------

\* os.ReadDir: the directory has to be empty.
List(w) ==
    /\ pc[w] = "list"
    /\ Goto(w, IF \A name \in Name : owner[name] = Nobody THEN "open" ELSE "failed")
    /\ UNCHANGED <<owner, complete, created, leftover>>

ListFails(w) ==
    /\ pc[w] = "list"
    /\ Goto(w, "failed")
    /\ UNCHANGED <<owner, complete, created, leftover>>

\* Mutant: the files of the catalog are kept without an order.
NextFile_Unordered(w) == Range(Files) \ Range(created[w])

\* The file the loop comes to.
NextFile(w) == {Files[k] : k \in DOMAIN Files \cap {Len(created[w]) + 1}}

\* Mutant: without O_EXCL a file that is there is truncated.
Open_Truncates(w) ==
    /\ pc[w] = "open"
    /\ \E name \in NextFile(w) :
          /\ owner' = [owner EXCEPT ![name] = w]
          /\ complete' = complete \ {name}
          /\ created' = [created EXCEPT ![w] = Append(@, name)]
          /\ Goto(w, "write")
          /\ UNCHANGED leftover

\* os.OpenFile with O_CREATE and O_EXCL: the name has to be free.
Open(w) ==
    /\ pc[w] = "open"
    /\ \E name \in NextFile(w) :
          \/ /\ owner[name] = Nobody
             /\ owner' = [owner EXCEPT ![name] = w]
             /\ created' = [created EXCEPT ![w] = Append(@, name)]
             /\ Goto(w, "write")
             /\ UNCHANGED <<complete, leftover>>
          \/ /\ owner[name] # Nobody
             /\ Goto(w, "remove")
             /\ UNCHANGED <<owner, complete, created, leftover>>

OpenFails(w) ==
    /\ pc[w] = "open"
    /\ NextFile(w) # {}
    /\ Goto(w, "remove")
    /\ UNCHANGED <<owner, complete, created, leftover>>

\* All files are there: writeCatalog returns nil.
Succeed(w) ==
    /\ pc[w] = "open"
    /\ NextFile(w) = {}
    /\ Goto(w, "ok")
    /\ UNCHANGED <<owner, complete, created, leftover>>

Write(w) ==
    /\ pc[w] = "write"
    /\ complete' = complete \cup {Last(created[w])}
    /\ Goto(w, "close")
    /\ UNCHANGED <<owner, created, leftover>>

\* The error is looked at after the file is closed.
WriteFails(w) ==
    /\ pc[w] = "write"
    /\ Goto(w, "close")
    /\ UNCHANGED <<owner, complete, created, leftover>>

\* Mutant: the error of the write is lost.
Close_Forgets(w) ==
    /\ pc[w] = "close"
    /\ Goto(w, "open")
    /\ UNCHANGED <<owner, complete, created, leftover>>

Close(w) ==
    /\ pc[w] = "close"
    /\ Goto(w, IF Last(created[w]) \in complete THEN "open" ELSE "remove")
    /\ UNCHANGED <<owner, complete, created, leftover>>

CloseFails(w) ==
    /\ pc[w] = "close"
    /\ Goto(w, "remove")
    /\ UNCHANGED <<owner, complete, created, leftover>>

-----------------------------------------------------------------------------
(* The deferred rollback.  It goes by path: it removes what has the name. *)

\* Mutant: the loop ends with the first file.
RollBack_OnlyFirst(w) ==
    /\ pc[w] = "remove"
    /\ created[w] # <<>>
    /\ owner' = [owner EXCEPT ![Head(created[w])] = Nobody]
    /\ complete' = complete \ {Head(created[w])}
    /\ created' = [created EXCEPT ![w] = <<>>]
    /\ UNCHANGED <<pc, leftover>>

RollBack(w) ==
    /\ pc[w] = "remove"
    /\ created[w] # <<>>
    /\ owner' = [owner EXCEPT ![Head(created[w])] = Nobody]
    /\ complete' = complete \ {Head(created[w])}
    /\ created' = [created EXCEPT ![w] = Tail(@)]
    /\ UNCHANGED <<pc, leftover>>

\* The error of os.Remove is dropped.
RollBackFails(w) ==
    /\ pc[w] = "remove"
    /\ created[w] # <<>>
    /\ leftover' = leftover \cup {Head(created[w])}
    /\ created' = [created EXCEPT ![w] = Tail(@)]
    /\ UNCHANGED <<owner, complete, pc>>

Fail(w) ==
    /\ pc[w] = "remove"
    /\ created[w] = <<>>
    /\ Goto(w, "failed")
    /\ UNCHANGED <<owner, complete, created, leftover>>

-----------------------------------------------------------------------------
(* The surroundings *)

\* A killed run does not roll back.
Kill(w) ==
    /\ pc[w] \notin Final
    /\ Goto(w, "killed")
    /\ UNCHANGED <<owner, complete, created, leftover>>

StrangerCreates(name) ==
    /\ owner[name] = Nobody
    /\ owner' = [owner EXCEPT ![name] = Stranger]
    /\ UNCHANGED <<complete, pc, created, leftover>>

-----------------------------------------------------------------------------

Step(w) == List(w) \/ Open(w) \/ Succeed(w) \/ Write(w) \/ Close(w) \/ RollBack(w) \/ Fail(w)

Fault(w) ==
    \/ ListFails(w) \/ OpenFails(w) \/ WriteFails(w) \/ CloseFails(w) \/ RollBackFails(w)
    \/ Kill(w)

WriterNext ==
    /\ \/ \E w \in Writer : Step(w)
       \/ ~calm /\ \E w \in Writer : Fault(w)
       \/ ~calm /\ \E name \in Name : StrangerCreates(name)
    /\ UNCHANGED calm

WriterSpec == WriterInit /\ [][WriterNext]_writerVars

\* The system schedules every run.
FairWriterSpec == WriterSpec /\ \A w \in Writer : WF_writerVars(Step(w) /\ UNCHANGED calm)

-----------------------------------------------------------------------------

\* A run that succeeded has written every file of the catalog, in full and
\* itself, and nothing that was there before is among them ("never mixes a
\* candidate with previous files").
SuccessIsWhole ==
    \A w \in Writer :
        pc[w] = "ok" =>
            /\ \A name \in Range(Files) : owner[name] = w /\ name \in complete
            /\ \A name \in Name : owner[name] # Before

\* A run that failed has left nothing but files that could not be removed.
FailureLeavesNothing ==
    \A w \in Writer, name \in Name :
        pc[w] = "failed" /\ owner[name] = w => name \in leftover

\* Once a name is taken it changes hands only when the run that created the file
\* rolls it back, although the rollback goes by path and other runs create files
\* of the same names ("removes only files it created").
TakenUntilRollback ==
    [][\A name \in Name :
         owner[name] # Nobody /\ owner'[name] # owner[name] =>
            /\ owner[name] \in Writer
            /\ pc[owner[name]] = "remove"
            /\ created[owner[name]] # created'[owner[name]]]_writerVars

\* Without faults, of the runs that start in an empty directory one succeeds:
\* they never make each other fail.
SomeRunSucceeds ==
    calm /\ (\A name \in Name : owner[name] = Nobody) => <>(\E w \in Writer : pc[w] = "ok")
=============================================================================
