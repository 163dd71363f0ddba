--------------------------- MODULE CredentialSetup ---------------------------
(***************************************************************************)
(* The credential store of one user and the guardian command line that     *)
(* enrols and revokes credentials in it.                                   *)
(*                                                                         *)
(* A slot holds the number of a credential or Missing.  GitHub's App       *)
(* credential is a pair of tokens issued together and the metadata that    *)
(* dates them: three slots, written one after the other, the metadata last *)
(* as the commit marker.  A research key is one slot, entered in a         *)
(* one-time page served on the loopback interface.  Every access to the    *)
(* store is a helper process that may fail; a write or a deletion that     *)
(* fails, or whose helper is killed by its timeout, may have taken effect. *)
(*                                                                         *)
(* The command line runs one command at a time: cli is that command.       *)
(***************************************************************************)
EXTENDS Integers, Sequences

CONSTANTS
    MaxPairs,  \* bound: pairs and tokens GitHub issues
    MaxKeys,   \* bound: research keys entered
    FirstAge,  \* how long before time 0 the first pair was issued
    MaxTime    \* bound: last value of the clock

ASSUME SetupBounds == MaxPairs \in Nat \ {0} /\ MaxKeys \in Nat /\ MaxTime \in Nat /\ FirstAge \in Nat

Missing == 0
GitHubSlots == {"default", "refresh", "metadata"}
Slots == GitHubSlots \cup {"research"}

\* Faulty variant: the commit marker first.
MarkerFirst == <<"metadata", "refresh", "default">>

\* How setup and rotation write, and how setup reads and revoke deletes.
WriteOrder == <<"refresh", "default", "metadata">>
ReadOrder == <<"default", "refresh", "metadata">>

Commands == {"none", "enroll", "local", "review", "revoke"}
Phases == {"idle", "authorize", "surface", "verify", "snapshot", "write", "restore", "delete"}
\* What a command reports: ended ones only, "none" while one runs.
Outcomes == {"none", "stored", "failed", "rollback_failed", "cancelled", "expired",
             "discarded", "deleted", "killed"}

VARIABLES
    clock,    \* the host's clock and GitHub's
    keyring,  \* what each slot holds
    pairs,    \* the tokens issued, and the date their metadata gives them
    keys,     \* how many research keys were entered
    cli,      \* the running command, or what the last one reported
    raced,    \* history: a command and a rotation were writing at once
    unwound   \* history: an enrolment began to put back what it had replaced

setupVars == <<clock, keyring, pairs, keys, cli, raced, unwound>>

\* todo: the slots still to handle, in order; saved: the snapshot taken of each
\* slot; left: those still to put back, in any order; consumed: the one-time flag
\* of the page; clean: no restoring write failed.
Idle(outcome) ==
    [command |-> "none", phase |-> "idle", new |-> Missing, todo |-> <<>>,
     saved |-> [s \in {} |-> Missing], left |-> {}, consumed |-> FALSE, clean |-> TRUE,
     outcome |-> outcome]

\* What GitHub issues: a pair or, with an App key, a token of its own.
Issued(by) == [issued |-> clock, dated |-> clock, by |-> by, spent |-> FALSE]

\* An earlier enrolment may be there; one made before metadata existed has none.
SetupInit ==
    /\ clock = 0
    /\ \E enrolled \in {{}, {"default", "refresh"}, GitHubSlots} :
           keyring = [s \in Slots |-> IF s \in enrolled THEN 1 ELSE Missing]
    /\ pairs = <<[Issued("setup") EXCEPT !.issued = -FirstAge, !.dated = -FirstAge]>>
    /\ keys = 0
    /\ cli = Idle("none")
    /\ raced = FALSE
    /\ unwound = FALSE

-----------------------------------------------------------------------------
(* The store.                                                              *)

\* status and use: the slot as the helper finds it.
Held(slot) == keyring[slot]

\* write: an answer other than success leaves the old value or the new one.
Write(slot, value, ok) ==
    \/ keyring' = [keyring EXCEPT ![slot] = value]
    \/ ~ok /\ UNCHANGED keyring

\* delete: a slot that is already missing is no failure.
Delete(slot, ok) == Write(slot, Missing, ok)

-----------------------------------------------------------------------------
(* The command line: how a command starts and obtains a credential.        *)

Running(command, phase) == cli.command = command /\ cli.phase = phase

Begin(command, phase) ==
    /\ cli.phase = "idle"
    /\ cli' = [Idle("none") EXCEPT !.command = command, !.phase = phase]
    /\ UNCHANGED <<clock, keyring, pairs, keys, raced, unwound>>

End(outcome) ==
    /\ cli' = Idle(outcome)
    /\ UNCHANGED <<clock, keyring, pairs, keys, raced, unwound>>

\* runGitHubDeviceSetup asks for the device code once the store has answered.
StartEnroll == Begin("enroll", "authorize")

\* The user denies the code or lets it lapse, or GitHub's answer is no pair.
AuthorizationFails == Running("enroll", "authorize") /\ End("failed")

\* The user enters the code and a poll returns the pair.
Authorize(rotating) ==
    /\ Running("enroll", "authorize")
    /\ Len(pairs) < MaxPairs
    /\ pairs' = Append(pairs, Issued("setup"))
    /\ cli' = [cli EXCEPT !.phase = "verify", !.new = Len(pairs) + 1]
    /\ raced' = (raced \/ rotating)
    /\ UNCHANGED <<clock, keyring, keys, unwound>>

\* The one-time page, to store a key or to show what storing one looks like.
StartLocal == Begin("local", "surface")
StartReview == Begin("review", "surface")

OnSurface == cli.command \in {"local", "review"} /\ cli.phase = "surface"

\* The page's script sends one of two requests; whichever comes first
\* consumes the page, and a submission does so before its body is read.
SurfaceCancel == OnSurface /\ ~cli.consumed /\ End("cancelled")

SurfaceSubmit ==
    /\ OnSurface
    /\ ~cli.consumed
    /\ cli' = [cli EXCEPT !.consumed = TRUE]
    /\ UNCHANGED <<clock, keyring, pairs, keys, raced, unwound>>

\* The timer leaves a page alone that has accepted a request.
SurfaceExpires == OnSurface /\ ~cli.consumed /\ End("expired")

\* The body is malformed, is a value under review, or is a key to verify.
SurfaceRead ==
    /\ OnSurface
    /\ cli.consumed
    /\ \/ End("failed")
       \/ cli.command = "review" /\ End("discarded")
       \/ /\ cli.command = "local"
          /\ keys < MaxKeys
          /\ keys' = keys + 1
          /\ cli' = [cli EXCEPT !.phase = "verify", !.new = keys + 1]
          /\ UNCHANGED <<clock, keyring, pairs, raced, unwound>>

\* The slots of the running command, in the given order.
Handled(order) == IF cli.command = "local" THEN <<"research">> ELSE order

\* The provider's own endpoint is asked about the credential.
Verify ==
    /\ cli.phase = "verify"
    /\ \/ End("failed")
       \/ /\ cli' = [cli EXCEPT !.phase = "snapshot", !.todo = Handled(ReadOrder)]
          /\ UNCHANGED <<clock, keyring, pairs, keys, raced, unwound>>

-----------------------------------------------------------------------------
(* The command line: how it stores, puts back and deletes.                 *)

\* snapshotCredentials: the next slot; one that cannot be read ends the
\* command before anything is written.
Snapshot ==
    /\ cli.phase = "snapshot"
    /\ \/ End("failed")
       \/ LET slot == Head(cli.todo)
              rest == Tail(cli.todo)
              saved == [s \in DOMAIN cli.saved \cup {slot} |->
                            IF s = slot THEN Held(slot) ELSE cli.saved[s]] IN
          /\ cli' = IF rest = <<>>
                    THEN [cli EXCEPT !.saved = saved, !.phase = "write",
                                     !.todo = Handled(WriteOrder)]
                    ELSE [cli EXCEPT !.saved = saved, !.todo = rest]
          /\ UNCHANGED <<clock, keyring, pairs, keys, raced, unwound>>

\* After a write that failed every slot of the snapshot is put back.
Unwind == [cli EXCEPT !.phase = "restore", !.todo = <<>>, !.left = DOMAIN cli.saved]

\* The three writes of an enrolment.  The metadata is dated when it is
\* written, some time after GitHub issued the pair.
EnrollWrite(ok) ==
    /\ Running("enroll", "write")
    /\ LET slot == Head(cli.todo) IN
       /\ Write(slot, cli.new, ok)
       /\ pairs' = IF slot = "metadata" THEN [pairs EXCEPT ![cli.new].dated = clock] ELSE pairs
    /\ cli' = IF ~ok THEN Unwind
              ELSE IF Len(cli.todo) = 1 THEN Idle("stored")
              ELSE [cli EXCEPT !.todo = Tail(cli.todo)]
    /\ unwound' = (unwound \/ ~ok)
    /\ UNCHANGED <<clock, keys, raced>>

\* verifyAndStoreCredential: the one write of a key.
LocalWrite(ok) ==
    /\ Running("local", "write")
    /\ Write("research", cli.new, ok)
    /\ cli' = IF ok THEN Idle("stored") ELSE Unwind
    /\ UNCHANGED <<clock, pairs, keys, raced, unwound>>

\* Faulty variant: a rollback that could not be completed goes unreported.
ForgivingReport(clean) == "failed"

\* What is told of a rollback: the page tells only that the submission failed.
Told(clean) == IF clean \/ cli.command = "local" THEN "failed" ELSE "rollback_failed"

\* restoreCredentialSnapshots: the slots are put back side by side, and one
\* that fails does not stop the others.
Restore(slot, ok) ==
    /\ cli.phase = "restore"
    /\ slot \in cli.left
    /\ Write(slot, cli.saved[slot], ok)
    /\ LET clean == cli.clean /\ ok
           rest == cli.left \ {slot} IN
       cli' = IF rest = {} THEN Idle(Told(clean))
              ELSE [cli EXCEPT !.left = rest, !.clean = clean]
    /\ UNCHANGED <<clock, pairs, keys, raced, unwound>>

\* runGuardianSetupRevoke, once the user has typed the confirmation; a key's
\* revocation handles its one slot.
StartRevoke(rotating) ==
    /\ cli.phase = "idle"
    /\ \E command \in {"revoke", "local"} :
           /\ cli' = [Idle("none") EXCEPT !.command = command, !.phase = "delete",
                          !.todo = IF command = "local" THEN <<"research">> ELSE ReadOrder]
           /\ raced' = (raced \/ (command = "revoke" /\ rotating))
    /\ UNCHANGED <<clock, keyring, pairs, keys, unwound>>

\* Three deletions in order, of which the first that fails ends the command.
RevokeDelete(ok) ==
    /\ cli.phase = "delete"
    /\ Delete(Head(cli.todo), ok)
    /\ cli' = IF ~ok THEN Idle("failed")
              ELSE IF Len(cli.todo) = 1 THEN Idle("deleted")
              ELSE [cli EXCEPT !.todo = Tail(cli.todo)]
    /\ UNCHANGED <<clock, pairs, keys, raced, unwound>>

\* The user ends the process.
Kill == cli.phase # "idle" /\ End("killed")

\* A command that holds a pair of GitHub's to store, or deletes the one stored.
WritingGitHub ==
    cli.command \in {"enroll", "revoke"} /\ cli.phase # "authorize"

SetupNext(rotating) ==
    \/ StartEnroll \/ StartLocal \/ StartReview \/ StartRevoke(rotating)
    \/ AuthorizationFails \/ Authorize(rotating)
    \/ SurfaceCancel \/ SurfaceSubmit \/ SurfaceExpires \/ SurfaceRead
    \/ Verify \/ Snapshot \/ Kill
    \/ \E ok \in BOOLEAN :
           \/ EnrollWrite(ok) \/ LocalWrite(ok) \/ RevokeDelete(ok)
           \/ \E slot \in Slots : Restore(slot, ok)
=============================================================================
