--------------------------- MODULE GitHubCredential ---------------------------
(***************************************************************************)
(* The broker's access to GitHub's credential, over the store that the     *)
(* command line of CredentialSetup writes at the same time.                *)
(*                                                                         *)
(* Under the protected custody the store is the user's keyring: every use  *)
(* reads the metadata, and one that finds the access token about to expire *)
(* rotates the pair, or waits for the rotation that is running.  Under the *)
(* managed custody the store cannot be written: every use mints a token    *)
(* for the repository of the session's connection with the App's key.      *)
(* A broker may stop at any point and another start.                       *)
(*                                                                         *)
(* A unit of the clock is the refresh margin, 60 s.  A helper answers or   *)
(* is killed within 15 s, GitHub within 10 s: at most one unit begins      *)
(* between a use's decision and its reading of the token, at most two      *)
(* during a rotation.                                                      *)
(***************************************************************************)
EXTENDS CredentialSetup

CONSTANTS
    Users,        \* concurrent uses of the credential
    AccessLife,   \* what GitHub gives an access token
    RefreshLife   \* what GitHub gives a refresh token

\* A pair outlives the rotation that obtains it and the read that follows.
ASSUME Lifetimes == AccessLife \in Nat /\ AccessLife >= 4 /\ RefreshLife \in Nat

Margin == 1

\* Read and written with a helper, or read only.
Custodies == {"keyring", "managed"}

VARIABLES
    custody,     \* the store of this broker: the user's keyring, or the App's secrets
    connection,  \* whether the session's active connection is to the installed repository
    uses,        \* each use: where it is, when it decided, what it was handed
    rotation     \* the rotation that is running

brokerVars == <<custody, connection, uses, rotation>>
vars == <<setupVars, brokerVars>>

At(pc) == [pc |-> pc, at |-> IF pc = "token" THEN clock ELSE 0, token |-> Missing]
Quiet == At("idle")
NoRotation == [pc |-> "none", started |-> 0, old |-> Missing, new |-> Missing,
               todo |-> <<>>, left |-> {}]

Rotating == rotation.pc # "none"

Init ==
    /\ SetupInit
    /\ custody \in Custodies
    /\ custody = "managed" => \A s \in Slots : keyring[s] = Missing
    /\ connection \in IF custody = "managed" THEN {"installed", "elsewhere"} ELSE {"elsewhere"}
    /\ uses = [u \in Users |-> Quiet]
    /\ rotation = NoRotation

Spent(p) == p # Missing /\ pairs[p].spent
Fail(u) == uses' = [uses EXCEPT ![u] = Quiet]
Move(u, pc) == uses' = [uses EXCEPT ![u] = At(pc)]

-----------------------------------------------------------------------------
(* One use, keyring custody.                                               *)

Use(u) ==
    /\ uses[u].pc = "idle"
    /\ Move(u, IF custody = "keyring" THEN "status" ELSE "installation")
    /\ UNCHANGED <<setupVars, custody, connection, rotation>>

\* Wait for the rotation that runs, or start one dated now.
JoinRotation(u) ==
    /\ Move(u, "waiting")
    /\ rotation' = IF Rotating THEN rotation
                   ELSE [NoRotation EXCEPT !.pc = "read", !.started = clock]
    /\ raced' = (raced \/ WritingGitHub)

\* #metadata asks for the status first: without metadata the pair is rotated.
ReadStatus(u) ==
    /\ uses[u].pc = "status"
    /\ \/ Fail(u) /\ UNCHANGED <<raced, rotation>>
       \/ Held("metadata") # Missing /\ Move(u, "metadata") /\ UNCHANGED <<raced, rotation>>
       \/ Held("metadata") = Missing /\ JoinRotation(u)
    /\ UNCHANGED <<clock, keyring, pairs, keys, cli, unwound, custody, connection>>

\* Faulty variant: a token is used until the moment it expires.
FreshToTheEnd(p) == pairs[p].dated + AccessLife > clock

\* What #ensureFresh makes of the metadata.
Fresh(p) == pairs[p].dated + AccessLife > clock + Margin
Lapsed(p) == pairs[p].dated + RefreshLife <= clock

ReadMetadata(u) ==
    /\ uses[u].pc = "metadata"
    /\ LET p == Held("metadata") IN
       \/ Fail(u) /\ UNCHANGED <<raced, rotation>>
       \/ /\ p # Missing /\ ~Lapsed(p)
          /\ IF Fresh(p) THEN Move(u, "token") /\ UNCHANGED <<raced, rotation>>
             ELSE JoinRotation(u)
    /\ UNCHANGED <<clock, keyring, pairs, keys, cli, unwound, custody, connection>>

\* The access token is read, and handed to the operation.
ReadToken(u) ==
    /\ uses[u].pc = "token"
    /\ \/ Fail(u)
       \/ /\ Held("default") # Missing
          /\ uses' = [uses EXCEPT ![u].pc = "handed", ![u].token = Held("default")]
    /\ UNCHANGED <<setupVars, custody, connection, rotation>>

Finish(u) ==
    /\ uses[u].pc = "handed"
    /\ Fail(u)
    /\ UNCHANGED <<setupVars, custody, connection, rotation>>

-----------------------------------------------------------------------------
(* The rotation that uses share.                                           *)

\* It is over: the slot is free for the next one and every waiter goes on.
Waiters(pc) ==
    uses' = [u \in Users |->
                IF uses[u].pc # "waiting" THEN uses[u]
                ELSE At(pc)]

EndRotation(pc) ==
    /\ Waiters(pc)
    /\ rotation' = NoRotation

RotateRead ==
    /\ rotation.pc = "read"
    /\ \/ EndRotation("idle")
       \/ /\ Held("refresh") # Missing
          /\ rotation' = [rotation EXCEPT !.pc = "request", !.old = Held("refresh")]
          /\ UNCHANGED uses
    /\ UNCHANGED <<setupVars, custody, connection>>

\* GitHub accepts a refresh token once, while it lasts.
Accepted == ~Spent(rotation.old) /\ clock < pairs[rotation.old].issued + RefreshLife

Cleanup == [rotation EXCEPT !.pc = "cleanup", !.todo = <<>>, !.left = GitHubSlots]

\* No answer, or an answer whose status is an error: the store keeps the pair.
RotateRefused ==
    /\ rotation.pc = "request"
    /\ EndRotation("idle")
    /\ UNCHANGED <<setupVars, custody, connection>>

\* GitHub's OAuth endpoint may report its refusal with status 200.
RotateUnreadable ==
    /\ rotation.pc = "request"
    /\ ~Accepted
    /\ rotation' = Cleanup
    /\ UNCHANGED <<setupVars, custody, connection, uses>>

\* GitHub issues a new pair and invalidates the old one: its answer is valid,
\* does not validate, or is lost.  The new pair is dated by the start.
RotateAnswered ==
    /\ rotation.pc = "request"
    /\ Accepted
    /\ Len(pairs) < MaxPairs
    /\ pairs' = Append([pairs EXCEPT ![rotation.old].spent = TRUE],
                       [Issued("rotation") EXCEPT !.dated = rotation.started])
    /\ \/ /\ rotation' = [rotation EXCEPT !.pc = "write", !.new = Len(pairs) + 1,
                                          !.todo = WriteOrder]
          /\ UNCHANGED uses
       \/ rotation' = Cleanup /\ UNCHANGED uses
       \/ EndRotation("idle")
    /\ UNCHANGED <<clock, keyring, keys, cli, raced, unwound, custody, connection>>

RotateWrite(ok) ==
    /\ rotation.pc = "write"
    /\ Write(Head(rotation.todo), rotation.new, ok)
    /\ \/ ~ok /\ rotation' = Cleanup /\ UNCHANGED uses
       \/ ok /\ Len(rotation.todo) = 1 /\ EndRotation("token")
       \/ /\ ok /\ Len(rotation.todo) > 1
          /\ rotation' = [rotation EXCEPT !.todo = Tail(rotation.todo)]
          /\ UNCHANGED uses
    /\ UNCHANGED <<clock, pairs, keys, cli, raced, unwound, custody, connection>>

\* #cleanup: three deletions side by side; none waits for another to succeed.
CleanupDelete(slot, ok) ==
    /\ rotation.pc = "cleanup"
    /\ slot \in rotation.left
    /\ Delete(slot, ok)
    /\ LET rest == rotation.left \ {slot} IN
       IF rest = {} THEN EndRotation("idle")
       ELSE /\ rotation' = [rotation EXCEPT !.left = rest]
            /\ UNCHANGED uses
    /\ UNCHANGED <<clock, pairs, keys, cli, raced, unwound, custody, connection>>

-----------------------------------------------------------------------------
(* One use, managed custody.                                               *)

\* SecretStash is asked for the installation's metadata.
MintRead(u) ==
    /\ uses[u].pc = "installation"
    /\ Fail(u) \/ Move(u, "mint")
    /\ UNCHANGED <<setupVars, custody, connection, rotation>>

\* The installation's repository must be the one of the session's connection
\* that is active at the authority when it is asked.
MintChecks(u) ==
    /\ uses[u].pc = "mint"
    /\ \/ Fail(u)
       \/ connection = "installed" /\ Move(u, "post")
    /\ UNCHANGED <<setupVars, custody, connection, rotation>>

\* A token GitHub may answer with: for the installed repository or another,
\* about to expire or not.
MintAnswers ==
    {[issued |-> clock, dated |-> d, by |-> b, spent |-> FALSE] :
        d \in {clock, clock + Margin - AccessLife}, b \in {"installation", "other"}}

\* It must outlive the margin and be for the installed repository alone.
MintPost(u) ==
    /\ uses[u].pc = "post"
    /\ \/ Fail(u) /\ UNCHANGED pairs
       \/ \E answer \in MintAnswers :
             /\ Len(pairs) < MaxPairs
             /\ answer.by = "installation"
             /\ answer.dated + AccessLife > clock + Margin
             /\ pairs' = Append(pairs, answer)
             /\ uses' = [uses EXCEPT ![u].pc = "handed", ![u].token = Len(pairs) + 1]
    /\ UNCHANGED <<clock, keyring, keys, cli, raced, unwound, custody, connection, rotation>>

-----------------------------------------------------------------------------
(* The broker, the authority and time.                                     *)

\* The broker's process stops wherever it is, and another starts.
BrokerCrash ==
    /\ rotation' = NoRotation
    /\ uses' = [u \in Users |-> Quiet]
    /\ UNCHANGED <<setupVars, custody, connection>>

\* Helpers and GitHub answer in time or are given up.
Tick ==
    /\ clock < MaxTime
    /\ \A u \in Users : uses[u].pc = "token" => clock = uses[u].at
    /\ Rotating => clock < rotation.started + 2
    /\ clock' = clock + 1
    /\ UNCHANGED <<keyring, pairs, keys, cli, raced, unwound, brokerVars>>

Next ==
    \/ custody = "keyring" /\ SetupNext(Rotating) /\ UNCHANGED brokerVars
    \/ \E u \in Users :
           \/ Use(u) \/ ReadStatus(u) \/ ReadMetadata(u) \/ ReadToken(u) \/ Finish(u)
           \/ MintRead(u) \/ MintChecks(u) \/ MintPost(u)
    \/ RotateRead \/ RotateRefused \/ RotateUnreadable \/ RotateAnswered
    \/ \E ok \in BOOLEAN :
           RotateWrite(ok) \/ \E slot \in GitHubSlots : CleanupDelete(slot, ok)
    \/ BrokerCrash \/ Tick

Spec == Init /\ [][Next]_vars

-----------------------------------------------------------------------------
(* Properties.                                                             *)

\* The metadata is the commit marker (ADR-0009): while it calls the pair
\* fresh, an access token that is held has neither been invalidated by a
\* rotation nor expired, whatever write or deletion failed, whichever process
\* stopped in between and whoever enrolled or revoked before.  Left out are
\* stores two writers shared without a lock or a rollback has mixed, and
\* expiry when the metadata was dated later than its pair was issued.
VouchedTokenInForce ==
    LET m == keyring["metadata"]
        d == keyring["default"] IN
    ~raced /\ ~unwound /\ m # Missing /\ d # Missing /\ Fresh(m) =>
        /\ ~Spent(d)
        /\ pairs[d].dated <= pairs[d].issued /\ pairs[m].dated <= pairs[m].issued =>
               clock < pairs[d].issued + AccessLife

\* No operation is handed a token that GitHub no longer honours by its date,
\* though the decision, the rotation and the read are separate accesses; nor
\* one minted for another repository than the session's connection names.
TokenInForce ==
    [][\A u \in Users :
          uses[u].pc # "handed" /\ uses'[u].pc = "handed" =>
              LET p == pairs'[uses'[u].token] IN
              IF custody = "managed"
              THEN p.by = "installation" /\ connection = "installed"
                   /\ clock + Margin < p.dated + AccessLife
              ELSE raced \/ unwound \/ p.dated > p.issued
                   \/ clock < p.issued + AccessLife]_vars

\* What the command line reports is what the store holds: "stored" means every
\* slot holds the new credential, a plain failure after a rollback means every
\* slot holds what it held, and a page that expired or was cancelled stores
\* nothing afterwards (ADR-0009: cleanup failure is reported).
ReportsAreTrue ==
    [][~raced' /\ cli' # cli =>
          /\ cli'.outcome = "stored" =>
                 \A s \in DOMAIN cli.saved : keyring'[s] = cli.new
          /\ cli.phase = "restore" /\ cli.command = "enroll" /\ cli'.outcome = "failed" =>
                 \A s \in DOMAIN cli.saved : keyring'[s] = cli.saved[s]
          /\ keyring'["research"] # keyring["research"] =>
                 cli.outcome \notin {"expired", "cancelled"}]_vars
=============================================================================
