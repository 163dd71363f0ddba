------------------------ MODULE GitHubCredentialProofs ------------------------
(* Theorems about GitHubCredential, for any users, lifetimes and bounds:     *)
(* whatever access to the store fails, whichever process stops and however   *)
(* enrolments, revocations and rotations follow each other, a token vouched  *)
(* for and a token handed out are in force, and the command line tells what  *)
(* the store holds.                                                          *)
EXTENDS GitHubCredential, TLAPS, SequenceTheorems

-----------------------------------------------------------------------------
(* The inductive invariant: the shape of the records.                       *)

WriteTodos == {WriteOrder, <<"default", "metadata">>, <<"metadata">>}
ReadTodos == {ReadOrder, <<"refresh", "metadata">>, <<"metadata">>}
KeyTodo == <<"research">>
Todos == WriteTodos \cup ReadTodos \cup {KeyTodo, <<>>}
SlotsOf(todo) == {todo[i] : i \in 1..Len(todo)}

PairRows == [issued : Int, dated : Int, by : {"setup", "rotation", "installation"},
             spent : BOOLEAN]
Saves == UNION {[D -> Nat] : D \in SUBSET Slots}
CliRows == [command : Commands, phase : Phases, new : Nat, todo : Todos, saved : Saves,
            left : SUBSET Slots, consumed : BOOLEAN, clean : BOOLEAN, outcome : Outcomes]
RotationRows == [pc : {"none", "read", "request", "write", "cleanup"}, started : Nat,
                 old : Nat, new : Nat, todo : Todos, left : SUBSET GitHubSlots]
UseRows == [pc : {"idle", "status", "metadata", "waiting", "token", "installation", "mint",
                  "post", "handed"},
            at : Nat, token : Nat]

StoreTypeOK ==
    /\ clock \in Nat /\ keys \in Nat
    /\ keyring \in [Slots -> Nat] /\ pairs \in Seq(PairRows)
    /\ raced \in BOOLEAN /\ unwound \in BOOLEAN

\* What the phases of a command know of it.
CommandOK(c) ==
    /\ c \in CliRows
    /\ c.phase = "idle" => c.command = "none"
    /\ c.phase # "idle" => c.outcome = "none"
    /\ c.phase \in {"authorize", "surface", "verify"} => DOMAIN c.saved = {}
    /\ c.phase = "verify" => c.command \in {"enroll", "local"}
    /\ c.phase = "snapshot" =>
        \/ c.command = "enroll" /\ c.todo \in ReadTodos
           /\ DOMAIN c.saved = GitHubSlots \ SlotsOf(c.todo)
        \/ c.command = "local" /\ c.todo = KeyTodo /\ DOMAIN c.saved = {}
    /\ c.phase = "write" =>
        \/ c.command = "enroll" /\ c.todo \in WriteTodos /\ DOMAIN c.saved = GitHubSlots
        \/ c.command = "local" /\ c.todo = KeyTodo /\ DOMAIN c.saved = {"research"}
    /\ c.phase = "restore" =>
        /\ c.left \subseteq DOMAIN c.saved
        /\ \/ c.command = "enroll" /\ DOMAIN c.saved = GitHubSlots
           \/ c.command = "local" /\ DOMAIN c.saved = {"research"}
    /\ c.phase = "delete" =>
        \/ c.command = "revoke" /\ c.todo \in ReadTodos
        \/ c.command = "local" /\ c.todo = KeyTodo

RotationOK(r) == r \in RotationRows /\ (r.pc = "write" => r.todo \in WriteTodos)

\* A use goes the way of the custody; under the managed one nobody writes the
\* store, and a command and a rotation write it together only in a race.
UsesOK ==
    /\ uses \in [Users -> UseRows]
    /\ \A u \in Users :
        /\ uses[u].pc \in {"status", "metadata", "waiting", "token"} => custody = "keyring"
        /\ uses[u].pc \in {"installation", "mint", "post"} => custody = "managed"
        /\ uses[u].pc = "post" => connection = "installed"

CustodyOK ==
    /\ custody \in Custodies /\ connection \in {"installed", "elsewhere"}
    /\ custody = "managed" =>
        /\ cli.phase = "idle" /\ ~Rotating /\ ~raced /\ ~unwound
        /\ keyring["metadata"] = Missing

Alone == Rotating /\ WritingGitHub => raced

ShapeInv ==
    /\ StoreTypeOK /\ CommandOK(cli) /\ RotationOK(rotation) /\ UsesOK /\ CustodyOK /\ Alone

-----------------------------------------------------------------------------
(* The inductive invariant: what the store says of the tokens.              *)

\* The command holds a new pair that it has yet to store.
Enrolling == cli.command = "enroll" /\ cli.phase \in {"verify", "snapshot", "write"}

\* What an enrolment has written so far, and what its rollback has put back.
RewritesOK ==
    /\ cli.command = "enroll" /\ cli.phase = "write" =>
        \A s \in GitHubSlots \ SlotsOf(cli.todo) : keyring[s] = cli.new
    /\ cli.command = "enroll" /\ cli.phase = "restore" =>
        /\ unwound
        /\ cli.clean => \A s \in GitHubSlots \ cli.left : keyring[s] = cli.saved[s]

\* Pairs are numbered and dated in the order of their issue.
PairsOK ==
    /\ \A i \in 1..Len(pairs) : pairs[i].issued <= clock /\ pairs[i].dated <= clock
    /\ \A i, j \in 1..Len(pairs) :
           i < j => pairs[i].issued <= pairs[j].issued /\ pairs[i].dated <= pairs[j].issued

\* The metadata never vouches for a token older than its own, nor a spent one.
MarkerOK ==
    /\ \A s \in GitHubSlots : keyring[s] \in 0..Len(pairs)
    /\ LET m == keyring["metadata"]
           d == keyring["default"] IN
       m # Missing /\ d # Missing => m <= d /\ (Fresh(m) => ~pairs[d].spent)

\* What is about to be written is the newest pair, and not spent.
Newest(p) == p = Len(pairs) /\ p # 0 /\ ~pairs[p].spent
Stale(m) == m = Missing \/ ~Fresh(m)

EnrollmentOK == Enrolling => Newest(cli.new)
RotationSound ==
    /\ Rotating => rotation.started <= clock /\ clock <= rotation.started + 2
    /\ rotation.pc \in {"read", "request"} => Stale(keyring["metadata"])
    /\ rotation.pc = "request" => rotation.old \in 1..Len(pairs)
    /\ rotation.pc = "write" =>
        /\ Newest(rotation.new)
        /\ pairs[rotation.new].dated = rotation.started
        /\ pairs[rotation.new].issued >= rotation.started
        /\ rotation.todo = <<"metadata">> => keyring["default"] = rotation.new

\* The pairs whose token a read that follows may find.
Candidates ==
    (({keyring["default"]} \cup (IF Enrolling THEN {cli.new} ELSE {}))
     \cup (IF rotation.pc = "write" THEN {rotation.new} ELSE {})) \ {Missing}

Outlives(p, at) == pairs[p].dated <= pairs[p].issued => at + Margin < pairs[p].issued + AccessLife
TokenOK(at) == at <= clock /\ clock <= at + 1 /\ \A p \in Candidates : Outlives(p, at)
TokensOK == \A u \in Users : uses[u].pc = "token" => TokenOK(uses[u].at)

Sound == PairsOK /\ MarkerOK /\ EnrollmentOK /\ RotationSound /\ TokensOK
SoundInv == ~raced => RewritesOK /\ (~unwound => Sound)
-----------------------------------------------------------------------------
(* The lists of slots still to handle.                                      *)

LEMMA WriteTodo ==
    ASSUME NEW t \in WriteTodos
    PROVE  /\ Head(t) \in GitHubSlots /\ (Len(t) = 1 <=> t = <<"metadata">>)
           /\ Head(t) = "metadata" <=> Len(t) = 1
           /\ Len(t) = 1 => SlotsOf(t) = {Head(t)}
           /\ Len(t) # 1 => /\ Len(t) > 1 /\ Tail(t) \in WriteTodos
                            /\ SlotsOf(Tail(t)) = SlotsOf(t) \ {Head(t)}
                            /\ Tail(t) = <<"metadata">> => Head(t) = "default"
<1>1. CASE t = WriteOrder
  <2>1. Tail(t) = <<"default", "metadata">> /\ Len(t) = 3 /\ Head(t) = "refresh"
    BY <1>1 DEF WriteOrder
  <2>2. SlotsOf(t) = {"refresh", "default", "metadata"}
    BY <1>1 DEF SlotsOf, WriteOrder
  <2>3. SlotsOf(<<"default", "metadata">>) = {"default", "metadata"}
    BY DEF SlotsOf
  <2>. QED BY <1>1, <2>1, <2>2, <2>3 DEF WriteTodos, GitHubSlots, WriteOrder
<1>2. CASE t = <<"default", "metadata">>
  <2>1. Tail(t) = <<"metadata">> /\ Len(t) = 2 /\ Head(t) = "default"
    BY <1>2
  <2>2. SlotsOf(t) = {"default", "metadata"} /\ SlotsOf(<<"metadata">>) = {"metadata"}
    BY <1>2 DEF SlotsOf
  <2>. QED BY <1>2, <2>1, <2>2 DEF WriteTodos, GitHubSlots
<1>3. CASE t = <<"metadata">>
  <2>1. Len(t) = 1 /\ Head(t) = "metadata"
    BY <1>3
  <2>2. SlotsOf(t) = {"metadata"}
    BY <1>3 DEF SlotsOf
  <2>. QED BY <1>3, <2>1, <2>2 DEF GitHubSlots
<1>. QED BY <1>1, <1>2, <1>3 DEF WriteTodos

LEMMA ReadTodo ==
    ASSUME NEW t \in ReadTodos
    PROVE  /\ Head(t) \in GitHubSlots
           /\ Tail(t) = <<>> => SlotsOf(t) = {Head(t)} /\ Len(t) = 1
           /\ Tail(t) # <<>> => /\ Tail(t) \in ReadTodos /\ Len(t) # 1
                                /\ SlotsOf(Tail(t)) = SlotsOf(t) \ {Head(t)}
           /\ SlotsOf(t) \subseteq GitHubSlots
<1>1. CASE t = ReadOrder
  <2>1. Tail(t) = <<"refresh", "metadata">> /\ Len(t) = 3 /\ Head(t) = "default"
    BY <1>1 DEF ReadOrder
  <2>2. SlotsOf(t) = {"refresh", "default", "metadata"}
    BY <1>1 DEF SlotsOf, ReadOrder
  <2>3. SlotsOf(<<"refresh", "metadata">>) = {"refresh", "metadata"}
    BY DEF SlotsOf
  <2>. QED BY <1>1, <2>1, <2>2, <2>3 DEF ReadTodos, GitHubSlots, ReadOrder
<1>2. CASE t = <<"refresh", "metadata">>
  <2>1. Tail(t) = <<"metadata">> /\ Len(t) = 2 /\ Head(t) = "refresh"
    BY <1>2
  <2>2. SlotsOf(t) = {"refresh", "metadata"} /\ SlotsOf(<<"metadata">>) = {"metadata"}
    BY <1>2 DEF SlotsOf
  <2>. QED BY <1>2, <2>1, <2>2 DEF ReadTodos, GitHubSlots
<1>3. CASE t = <<"metadata">>
  <2>1. Len(t) = 1 /\ Head(t) = "metadata" /\ Tail(t) = <<>>
    BY <1>3
  <2>2. SlotsOf(t) = {"metadata"}
    BY <1>3 DEF SlotsOf
  <2>. QED BY <1>3, <2>1, <2>2 DEF GitHubSlots
<1>. QED BY <1>1, <1>2, <1>3 DEF ReadTodos

LEMMA KeyTodoIs ==
    Head(KeyTodo) = "research" /\ Tail(KeyTodo) = <<>> /\ Len(KeyTodo) = 1 /\ SlotsOf(KeyTodo) = {"research"}
<1>1. SlotsOf(<<"research">>) = {"research"}
  BY DEF SlotsOf
<1>. QED BY <1>1 DEF KeyTodo

LEMMA OrdersAre ==
    /\ ReadOrder \in ReadTodos /\ WriteOrder \in WriteTodos
    /\ SlotsOf(ReadOrder) = GitHubSlots /\ SlotsOf(WriteOrder) = GitHubSlots
    /\ WriteOrder # <<"metadata">>
<1>1. SlotsOf(ReadOrder) = GitHubSlots /\ SlotsOf(WriteOrder) = GitHubSlots
  BY DEF SlotsOf, ReadOrder, WriteOrder, GitHubSlots
<1>. QED BY <1>1 DEF ReadTodos, WriteTodos, WriteOrder

-----------------------------------------------------------------------------
(* The command line, step by step.                                          *)

LEMMA IdleOK ==
    ASSUME NEW outcome \in Outcomes, NEW c, c = Idle(outcome)
    PROVE  /\ c \in CliRows /\ CommandOK(c) /\ c.phase = "idle" /\ c.command = "none"
           /\ c.outcome = outcome /\ DOMAIN c.saved = {} /\ c.todo = <<>> /\ c.left = {}
<1>1. PICK none : none = [s \in {} |-> Missing]
  OBVIOUS
<1>2. none \in [{} -> Nat] /\ DOMAIN none = {}
  BY <1>1
<1>3. none \in Saves
  BY <1>2 DEF Saves
<1>4. c = [command |-> "none", phase |-> "idle", new |-> Missing, todo |-> <<>>,
           saved |-> none, left |-> {}, consumed |-> FALSE, clean |-> TRUE, outcome |-> outcome]
  BY <1>1 DEF Idle
<1>5. c \in CliRows
  BY <1>3, <1>4 DEF CliRows, Commands, Phases, Todos, Missing
<1>. QED BY <1>2, <1>4, <1>5 DEF CommandOK
\* A command that ends reports an outcome and is no more.
LEMMA EndKeeps ==
    ASSUME NEW outcome \in Outcomes, End(outcome) \/ cli' = Idle(outcome)
    PROVE  CommandOK(cli') /\ cli'.phase = "idle" /\ cli'.outcome = outcome /\ cli'.command = "none"
BY IdleOK DEF End

LEMMA BeginKeeps ==
    ASSUME NEW command \in {"enroll", "local", "review"}, NEW phase \in {"authorize", "surface"},
           Begin(command, phase)
    PROVE  CommandOK(cli') /\ cli'.phase = phase /\ cli'.command = command /\ cli'.outcome = "none"
<1>1. PICK c : c = Idle("none")
  OBVIOUS
<1>2. c \in CliRows /\ c.outcome = "none" /\ DOMAIN c.saved = {}
  BY <1>1, IdleOK DEF Outcomes
<1>3. cli' = [c EXCEPT !.command = command, !.phase = phase]
  BY <1>1 DEF Begin
<1>4. phase \in Phases /\ command \in Commands
  BY DEF Phases, Commands
<1>5. cli' \in CliRows
  BY <1>2, <1>3, <1>4 DEF CliRows
<1>6. /\ cli'.phase = phase /\ cli'.command = command /\ cli'.outcome = "none"
      /\ DOMAIN cli'.saved = {}
  BY <1>2, <1>3 DEF CliRows
<1>. QED BY <1>5, <1>6 DEF CommandOK

\* How the credential is obtained and checked.
LEMMA ObtainKeeps ==
    ASSUME StoreTypeOK, CommandOK(cli),
           Authorize(Rotating) \/ SurfaceSubmit \/ SurfaceRead \/ Verify
    PROVE  CommandOK(cli')
<1>1. cli \in CliRows /\ Len(pairs) \in Nat /\ keys \in Nat
  BY DEF CommandOK, StoreTypeOK
<1>2. CASE Authorize(Rotating)
  <2>1. PICK n : n = Len(pairs) + 1
    OBVIOUS
  <2>2. n \in Nat /\ cli' = [cli EXCEPT !.phase = "verify", !.new = n]
    BY <1>1, <1>2, <2>1 DEF Authorize
  <2>3. cli.command = "enroll" /\ cli.outcome = "none" /\ DOMAIN cli.saved = {}
    BY <1>2 DEF Authorize, Running, CommandOK
  <2>4. cli' \in CliRows
    BY <1>1, <2>2 DEF CliRows, Phases
  <2>. QED BY <1>1, <2>2, <2>3, <2>4 DEF CommandOK, CliRows
<1>3. CASE SurfaceSubmit
  <2>1. cli' = [cli EXCEPT !.consumed = TRUE] /\ cli.phase = "surface"
    BY <1>3 DEF SurfaceSubmit, OnSurface
  <2>2. cli' \in CliRows
    BY <1>1, <2>1 DEF CliRows
  <2>3. cli'.phase = "surface" /\ cli'.outcome = cli.outcome /\ cli'.saved = cli.saved
    BY <1>1, <2>1 DEF CliRows
  <2>. QED BY <2>1, <2>2, <2>3 DEF CommandOK
<1>4. CASE SurfaceRead
  <2>1. CASE End("failed") \/ End("discarded")
    BY <2>1, EndKeeps DEF Outcomes
  <2>2. CASE cli.command = "local" /\ cli' = [cli EXCEPT !.phase = "verify", !.new = keys + 1]
    <3>1. PICK n : n = keys + 1
      OBVIOUS
    <3>2. n \in Nat /\ cli' = [cli EXCEPT !.phase = "verify", !.new = n]
      BY <1>1, <2>2, <3>1
    <3>3. cli.outcome = "none" /\ DOMAIN cli.saved = {}
      BY <1>4 DEF SurfaceRead, OnSurface, CommandOK
    <3>4. cli' \in CliRows
      BY <1>1, <3>2 DEF CliRows, Phases
    <3>. QED BY <1>1, <2>2, <3>2, <3>3, <3>4 DEF CommandOK, CliRows
  <2>. QED BY <1>4, <2>1, <2>2 DEF SurfaceRead
<1>5. CASE Verify
  <2>1. CASE End("failed")
    BY <2>1, EndKeeps DEF Outcomes
  <2>2. CASE cli' = [cli EXCEPT !.phase = "snapshot", !.todo = Handled(ReadOrder)]
    <3>1. PICK t : t = Handled(ReadOrder)
      OBVIOUS
    <3>2. /\ cli.outcome = "none" /\ DOMAIN cli.saved = {}
          /\ \/ cli.command = "enroll" /\ t = ReadOrder
             \/ cli.command = "local" /\ t = KeyTodo
      BY <1>5, <3>1 DEF Verify, CommandOK, Handled, KeyTodo
    <3>3. t \in Todos
      BY <3>2 DEF Todos, ReadTodos
    <3>4. cli' \in CliRows
      BY <1>1, <2>2, <3>1, <3>3 DEF CliRows, Phases
    <3>5. /\ cli'.phase = "snapshot" /\ cli'.command = cli.command /\ cli'.todo = t
          /\ cli'.saved = cli.saved /\ cli'.outcome = cli.outcome
      BY <1>1, <2>2, <3>1 DEF CliRows
    <3>6. GitHubSlots \ SlotsOf(ReadOrder) = {} /\ ReadOrder \in ReadTodos
      BY OrdersAre
    <3>. QED BY <3>2, <3>4, <3>5, <3>6 DEF CommandOK
  <2>. QED BY <1>5, <2>1, <2>2 DEF Verify
<1>. QED BY <1>2, <1>3, <1>4, <1>5

\* The snapshot of one slot joins the others.
LEMMA SavedMore ==
    ASSUME NEW saved \in Saves, NEW slot \in Slots, NEW v \in Nat, NEW more,
           more = [s \in DOMAIN saved \cup {slot} |-> IF s = slot THEN v ELSE saved[s]]
    PROVE  more \in Saves /\ DOMAIN more = DOMAIN saved \cup {slot} /\ more[slot] = v
<1>1. PICK D \in SUBSET Slots : saved \in [D -> Nat]
  BY DEF Saves
<1>2. D \cup {slot} \in SUBSET Slots /\ DOMAIN saved = D
  BY <1>1
<1>3. more \in [D \cup {slot} -> Nat]
  BY <1>1, <1>2
<1>. QED BY <1>2, <1>3 DEF Saves

LEMMA SnapshotKeeps ==
    ASSUME StoreTypeOK, CommandOK(cli), Snapshot
    PROVE  CommandOK(cli')
<1>1. cli \in CliRows /\ cli.phase = "snapshot" /\ cli.outcome = "none"
  BY DEF CommandOK, Snapshot
<1>2. CASE End("failed")
  BY <1>2, EndKeeps DEF Outcomes
<1>3. CASE ~End("failed")
  <2>1. PICK slot, rest, saved : slot = Head(cli.todo) /\ rest = Tail(cli.todo)
          /\ saved = [s \in DOMAIN cli.saved \cup {slot} |->
                        IF s = slot THEN Held(slot) ELSE cli.saved[s]]
    OBVIOUS
  <2>2. cli' = IF rest = <<>>
               THEN [cli EXCEPT !.saved = saved, !.phase = "write", !.todo = Handled(WriteOrder)]
               ELSE [cli EXCEPT !.saved = saved, !.todo = rest]
    BY <1>3, <2>1 DEF Snapshot
  <2>3. \/ cli.command = "enroll" /\ cli.todo \in ReadTodos
           /\ DOMAIN cli.saved = GitHubSlots \ SlotsOf(cli.todo)
        \/ cli.command = "local" /\ cli.todo = KeyTodo /\ DOMAIN cli.saved = {}
    BY <1>1 DEF CommandOK
  <2>4. slot \in Slots
    BY <2>1, <2>3, ReadTodo, KeyTodoIs DEF Slots
  <2>5. Held(slot) \in Nat /\ cli.saved \in Saves
    BY <1>1, <2>4 DEF Held, StoreTypeOK, CliRows
  <2>6. saved \in Saves /\ DOMAIN saved = DOMAIN cli.saved \cup {slot}
    <3>1. PICK v, was : v = Held(slot) /\ was = cli.saved
      OBVIOUS
    <3>2. saved = [s \in DOMAIN was \cup {slot} |-> IF s = slot THEN v ELSE was[s]]
      BY <2>1, <3>1
    <3>. QED BY <2>4, <2>5, <3>1, <3>2, SavedMore
  <2>7. CASE rest = <<>>
    <3>1. PICK t : t = Handled(WriteOrder)
      OBVIOUS
    <3>2. cli' = [cli EXCEPT !.saved = saved, !.phase = "write", !.todo = t]
      BY <2>2, <2>7, <3>1
    <3>3. \/ cli.command = "enroll" /\ t = WriteOrder /\ DOMAIN saved = GitHubSlots
          \/ cli.command = "local" /\ t = KeyTodo /\ DOMAIN saved = {"research"}
      <4>1. CASE cli.command = "enroll"
        BY <2>1, <2>3, <2>6, <2>7, <3>1, <4>1, ReadTodo DEF Handled
      <4>2. CASE cli.command = "local"
        BY <2>1, <2>3, <2>6, <3>1, <4>2, KeyTodoIs DEF Handled, KeyTodo
      <4>. QED BY <2>3, <4>1, <4>2
    <3>4. t \in Todos /\ WriteOrder \in WriteTodos
      BY <3>3 DEF Todos, WriteTodos
    <3>5. cli' \in CliRows
      BY <1>1, <2>6, <3>2, <3>4 DEF CliRows, Phases
    <3>6. /\ cli'.phase = "write" /\ cli'.command = cli.command /\ cli'.todo = t
          /\ cli'.saved = saved /\ cli'.outcome = "none"
      BY <1>1, <3>2 DEF CliRows
    <3>. QED BY <3>3, <3>4, <3>5, <3>6 DEF CommandOK
  <2>8. CASE rest # <<>>
    <3>1. cli' = [cli EXCEPT !.saved = saved, !.todo = rest]
      BY <2>2, <2>8
    <3>2. /\ cli.command = "enroll" /\ rest \in ReadTodos
          /\ DOMAIN saved = GitHubSlots \ SlotsOf(rest)
      <4>1. cli.command = "enroll" /\ cli.todo \in ReadTodos
        BY <2>1, <2>3, <2>8, KeyTodoIs
      <4>2. rest \in ReadTodos /\ SlotsOf(rest) = SlotsOf(cli.todo) \ {slot} /\ slot \in GitHubSlots
        BY <2>1, <2>8, <4>1, ReadTodo
      <4>3. DOMAIN cli.saved = GitHubSlots \ SlotsOf(cli.todo)
        BY <2>3, <4>1
      <4>. QED BY <2>6, <4>1, <4>2, <4>3
    <3>3. rest \in Todos
      BY <3>2 DEF Todos
    <3>4. cli' \in CliRows
      BY <1>1, <2>6, <3>1, <3>3 DEF CliRows
    <3>5. /\ cli'.phase = "snapshot" /\ cli'.command = "enroll" /\ cli'.todo = rest
          /\ cli'.saved = saved /\ cli'.outcome = "none"
      BY <1>1, <3>1, <3>2 DEF CliRows
    <3>. QED BY <3>2, <3>4, <3>5 DEF CommandOK
  <2>. QED BY <2>7, <2>8
<1>. QED BY <1>2, <1>3
LEMMA WriteTyped ==
    ASSUME keyring \in [Slots -> Nat], NEW slot, NEW value \in Nat, NEW ok, Write(slot, value, ok)
    PROVE  /\ keyring' \in [Slots -> Nat]
           /\ \A s \in Slots : s # slot => keyring'[s] = keyring[s]
           /\ slot \in Slots /\ ok => keyring'[slot] = value
           /\ slot \in Slots => keyring'[slot] = value \/ keyring'[slot] = keyring[slot]
BY DEF Write

\* A rollback begins with the slots of the snapshot.
LEMMA UnwindKeeps ==
    ASSUME CommandOK(cli), cli.phase = "write", cli' = Unwind
    PROVE  /\ CommandOK(cli') /\ cli'.phase = "restore" /\ cli'.command = cli.command
           /\ cli'.saved = cli.saved /\ cli'.left = DOMAIN cli.saved /\ cli'.outcome = "none"
<1>1. cli \in CliRows /\ cli.outcome = "none"
  BY DEF CommandOK
<1>2. PICK D : D = DOMAIN cli.saved
  OBVIOUS
<1>3. /\ D \in SUBSET Slots
      /\ \/ cli.command = "enroll" /\ D = GitHubSlots
         \/ cli.command = "local" /\ D = {"research"}
  BY <1>2 DEF CommandOK, Slots, GitHubSlots
<1>4. PICK none : none = <<>>
  OBVIOUS
<1>5. cli' = [cli EXCEPT !.phase = "restore", !.todo = none, !.left = D] /\ none \in Todos
  BY <1>2, <1>4 DEF Unwind, Todos
<1>6. cli' \in CliRows
  BY <1>1, <1>3, <1>5 DEF CliRows, Phases
<1>7. /\ cli'.phase = "restore" /\ cli'.command = cli.command /\ cli'.left = D
      /\ cli'.saved = cli.saved /\ cli'.outcome = "none"
  BY <1>1, <1>5 DEF CliRows
<1>. QED BY <1>2, <1>3, <1>6, <1>7 DEF CommandOK

\* A list of slots is worked off from its head.
LEMMA NextSlotKeeps ==
    ASSUME NEW c, CommandOK(c), c.phase \in {"write", "delete"}, NEW todo, todo = Tail(c.todo),
           Len(c.todo) # 1, NEW d, d = [c EXCEPT !.todo = todo]
    PROVE  /\ CommandOK(d) /\ d.phase = c.phase /\ d.command = c.command /\ d.todo = todo
           /\ d.saved = c.saved /\ d.new = c.new /\ d.outcome = "none" /\ d.clean = c.clean
           /\ d.left = c.left
<1>1. c \in CliRows /\ c.outcome = "none"
  BY DEF CommandOK
<1>2. /\ c.phase = "write" => c.command = "enroll" /\ todo \in WriteTodos
                              /\ DOMAIN c.saved = GitHubSlots
      /\ c.phase = "delete" => c.command = "revoke" /\ todo \in ReadTodos
  <2>1. CASE c.phase = "write"
    BY <2>1, WriteTodo, KeyTodoIs DEF CommandOK
  <2>2. CASE c.phase = "delete"
    BY <2>2, ReadTodo, KeyTodoIs DEF CommandOK
  <2>. QED BY <2>1, <2>2
<1>3. todo \in Todos
  BY <1>2 DEF Todos
<1>4. d \in CliRows
  BY <1>1, <1>3 DEF CliRows
<1>5. /\ d.phase = c.phase /\ d.command = c.command /\ d.todo = todo
      /\ d.saved = c.saved /\ d.new = c.new /\ d.outcome = "none" /\ d.clean = c.clean
      /\ d.left = c.left
  BY <1>1 DEF CliRows
<1>. QED BY <1>2, <1>4, <1>5 DEF CommandOK

LEMMA WritesKeep ==
    ASSUME StoreTypeOK, CommandOK(cli), NEW ok \in BOOLEAN,
           EnrollWrite(ok) \/ LocalWrite(ok) \/ RevokeDelete(ok)
    PROVE  CommandOK(cli') /\ keyring' \in [Slots -> Nat]
<1>1. cli \in CliRows /\ keyring \in [Slots -> Nat] /\ cli.new \in Nat
  BY DEF CommandOK, StoreTypeOK, CliRows
<1>2. CASE EnrollWrite(ok)
  <2>1. keyring' \in [Slots -> Nat]
    BY <1>1, <1>2, WriteTyped DEF EnrollWrite
  <2>2. cli.phase = "write"
    BY <1>2 DEF EnrollWrite, Running
  <2>3. CASE cli' = Unwind
    BY <2>1, <2>2, <2>3, UnwindKeeps
  <2>4. CASE cli' = Idle("stored")
    BY <2>1, <2>4, EndKeeps DEF Outcomes
  <2>5. CASE Len(cli.todo) # 1 /\ cli' = [cli EXCEPT !.todo = Tail(cli.todo)]
    BY <2>1, <2>2, <2>5, NextSlotKeeps
  <2>. QED BY <1>2, <2>3, <2>4, <2>5 DEF EnrollWrite
<1>3. CASE LocalWrite(ok)
  <2>1. keyring' \in [Slots -> Nat]
    BY <1>1, <1>3, WriteTyped DEF LocalWrite
  <2>2. cli.phase = "write"
    BY <1>3 DEF LocalWrite, Running
  <2>3. CASE cli' = Unwind
    BY <2>1, <2>2, <2>3, UnwindKeeps
  <2>4. CASE cli' = Idle("stored")
    BY <2>1, <2>4, EndKeeps DEF Outcomes
  <2>. QED BY <1>3, <2>3, <2>4 DEF LocalWrite
<1>4. CASE RevokeDelete(ok)
  <2>1. keyring' \in [Slots -> Nat]
    BY <1>1, <1>4, WriteTyped DEF RevokeDelete, Delete, Missing
  <2>2. cli.phase = "delete"
    BY <1>4 DEF RevokeDelete
  <2>3. CASE cli' = Idle("failed") \/ cli' = Idle("deleted")
    BY <2>1, <2>3, EndKeeps DEF Outcomes
  <2>5. CASE Len(cli.todo) # 1 /\ cli' = [cli EXCEPT !.todo = Tail(cli.todo)]
    BY <2>1, <2>2, <2>5, NextSlotKeeps
  <2>. QED BY <1>4, <2>3, <2>5 DEF RevokeDelete
<1>. QED BY <1>2, <1>3, <1>4

LEMMA RestoreKeeps ==
    ASSUME StoreTypeOK, CommandOK(cli), NEW ok \in BOOLEAN, NEW slot \in Slots, Restore(slot, ok)
    PROVE  CommandOK(cli') /\ keyring' \in [Slots -> Nat]
<1>1. /\ cli \in CliRows /\ keyring \in [Slots -> Nat] /\ cli.phase = "restore"
      /\ cli.outcome = "none" /\ slot \in cli.left /\ cli.left \subseteq DOMAIN cli.saved
  BY DEF CommandOK, StoreTypeOK, Restore
<1>2. keyring' \in [Slots -> Nat]
  <2>1. cli.saved \in Saves
    BY <1>1 DEF CliRows
  <2>2. cli.saved[slot] \in Nat
    BY <1>1, <2>1 DEF Saves
  <2>. QED BY <1>1, <2>2, WriteTyped DEF Restore
<1>3. CASE \E outcome \in {"failed", "rollback_failed"} : cli' = Idle(outcome)
  BY <1>2, <1>3, EndKeeps DEF Outcomes
<1>4. CASE cli' = [cli EXCEPT !.left = cli.left \ {slot}, !.clean = cli.clean /\ ok]
  <2>1. PICK left, clean : left = cli.left \ {slot} /\ clean = (cli.clean /\ ok)
    OBVIOUS
  <2>2. left \in SUBSET Slots /\ clean \in BOOLEAN
    BY <1>1, <2>1 DEF CliRows
  <2>3. cli' = [cli EXCEPT !.left = left, !.clean = clean]
    BY <1>4, <2>1
  <2>4. cli' \in CliRows
    BY <1>1, <2>2, <2>3 DEF CliRows
  <2>5. /\ cli'.phase = "restore" /\ cli'.command = cli.command /\ cli'.left = left
        /\ cli'.saved = cli.saved /\ cli'.outcome = "none"
    BY <1>1, <2>3 DEF CliRows
  <2>. QED BY <1>1, <1>2, <2>1, <2>4, <2>5 DEF CommandOK
<1>. QED BY <1>3, <1>4 DEF Restore, Told

LEMMA StartRevokeKeeps ==
    ASSUME StartRevoke(Rotating)
    PROVE  CommandOK(cli') /\ cli'.phase = "delete" /\ cli'.command \in {"revoke", "local"}
<1>1. PICK command \in {"revoke", "local"} :
          cli' = [Idle("none") EXCEPT !.command = command, !.phase = "delete",
                      !.todo = IF command = "local" THEN <<"research">> ELSE ReadOrder]
  BY DEF StartRevoke
<1>2. PICK c, todo : c = Idle("none")
                     /\ todo = IF command = "local" THEN <<"research">> ELSE ReadOrder
  OBVIOUS
<1>3. c \in CliRows /\ c.outcome = "none"
  BY <1>2, IdleOK DEF Outcomes
<1>4. cli' = [c EXCEPT !.command = command, !.phase = "delete", !.todo = todo]
  BY <1>1, <1>2
<1>5. \/ command = "revoke" /\ todo \in ReadTodos
      \/ command = "local" /\ todo = KeyTodo
  BY <1>2, OrdersAre DEF KeyTodo
<1>6. todo \in Todos /\ command \in Commands
  BY <1>5 DEF Todos, Commands
<1>7. cli' \in CliRows
  BY <1>3, <1>4, <1>6 DEF CliRows, Phases
<1>8. /\ cli'.phase = "delete" /\ cli'.command = command /\ cli'.todo = todo
      /\ cli'.outcome = "none"
  BY <1>3, <1>4 DEF CliRows
<1>. QED BY <1>5, <1>7, <1>8 DEF CommandOK

\* Every step of the command line keeps its record and the store well formed.
LEMMA SetupKeeps ==
    ASSUME StoreTypeOK, CommandOK(cli), SetupNext(Rotating)
    PROVE  CommandOK(cli') /\ keyring' \in [Slots -> Nat]
<1>0. keyring \in [Slots -> Nat]
  BY DEF StoreTypeOK
<1>1. CASE StartEnroll \/ StartLocal \/ StartReview
  BY <1>0, <1>1, BeginKeeps DEF StartEnroll, StartLocal, StartReview, Begin
<1>2. CASE AuthorizationFails \/ SurfaceCancel \/ SurfaceExpires \/ Kill
  BY <1>0, <1>2, EndKeeps DEF AuthorizationFails, SurfaceCancel, SurfaceExpires, Kill, End, Outcomes
<1>3. CASE Authorize(Rotating) \/ SurfaceSubmit \/ SurfaceRead \/ Verify
  <2>1. UNCHANGED keyring
    BY <1>3 DEF Authorize, SurfaceSubmit, SurfaceRead, Verify, End
  <2>. QED BY <1>0, <1>3, <2>1, ObtainKeeps
<1>4. CASE Snapshot
  <2>1. UNCHANGED keyring
    BY <1>4 DEF Snapshot, End
  <2>. QED BY <1>0, <1>4, <2>1, SnapshotKeeps
<1>5. CASE StartRevoke(Rotating)
  BY <1>0, <1>5, StartRevokeKeeps DEF StartRevoke
<1>6. CASE \E ok \in BOOLEAN : EnrollWrite(ok) \/ LocalWrite(ok) \/ RevokeDelete(ok)
  BY <1>6, WritesKeep
<1>7. CASE \E ok \in BOOLEAN, slot \in Slots : Restore(slot, ok)
  BY <1>7, RestoreKeeps
<1>. QED BY <1>1, <1>2, <1>3, <1>4, <1>5, <1>6, <1>7 DEF SetupNext
-----------------------------------------------------------------------------
(* The pairs, the clock and the histories.                                  *)

Rewritten(ps, n, q, qs) == qs = [ps EXCEPT ![n] = q]
RewrittenIs(ps, n, q, qs) ==
    /\ qs \in Seq(PairRows) /\ Len(qs) = Len(ps)
    /\ \A i \in 1..Len(ps) : (i = n => qs[i] = q) /\ (i # n => qs[i] = ps[i])
LEMMA PairRewritten ==
    ASSUME NEW ps \in Seq(PairRows), NEW n, NEW q, n \in 1..Len(ps) => q \in PairRows,
           NEW qs, Rewritten(ps, n, q, qs)
    PROVE  RewrittenIs(ps, n, q, qs)
<1> USE DEF RewrittenIs
<1>1. CASE n \in 1..Len(ps)
  <2>. HIDE DEF PairRows
  <2>. QED BY <1>1, ExceptSeq DEF Rewritten
<1>2. CASE n \notin 1..Len(ps)
  <2>1. qs = ps
    <3>1. DOMAIN ps = 1..Len(ps)
      OBVIOUS
    <3>. QED BY <1>2, <3>1 DEF Rewritten
  <2>. QED BY <1>2, <2>1
<1>. QED BY <1>1, <1>2

Dated(n, date, ps) == ps = [pairs EXCEPT ![n].dated = date]
LEMMA PairDated ==
    ASSUME pairs \in Seq(PairRows), NEW n, NEW date \in Int, NEW ps, Dated(n, date, ps)
    PROVE  /\ ps \in Seq(PairRows) /\ Len(ps) = Len(pairs)
           /\ \A i \in 1..Len(pairs) :
                /\ ps[i].issued = pairs[i].issued /\ ps[i].spent = pairs[i].spent
                /\ ps[i].dated = IF i = n THEN date ELSE pairs[i].dated
<1>1. PICK p, q : p = pairs[n] /\ q = [p EXCEPT !.dated = date]
  OBVIOUS
<1>2. Rewritten(pairs, n, q, ps)
  BY <1>1 DEF Rewritten, Dated
<1>3. n \in 1..Len(pairs) =>
          q \in PairRows /\ q.dated = date /\ q.issued = p.issued /\ q.spent = p.spent
  <2>1. n \in 1..Len(pairs) => p \in PairRows
    BY <1>1
  <2>. QED BY <1>1, <2>1 DEF PairRows
<1>4. /\ ps \in Seq(PairRows) /\ Len(ps) = Len(pairs)
      /\ \A i \in 1..Len(pairs) : (i = n => ps[i] = q) /\ (i # n => ps[i] = pairs[i])
  <2>1. n \in 1..Len(pairs) => q \in PairRows
    BY <1>3
  <2>2. RewrittenIs(pairs, n, q, ps)
    BY <1>2, <2>1, PairRewritten
  <2>. QED BY <2>2 DEF RewrittenIs
<1>. QED BY <1>1, <1>3, <1>4

Spending(n, ps) == ps = [pairs EXCEPT ![n].spent = TRUE]
LEMMA PairSpent ==
    ASSUME pairs \in Seq(PairRows), NEW n, NEW ps, Spending(n, ps)
    PROVE  /\ ps \in Seq(PairRows) /\ Len(ps) = Len(pairs)
           /\ \A i \in 1..Len(pairs) :
                /\ ps[i].issued = pairs[i].issued /\ ps[i].dated = pairs[i].dated
                /\ i # n => ps[i].spent = pairs[i].spent
<1>1. PICK p, q : p = pairs[n] /\ q = [p EXCEPT !.spent = TRUE]
  OBVIOUS
<1>2. Rewritten(pairs, n, q, ps)
  BY <1>1 DEF Rewritten, Spending
<1>3. n \in 1..Len(pairs) => q \in PairRows /\ q.dated = p.dated /\ q.issued = p.issued
  <2>1. n \in 1..Len(pairs) => p \in PairRows
    BY <1>1
  <2>. QED BY <1>1, <2>1 DEF PairRows
<1>4. /\ ps \in Seq(PairRows) /\ Len(ps) = Len(pairs)
      /\ \A i \in 1..Len(pairs) : (i = n => ps[i] = q) /\ (i # n => ps[i] = pairs[i])
  <2>1. n \in 1..Len(pairs) => q \in PairRows
    BY <1>3
  <2>2. RewrittenIs(pairs, n, q, ps)
    BY <1>2, <2>1, PairRewritten
  <2>. QED BY <2>2 DEF RewrittenIs
<1>. QED BY <1>1, <1>3, <1>4

\* A pair that GitHub issues is the newest.
LEMMA PairJoins ==
    ASSUME NEW ps \in Seq(PairRows), NEW p \in PairRows, NEW qs, qs = Append(ps, p)
    PROVE  /\ qs \in Seq(PairRows) /\ Len(qs) = Len(ps) + 1 /\ qs[Len(qs)] = p
           /\ \A i \in 1..Len(ps) : qs[i] = ps[i]
OBVIOUS

LEMMA IssuedIs ==
    ASSUME clock \in Nat, NEW by \in {"setup", "rotation"}, NEW p, p = Issued(by)
    PROVE  p \in PairRows /\ p.issued = clock /\ p.dated = clock /\ p.spent = FALSE
BY DEF Issued, PairRows

\* What the answer to a rotation issues: the old pair is spent.
LEMMA RotationIssues ==
    ASSUME StoreTypeOK, RotationOK(rotation), RotateAnswered
    PROVE  /\ pairs' \in Seq(PairRows) /\ Len(pairs') = Len(pairs) + 1
           /\ LET p == pairs'[Len(pairs) + 1] IN
                p.issued = clock /\ p.dated = rotation.started /\ ~p.spent
           /\ \A i \in 1..Len(pairs) :
                /\ pairs'[i].issued = pairs[i].issued /\ pairs'[i].dated = pairs[i].dated
                /\ i # rotation.old => pairs'[i].spent = pairs[i].spent
<1>1. PICK ps, was, p : /\ ps = [pairs EXCEPT ![rotation.old].spent = TRUE]
                        /\ was = Issued("rotation")
                        /\ p = [was EXCEPT !.dated = rotation.started]
  OBVIOUS
<1>2. pairs' = Append(ps, p)
  BY <1>1 DEF RotateAnswered
<1>3. clock \in Nat /\ rotation.started \in Nat /\ pairs \in Seq(PairRows)
  BY DEF StoreTypeOK, RotationOK, RotationRows
<1>4. was \in PairRows /\ was.issued = clock /\ was.spent = FALSE
  BY <1>1, <1>3, IssuedIs
<1>5. p \in PairRows /\ p.issued = clock /\ p.dated = rotation.started /\ ~p.spent
  BY <1>1, <1>3, <1>4 DEF PairRows
<1>6. /\ ps \in Seq(PairRows) /\ Len(ps) = Len(pairs)
      /\ \A i \in 1..Len(pairs) :
            /\ ps[i].issued = pairs[i].issued /\ ps[i].dated = pairs[i].dated
            /\ i # rotation.old => ps[i].spent = pairs[i].spent
  <2>1. Spending(rotation.old, ps)
    BY <1>1 DEF Spending
  <2>. QED BY <1>3, <2>1, PairSpent
<1>7. /\ pairs' \in Seq(PairRows) /\ Len(pairs') = Len(ps) + 1 /\ pairs'[Len(pairs')] = p
      /\ \A i \in 1..Len(ps) : pairs'[i] = ps[i]
  BY <1>2, <1>5, <1>6, PairJoins
<1>. QED BY <1>5, <1>6, <1>7

\* The date an enrolment gives its pair.
LEMMA EnrollDates ==
    ASSUME StoreTypeOK, NEW ok, EnrollWrite(ok)
    PROVE  /\ pairs' \in Seq(PairRows) /\ Len(pairs') = Len(pairs)
           /\ Head(cli.todo) # "metadata" => pairs' = pairs
           /\ \A i \in 1..Len(pairs) :
                /\ pairs'[i].issued = pairs[i].issued /\ pairs'[i].spent = pairs[i].spent
                /\ pairs'[i].dated = IF Head(cli.todo) = "metadata" /\ i = cli.new THEN clock
                                     ELSE pairs[i].dated
<1>1. clock \in Int /\ pairs \in Seq(PairRows)
  BY DEF StoreTypeOK
<1>2. CASE Head(cli.todo) = "metadata"
  <2>1. Dated(cli.new, clock, pairs')
    BY <1>2 DEF EnrollWrite, Dated
  <2>. QED BY <1>1, <1>2, <2>1, PairDated
<1>3. CASE Head(cli.todo) # "metadata"
  BY <1>1, <1>3 DEF EnrollWrite
<1>. QED BY <1>2, <1>3

LEMMA MintAnswer ==
    ASSUME clock \in Nat, NEW p \in MintAnswers, p.by = "installation"
    PROVE  p \in PairRows /\ p.issued = clock /\ p.dated <= clock /\ p.spent = FALSE
<1>1. PICK d \in {clock, clock + Margin - AccessLife}, b \in {"installation", "other"} :
          p = [issued |-> clock, dated |-> d, by |-> b, spent |-> FALSE]
  BY DEF MintAnswers
<1>2. d \in Int /\ d <= clock
  BY Lifetimes DEF Margin
<1>3. b = "installation"
  BY <1>1
<1>. QED BY <1>1, <1>2, <1>3 DEF PairRows

\* Histories only grow.
Grows == (raced => raced') /\ (unwound => unwound')
\* What the steps of a use and of a rotation leave alone.
Using(u) ==
    \/ Use(u) \/ ReadStatus(u) \/ ReadMetadata(u) \/ ReadToken(u) \/ Finish(u)
    \/ MintRead(u) \/ MintChecks(u)
LEMMA UsingKeeps ==
    ASSUME NEW u, Using(u)
    PROVE  /\ UNCHANGED <<clock, keyring, pairs, keys, cli, unwound, custody, connection>>
           /\ raced' = (raced \/ WritingGitHub) \/ UNCHANGED raced
<1>1. CASE Use(u) \/ ReadToken(u) \/ Finish(u) \/ MintRead(u) \/ MintChecks(u)
  BY <1>1 DEF Use, ReadToken, Finish, MintRead, MintChecks, setupVars
<1>2. CASE ReadStatus(u)
  BY <1>2 DEF ReadStatus, JoinRotation
<1>3. CASE ReadMetadata(u)
  BY <1>3 DEF ReadMetadata, JoinRotation
<1>. QED BY <1>1, <1>2, <1>3 DEF Using

RotationStep ==
    \/ RotateRead \/ RotateRefused \/ RotateUnreadable \/ RotateAnswered
    \/ \E ok \in BOOLEAN :
           RotateWrite(ok) \/ \E slot \in GitHubSlots : CleanupDelete(slot, ok)
LEMMA RotationStepKeeps ==
    ASSUME RotationStep
    PROVE  UNCHANGED <<clock, keys, cli, raced, unwound, custody, connection>>
<1>1. CASE RotateRead \/ RotateRefused \/ RotateUnreadable
  BY <1>1 DEF RotateRead, RotateRefused, RotateUnreadable, setupVars
<1>2. CASE RotateAnswered
  BY <1>2 DEF RotateAnswered
<1>3. ASSUME NEW ok \in BOOLEAN, RotateWrite(ok)
      PROVE  UNCHANGED <<clock, keys, cli, raced, unwound, custody, connection>>
  BY <1>3 DEF RotateWrite
<1>4. ASSUME NEW ok \in BOOLEAN, NEW slot, CleanupDelete(slot, ok)
      PROVE  UNCHANGED <<clock, keys, cli, raced, unwound, custody, connection>>
  BY <1>4 DEF CleanupDelete
<1>. QED BY <1>1, <1>2, <1>3, <1>4 DEF RotationStep

\* ...and a step of the command line: it stands alone when it writes.
LEMMA SetupStepKeeps ==
    ASSUME StoreTypeOK, CommandOK(cli), SetupNext(Rotating)
    PROVE  /\ clock' = clock /\ keys' \in Nat /\ pairs' \in Seq(PairRows)
           /\ raced' = (raced \/ Rotating) \/ UNCHANGED raced
           /\ unwound' \in BOOLEAN /\ (unwound => unwound')
           /\ WritingGitHub' => WritingGitHub \/ (Rotating => raced')
<1> USE DEF StoreTypeOK
<1> DEFINE Kept == /\ clock' = clock /\ keys' \in Nat /\ pairs' \in Seq(PairRows)
                   /\ raced' = (raced \/ Rotating) \/ UNCHANGED raced
                   /\ unwound' \in BOOLEAN /\ (unwound => unwound')
<1> SUFFICES Kept /\ (WritingGitHub' => WritingGitHub \/ (Rotating => raced'))
  OBVIOUS
<1>1. ASSUME NEW command \in {"enroll", "local", "review"}, NEW phase \in {"authorize", "surface"},
             Begin(command, phase), command = "enroll" => phase = "authorize"
      PROVE  Kept /\ ~WritingGitHub'
  <2>1. cli'.phase = phase /\ cli'.command = command
    BY <1>1, BeginKeeps
  <2>2. Kept
    BY <1>1 DEF Begin
  <2>. QED BY <1>1, <2>1, <2>2 DEF WritingGitHub
<1>2. ASSUME NEW outcome \in Outcomes, End(outcome) PROVE Kept /\ ~WritingGitHub'
  <2>1. cli'.command = "none"
    BY <1>2, EndKeeps
  <2>2. Kept
    BY <1>2 DEF End
  <2>. QED BY <2>1, <2>2 DEF WritingGitHub
<1>3. CASE StartEnroll \/ StartLocal \/ StartReview
  BY <1>1, <1>3 DEF StartEnroll, StartLocal, StartReview
<1>4. CASE AuthorizationFails \/ SurfaceCancel \/ SurfaceExpires \/ Kill
  BY <1>2, <1>4 DEF AuthorizationFails, SurfaceCancel, SurfaceExpires, Kill, Outcomes
<1>5. CASE Authorize(Rotating)
  <2>1. PICK p : p = Issued("setup")
    OBVIOUS
  <2>2. p \in PairRows /\ pairs' = Append(pairs, p)
    BY <1>5, <2>1, IssuedIs DEF Authorize
  <2>3. Kept
    BY <1>5, <2>2 DEF Authorize
  <2>4. Rotating => raced'
    BY <1>5 DEF Authorize
  <2>. QED BY <2>3, <2>4
<1>6. CASE SurfaceSubmit \/ SurfaceRead
  <2>1. CASE End("failed") \/ End("discarded")
    BY <1>2, <2>1 DEF Outcomes
  <2>2. CASE ~End("failed") /\ ~End("discarded")
    <3>1. Kept
      BY <1>6, <2>2 DEF SurfaceSubmit, SurfaceRead
    <3>2. cli.command \in {"local", "review"} /\ cli \in CliRows
      BY <1>6 DEF SurfaceSubmit, SurfaceRead, OnSurface, CommandOK
    <3>3. cli'.command = cli.command
      BY <1>6, <2>2, <3>2 DEF SurfaceSubmit, SurfaceRead, CliRows
    <3>. QED BY <3>1, <3>2, <3>3 DEF WritingGitHub
  <2>. QED BY <2>1, <2>2
<1>7. CASE Verify \/ Snapshot
  <2>1. CASE End("failed")
    BY <1>2, <2>1 DEF Outcomes
  <2>2. CASE ~End("failed")
    <3>1. Kept
      BY <1>7, <2>2 DEF Verify, Snapshot
    <3>2. cli.phase \in {"verify", "snapshot"} /\ cli \in CliRows
      BY <1>7 DEF Verify, Snapshot, CommandOK
    <3>3. cli'.command = cli.command
      BY <1>7, <2>2, <3>2 DEF Verify, Snapshot, CliRows
    <3>. QED BY <3>1, <3>2, <3>3 DEF WritingGitHub
  <2>. QED BY <2>1, <2>2
<1>8. CASE StartRevoke(Rotating)
  <2>1. Kept
    BY <1>8 DEF StartRevoke
  <2>2. PICK command \in {"revoke", "local"} :
          /\ cli' = [Idle("none") EXCEPT !.command = command, !.phase = "delete",
                        !.todo = IF command = "local" THEN <<"research">> ELSE ReadOrder]
          /\ raced' = (raced \/ (command = "revoke" /\ Rotating))
    BY <1>8 DEF StartRevoke
  <2>3. cli'.command = command
    BY <2>2 DEF Idle
  <2>. QED BY <2>1, <2>2, <2>3 DEF WritingGitHub
<1>9. ASSUME NEW ok \in BOOLEAN, EnrollWrite(ok) PROVE Kept /\ WritingGitHub
  <2>1. pairs' \in Seq(PairRows)
    BY <1>9, EnrollDates
  <2>2. Kept
    BY <1>9, <2>1 DEF EnrollWrite
  <2>. QED BY <1>9, <2>2 DEF EnrollWrite, Running, WritingGitHub
<1>10. ASSUME NEW ok \in BOOLEAN, LocalWrite(ok) \/ RevokeDelete(ok) PROVE Kept
  BY <1>10 DEF LocalWrite, RevokeDelete
<1>11. ASSUME NEW ok \in BOOLEAN, NEW slot \in Slots, Restore(slot, ok) PROVE Kept
  BY <1>11 DEF Restore
<1>12. ASSUME NEW ok \in BOOLEAN, LocalWrite(ok) \/ RevokeDelete(ok) \/ \E slot \in Slots : Restore(slot, ok)
       PROVE  WritingGitHub' => WritingGitHub
  <2>1. cli.phase \in {"write", "delete", "restore"} /\ cli \in CliRows
    BY <1>12 DEF LocalWrite, RevokeDelete, Restore, Running, CommandOK
  <2>2. cli'.command \in {cli.command, "none"}
    <3>1. CASE LocalWrite(ok)
      BY <2>1, <3>1 DEF LocalWrite, Idle, Unwind, CliRows
    <3>2. CASE RevokeDelete(ok)
      BY <2>1, <3>2 DEF RevokeDelete, Idle, CliRows
    <3>3. ASSUME NEW slot, Restore(slot, ok) PROVE cli'.command \in {cli.command, "none"}
      BY <2>1, <3>3 DEF Restore, Idle, CliRows
    <3>. QED BY <1>12, <3>1, <3>2, <3>3
  <2>. QED BY <2>1, <2>2 DEF WritingGitHub
<1>13. ASSUME NEW ok \in BOOLEAN, EnrollWrite(ok) \/ LocalWrite(ok) \/ RevokeDelete(ok) \/ \E slot \in Slots : Restore(slot, ok)
       PROVE  Kept /\ (WritingGitHub' => WritingGitHub)
  BY <1>9, <1>10, <1>11, <1>12, <1>13
<1>. HIDE DEF Kept, StoreTypeOK
<1>14. CASE StartEnroll \/ StartLocal \/ StartReview \/ AuthorizationFails \/ SurfaceCancel
            \/ SurfaceExpires \/ Kill \/ SurfaceSubmit \/ SurfaceRead
  BY <1>3, <1>4, <1>6, <1>14
<1>15. CASE \E ok \in BOOLEAN : EnrollWrite(ok) \/ LocalWrite(ok) \/ RevokeDelete(ok)
  BY <1>13, <1>15
<1>16. CASE \E ok \in BOOLEAN, slot \in Slots : Restore(slot, ok)
  BY <1>13, <1>16
<1>. QED BY <1>5, <1>7, <1>8, <1>14, <1>15, <1>16 DEF SetupNext
-----------------------------------------------------------------------------
(* The uses and the rotation, step by step.                                 *)

LEMMA AtType ==
    ASSUME clock \in Nat, NEW pc \in {"idle", "status", "metadata", "waiting", "token",
                                      "installation", "mint", "post", "handed"}, NEW r, r = At(pc)
    PROVE  r \in UseRows /\ r.pc = pc /\ (pc = "token" => r.at = clock)
BY DEF At, UseRows, Missing

\* Where a use may be under a custody.
Places == IF custody = "keyring" THEN {"idle", "status", "metadata", "waiting", "token", "handed"}
          ELSE {"idle", "installation", "mint", "handed"}
                   \cup (IF connection = "installed" THEN {"post"} ELSE {})
LEMMA UsesAre ==
    ASSUME CustodyOK
    PROVE  UsesOK <=> /\ uses \in [Users -> UseRows]
                      /\ \A u \in Users : uses[u].pc \in Places
<1>1. custody \in {"keyring", "managed"} /\ connection \in {"installed", "elsewhere"}
  BY DEF CustodyOK, Custodies
<1>. QED BY <1>1 DEF UsesOK, Places, UseRows

\* A use that moves, fails or is handed a token.
Moves(u, r) == uses' = [uses EXCEPT ![u] = r]
MovesTo(u, r) ==
    /\ uses' \in [Users -> UseRows] /\ uses'[u] = r
    /\ \A v \in Users : v # u => uses'[v] = uses[v]
LEMMA MovesIs ==
    ASSUME uses \in [Users -> UseRows], NEW u \in Users, NEW r \in UseRows, Moves(u, r)
    PROVE  MovesTo(u, r)
<1>. HIDE DEF UseRows
<1>. QED BY DEF Moves, MovesTo

LEMMA MoveIs ==
    ASSUME uses \in [Users -> UseRows], clock \in Nat, NEW u \in Users,
           NEW pc \in {"idle", "status", "metadata", "waiting", "token", "installation", "mint",
                       "post", "handed"}, Move(u, pc)
    PROVE  MovesTo(u, At(pc))
<1>1. PICK r : r = At(pc)
  OBVIOUS
<1>2. r \in UseRows
  BY <1>1, AtType
<1>3. Moves(u, r)
  BY <1>1 DEF Moves, Move
<1>. QED BY <1>1, <1>2, <1>3, MovesIs

LEMMA FailIs ==
    ASSUME uses \in [Users -> UseRows], clock \in Nat, NEW u \in Users, Fail(u)
    PROVE  MovesTo(u, At("idle"))
<1>1. Move(u, "idle")
  BY DEF Fail, Quiet, Move
<1>. QED BY <1>1, MoveIs

\* What a step of a use does to its place.
UseStep(u) == Using(u) \/ MintPost(u)
LEMMA UseMoves ==
    ASSUME ShapeInv, NEW u \in Users, UseStep(u)
    PROVE  \E r \in UseRows : MovesTo(u, r) /\ r.pc \in Places
<1>1. uses \in [Users -> UseRows] /\ clock \in Nat /\ keyring \in [Slots -> Nat]
      /\ (\A v \in Users : uses[v].pc \in Places)
  BY UsesAre DEF ShapeInv, UsesOK, StoreTypeOK
<1>2. custody \in {"keyring", "managed"}
  BY DEF ShapeInv, CustodyOK, Custodies
<1>3. ASSUME NEW pc \in {"idle", "status", "metadata", "waiting", "token", "installation", "mint",
                         "post", "handed"}, Move(u, pc), pc \in Places
      PROVE  \E r \in UseRows : MovesTo(u, r) /\ r.pc \in Places
  <2>1. PICK r : r = At(pc)
    OBVIOUS
  <2>2. r \in UseRows /\ r.pc = pc
    BY <1>1, <2>1, AtType
  <2>3. MovesTo(u, r)
    BY <1>1, <1>3, <2>1, MoveIs
  <2>. QED BY <1>3, <2>2, <2>3
<1>4. CASE Fail(u)
  <2>1. Move(u, "idle") /\ "idle" \in Places
    BY <1>4 DEF Fail, Quiet, Move, Places
  <2>. QED BY <1>3, <2>1
<1>5. CASE Use(u)
  <2>1. CASE custody = "keyring"
    BY <1>3, <1>5, <2>1 DEF Use, Places
  <2>2. CASE custody # "keyring"
    BY <1>3, <1>5, <2>2 DEF Use, Places
  <2>. QED BY <2>1, <2>2
<1>6. uses[u].pc \in {"status", "metadata", "token"} => custody = "keyring"
  BY <1>1, <1>2 DEF Places
<1>7. uses[u].pc \in {"installation", "mint", "post"} => custody # "keyring"
  BY <1>1, <1>2 DEF Places
<1>8. CASE ReadStatus(u) \/ ReadMetadata(u)
  <2>1. {"metadata", "waiting", "token"} \subseteq Places
    BY <1>6, <1>8 DEF ReadStatus, ReadMetadata, Places
  <2>2. Fail(u) \/ Move(u, "metadata") \/ Move(u, "waiting") \/ Move(u, "token")
    BY <1>8 DEF ReadStatus, ReadMetadata, JoinRotation
  <2>. QED BY <1>3, <1>4, <2>1, <2>2
<1>9. CASE ReadToken(u)
  <2>1. CASE uses' = [uses EXCEPT ![u].pc = "handed", ![u].token = Held("default")]
    <3>1. PICK was, held : was = uses[u] /\ held = Held("default")
      OBVIOUS
    <3>2. was \in UseRows /\ held \in Nat
      BY <1>1, <3>1 DEF Held, Slots, GitHubSlots
    <3>3. PICK r : r = [was EXCEPT !.pc = "handed", !.token = held]
      OBVIOUS
    <3>4. r \in UseRows /\ r.pc = "handed"
      BY <3>2, <3>3 DEF UseRows
    <3>5. Moves(u, r)
      BY <1>1, <2>1, <3>1, <3>3 DEF Moves
    <3>. QED BY <1>1, <3>4, <3>5, MovesIs DEF Places
  <2>. QED BY <1>4, <1>9, <2>1 DEF ReadToken
<1>10. CASE Finish(u)
  BY <1>4, <1>10 DEF Finish
<1>11. CASE MintRead(u)
  <2>1. "mint" \in Places
    BY <1>7, <1>11 DEF MintRead, Places
  <2>. QED BY <1>3, <1>4, <1>11, <2>1 DEF MintRead
<1>12. CASE MintChecks(u)
  <2>1. CASE connection = "installed" /\ Move(u, "post")
    <3>1. "post" \in Places
      BY <1>7, <1>12, <2>1 DEF MintChecks, Places
    <3>. QED BY <1>3, <2>1, <3>1
  <2>. QED BY <1>4, <1>12, <2>1 DEF MintChecks
<1>13. CASE MintPost(u)
  <2>1. CASE uses' = [uses EXCEPT ![u].pc = "handed", ![u].token = Len(pairs) + 1]
    <3>1. PICK was, n : was = uses[u] /\ n = Len(pairs) + 1
      OBVIOUS
    <3>2. was \in UseRows /\ n \in Nat
      BY <1>1, <3>1 DEF ShapeInv, StoreTypeOK
    <3>3. PICK r : r = [was EXCEPT !.pc = "handed", !.token = n]
      OBVIOUS
    <3>4. r \in UseRows /\ r.pc = "handed"
      BY <3>2, <3>3 DEF UseRows
    <3>5. Moves(u, r)
      BY <1>1, <2>1, <3>1, <3>3 DEF Moves
    <3>. QED BY <1>1, <3>4, <3>5, MovesIs DEF Places
  <2>. QED BY <1>4, <1>13, <2>1 DEF MintPost
<1>. QED BY <1>5, <1>8, <1>9, <1>10, <1>11, <1>12, <1>13 DEF UseStep, Using

\* The rotation that is over, or that a use starts.
LEMMA NoRotationOK ==
    RotationOK(NoRotation) /\ NoRotation.pc = "none"
<1>1. <<>> \in Todos
  BY DEF Todos
<1>2. PICK none : none = <<>>
  OBVIOUS
<1>3. NoRotation = [pc |-> "none", started |-> 0, old |-> 0, new |-> 0, todo |-> none, left |-> {}]
      /\ none \in Todos
  BY <1>1, <1>2 DEF NoRotation, Missing
<1>. QED BY <1>3 DEF RotationOK, RotationRows

LEMMA JoinIs ==
    ASSUME clock \in Nat, RotationOK(rotation), NEW u, JoinRotation(u)
    PROVE  /\ RotationOK(rotation') /\ rotation'.pc # "none"
           /\ Move(u, "waiting") /\ raced' = (raced \/ WritingGitHub)
           /\ Rotating => rotation' = rotation
           /\ ~Rotating => rotation'.pc = "read" /\ rotation'.started = clock
<1>1. CASE Rotating
  BY <1>1 DEF JoinRotation, Rotating
<1>2. CASE ~Rotating
  <2>1. PICK none : none = NoRotation
    OBVIOUS
  <2>2. none \in RotationRows
    BY <2>1, NoRotationOK DEF RotationOK
  <2>3. rotation' = [none EXCEPT !.pc = "read", !.started = clock]
    BY <1>2, <2>1 DEF JoinRotation
  <2>4. rotation' \in RotationRows /\ rotation'.pc = "read" /\ rotation'.started = clock
    BY <2>2, <2>3 DEF RotationRows
  <2>. QED BY <1>2, <2>4 DEF JoinRotation, RotationOK
<1>. QED BY <1>1, <1>2
LEMMA WaitersAre ==
    ASSUME uses \in [Users -> UseRows], clock \in Nat, NEW pc \in {"idle", "token"}, Waiters(pc)
    PROVE  /\ uses' \in [Users -> UseRows]
           /\ \A u \in Users : /\ uses[u].pc # "waiting" => uses'[u] = uses[u]
                               /\ uses[u].pc = "waiting" => uses'[u].pc = pc
                               /\ uses[u].pc = "waiting" /\ pc = "token" => uses'[u].at = clock
<1>1. PICK r : r = At(pc)
  OBVIOUS
<1>2. r \in UseRows /\ r.pc = pc /\ (pc = "token" => r.at = clock)
  BY <1>1, AtType
<1>3. uses' = [u \in Users |-> IF uses[u].pc # "waiting" THEN uses[u] ELSE r]
  BY <1>1 DEF Waiters
<1>4. uses' \in [Users -> UseRows]
  <2>. HIDE DEF UseRows
  <2>. QED BY <1>2, <1>3
<1>. QED BY <1>2, <1>3, <1>4

\* Either the rotation goes on, or every waiter does.
RotationEnds(pc) == EndRotation(pc) /\ RotationOK(rotation') /\ rotation'.pc = "none"
RotationGoes == UNCHANGED uses /\ RotationOK(rotation') /\ rotation'.pc # "none"
RotationMoves == RotationEnds("idle") \/ RotationEnds("token") \/ RotationGoes

LEMMA CleanupIs ==
    ASSUME RotationOK(rotation), rotation' = Cleanup
    PROVE  RotationOK(rotation') /\ rotation'.pc = "cleanup" /\ rotation'.started = rotation.started
<1>1. PICK none : none = <<>>
  OBVIOUS
<1>2. none \in Todos
  BY <1>1 DEF Todos
<1>3. rotation' = [rotation EXCEPT !.pc = "cleanup", !.todo = none, !.left = GitHubSlots]
  BY <1>1 DEF Cleanup
<1>4. rotation \in RotationRows
  BY DEF RotationOK
<1>5. /\ rotation' \in RotationRows /\ rotation'.pc = "cleanup"
      /\ rotation'.started = rotation.started
  BY <1>2, <1>3, <1>4 DEF RotationRows
<1>. QED BY <1>5 DEF RotationOK

LEMMA RotationKeeps ==
    ASSUME ShapeInv, RotationStep
    PROVE  /\ RotationMoves /\ keyring' \in [Slots -> Nat] /\ pairs' \in Seq(PairRows)
           /\ Rotating
<1>1. /\ clock \in Nat /\ keyring \in [Slots -> Nat] /\ pairs \in Seq(PairRows)
      /\ RotationOK(rotation) /\ rotation \in RotationRows
  BY DEF ShapeInv, StoreTypeOK, RotationOK
<1>2. ASSUME NEW pc, EndRotation(pc) PROVE RotationEnds(pc)
  BY <1>2, NoRotationOK DEF RotationEnds, EndRotation
<1>3. CASE RotateRead
  <2>1. UNCHANGED <<keyring, pairs>> /\ Rotating
    BY <1>3 DEF RotateRead, setupVars, Rotating
  <2>2. CASE UNCHANGED uses /\ rotation' = [rotation EXCEPT !.pc = "request", !.old = Held("refresh")]
    <3>1. PICK held : held = Held("refresh")
      OBVIOUS
    <3>2. held \in Nat
      BY <1>1, <3>1 DEF Held, Slots, GitHubSlots
    <3>3. rotation' = [rotation EXCEPT !.pc = "request", !.old = held]
      BY <2>2, <3>1
    <3>4. rotation' \in RotationRows /\ rotation'.pc = "request"
      BY <1>1, <3>2, <3>3 DEF RotationRows
    <3>. QED BY <1>1, <2>1, <2>2, <3>4 DEF RotationMoves, RotationGoes, RotationOK
  <2>. QED BY <1>1, <1>2, <1>3, <2>1, <2>2 DEF RotateRead, RotationMoves
<1>4. CASE RotateRefused
  <2>1. UNCHANGED <<keyring, pairs>> /\ Rotating
    BY <1>4 DEF RotateRefused, setupVars, Rotating
  <2>. QED BY <1>1, <1>2, <1>4, <2>1 DEF RotateRefused, RotationMoves
<1>5. CASE RotateUnreadable
  <2>1. UNCHANGED <<keyring, pairs>> /\ Rotating
    BY <1>5 DEF RotateUnreadable, setupVars, Rotating
  <2>. QED BY <1>1, <1>5, <2>1, CleanupIs DEF RotateUnreadable, RotationMoves, RotationGoes
<1>6. CASE RotateAnswered
  <2>1. UNCHANGED keyring /\ Rotating
    BY <1>6 DEF RotateAnswered, Rotating
  <2>2. pairs' \in Seq(PairRows)
    BY <1>6, RotationIssues DEF ShapeInv
  <2>3. CASE UNCHANGED uses /\ rotation' = [rotation EXCEPT !.pc = "write", !.new = Len(pairs) + 1,
                                                          !.todo = WriteOrder]
    <3>1. PICK n, todo : n = Len(pairs) + 1 /\ todo = WriteOrder
      OBVIOUS
    <3>2. n \in Nat /\ todo \in Todos /\ todo \in WriteTodos
      BY <1>1, <3>1, OrdersAre DEF Todos
    <3>3. rotation' = [rotation EXCEPT !.pc = "write", !.new = n, !.todo = todo]
      BY <2>3, <3>1
    <3>4. rotation' \in RotationRows /\ rotation'.pc = "write" /\ rotation'.todo = todo
      BY <1>1, <3>2, <3>3 DEF RotationRows
    <3>. QED BY <1>1, <2>1, <2>2, <2>3, <3>2, <3>4 DEF RotationMoves, RotationGoes, RotationOK
  <2>4. CASE UNCHANGED uses /\ rotation' = Cleanup
    BY <1>1, <2>1, <2>2, <2>4, CleanupIs DEF RotationMoves, RotationGoes
  <2>. QED BY <1>1, <1>2, <1>6, <2>1, <2>2, <2>3, <2>4 DEF RotateAnswered, RotationMoves
<1>7. ASSUME NEW ok \in BOOLEAN, RotateWrite(ok)
      PROVE  RotationMoves /\ keyring' \in [Slots -> Nat] /\ UNCHANGED pairs /\ Rotating
  <2>1. UNCHANGED pairs /\ Rotating /\ rotation.new \in Nat /\ rotation.pc = "write"
    BY <1>1, <1>7 DEF RotateWrite, Rotating, RotationRows
  <2>2. keyring' \in [Slots -> Nat]
    BY <1>1, <1>7, <2>1, WriteTyped DEF RotateWrite
  <2>3. CASE UNCHANGED uses /\ rotation' = Cleanup
    BY <1>1, <2>1, <2>2, <2>3, CleanupIs DEF RotationMoves, RotationGoes
  <2>4. CASE UNCHANGED uses /\ Len(rotation.todo) > 1
             /\ rotation' = [rotation EXCEPT !.todo = Tail(rotation.todo)]
    <3>1. PICK todo : todo = Tail(rotation.todo)
      OBVIOUS
    <3>2. todo \in WriteTodos /\ todo \in Todos
      <4>1. rotation.todo \in WriteTodos
        BY <1>1, <2>1 DEF RotationOK
      <4>2. PICK was, n : was = rotation.todo /\ n = Len(was)
        OBVIOUS
      <4>3. n > 1 /\ was \in WriteTodos
        BY <2>4, <4>1, <4>2
      <4>4. n # 1
        BY <4>3
      <4>5. todo \in WriteTodos
        BY <3>1, <4>2, <4>3, <4>4, WriteTodo
      <4>. QED BY <4>5 DEF Todos
    <3>3. rotation' = [rotation EXCEPT !.todo = todo]
      BY <2>4, <3>1
    <3>4. rotation' \in RotationRows /\ rotation'.pc = "write" /\ rotation'.todo = todo
      BY <1>1, <2>1, <3>2, <3>3 DEF RotationRows
    <3>. QED BY <2>1, <2>2, <2>4, <3>2, <3>4 DEF RotationMoves, RotationGoes, RotationOK
  <2>. QED BY <1>2, <1>7, <2>1, <2>2, <2>3, <2>4 DEF RotateWrite, RotationMoves
<1>8. ASSUME NEW ok \in BOOLEAN, NEW slot \in GitHubSlots, CleanupDelete(slot, ok)
      PROVE  RotationMoves /\ keyring' \in [Slots -> Nat] /\ UNCHANGED pairs /\ Rotating
  <2>1. UNCHANGED pairs /\ Rotating /\ rotation.pc = "cleanup"
    BY <1>8 DEF CleanupDelete, Rotating
  <2>2. keyring' \in [Slots -> Nat]
    BY <1>1, <1>8, WriteTyped DEF CleanupDelete, Delete, Missing
  <2>3. CASE UNCHANGED uses /\ rotation' = [rotation EXCEPT !.left = rotation.left \ {slot}]
    <3>1. PICK left : left = rotation.left \ {slot}
      OBVIOUS
    <3>2. left \in SUBSET GitHubSlots
      BY <1>1, <3>1 DEF RotationRows
    <3>3. rotation' = [rotation EXCEPT !.left = left]
      BY <2>3, <3>1
    <3>4. rotation' \in RotationRows /\ rotation'.pc = "cleanup"
      BY <1>1, <2>1, <3>2, <3>3 DEF RotationRows
    <3>. QED BY <2>1, <2>2, <2>3, <3>4 DEF RotationMoves, RotationGoes, RotationOK
  <2>. QED BY <1>2, <1>8, <2>1, <2>2, <2>3 DEF CleanupDelete, RotationMoves
<1>. QED BY <1>1, <1>3, <1>4, <1>5, <1>6, <1>7, <1>8 DEF RotationStep

-----------------------------------------------------------------------------
(* The shape is kept.                                                       *)

NextCases ==
    \/ custody = "keyring" /\ SetupNext(Rotating) /\ UNCHANGED brokerVars
    \/ \E u \in Users : Using(u) \/ MintPost(u)
    \/ RotationStep \/ BrokerCrash \/ Tick
LEMMA NextIs == Next => NextCases
BY DEF Next, NextCases, Using, RotationStep

LEMMA InitShape == Init => ShapeInv
<1> SUFFICES ASSUME Init PROVE ShapeInv
  OBVIOUS
<1>1. PICK p, q : p = Issued("setup") /\ q = [p EXCEPT !.issued = -FirstAge, !.dated = -FirstAge]
  OBVIOUS
<1>2. clock = 0 /\ keys = 0 /\ raced = FALSE /\ unwound = FALSE /\ cli = Idle("none")
  BY DEF Init, SetupInit
<1>3. p \in PairRows /\ -FirstAge \in Int
  <2>1. clock \in Nat
    BY <1>2
  <2>2. p \in PairRows
    BY <1>1, <2>1, IssuedIs
  <2>. QED BY <2>2, SetupBounds
<1>4. q \in PairRows
  BY <1>1, <1>3 DEF PairRows
<1>5. pairs = <<q>> /\ keyring \in [Slots -> Nat]
  BY <1>1 DEF Init, SetupInit, Missing
<1>6. StoreTypeOK
  <2>1. pairs \in Seq(PairRows)
    <3>. HIDE DEF PairRows
    <3>. QED BY <1>4, <1>5
  <2>. QED BY <1>2, <1>5, <2>1 DEF StoreTypeOK
<1>7. CommandOK(cli) /\ cli.phase = "idle" /\ cli.command = "none"
  BY <1>2, IdleOK DEF Outcomes
<1>8. RotationOK(rotation) /\ ~Rotating
  BY NoRotationOK DEF Init, Rotating
<1>9. UsesOK
  <2>1. PICK r : r = At("idle")
    OBVIOUS
  <2>2. r \in UseRows /\ r.pc = "idle"
    BY <1>2, <2>1, AtType
  <2>3. uses = [u \in Users |-> r]
    BY <2>1 DEF Init, Quiet
  <2>4. uses \in [Users -> UseRows]
    <3>. HIDE DEF UseRows
    <3>. QED BY <2>2, <2>3
  <2>. QED BY <2>2, <2>3, <2>4 DEF UsesOK
<1>10. CustodyOK
  BY <1>2, <1>7, <1>8 DEF Init, CustodyOK, Slots, GitHubSlots
<1>11. Alone
  BY <1>8 DEF Alone
<1>. QED BY <1>6, <1>7, <1>8, <1>9, <1>10, <1>11 DEF ShapeInv
LEMMA NextShape == ShapeInv /\ [Next]_vars => ShapeInv'
<1> SUFFICES ASSUME ShapeInv, [Next]_vars PROVE ShapeInv'
  OBVIOUS
<1>0. StoreTypeOK /\ CommandOK(cli) /\ RotationOK(rotation) /\ UsesOK /\ CustodyOK /\ Alone
  BY DEF ShapeInv
<1>1. CASE custody = "keyring" /\ SetupNext(Rotating) /\ UNCHANGED brokerVars
  <2>1. UNCHANGED <<custody, connection, uses, rotation>>
    BY <1>1 DEF brokerVars
  <2>2. CommandOK(cli') /\ keyring' \in [Slots -> Nat]
    BY <1>0, <1>1, SetupKeeps
  <2>3. /\ clock' = clock /\ keys' \in Nat /\ pairs' \in Seq(PairRows)
        /\ raced' = (raced \/ Rotating) \/ UNCHANGED raced
        /\ unwound' \in BOOLEAN /\ (unwound => unwound')
        /\ WritingGitHub' => WritingGitHub \/ (Rotating => raced')
    BY <1>0, <1>1, SetupStepKeeps
  <2>4. raced' \in BOOLEAN /\ (raced => raced')
    <3>1. raced \in BOOLEAN
      BY <1>0 DEF StoreTypeOK
    <3>2. CASE raced' = (raced \/ Rotating)
      BY <3>1, <3>2
    <3>3. CASE UNCHANGED raced
      BY <3>1, <3>3
    <3>. QED BY <2>3, <3>2, <3>3
  <2>5. StoreTypeOK'
    BY <1>0, <2>2, <2>3, <2>4 DEF StoreTypeOK
  <2>6. UsesOK' /\ CustodyOK' /\ RotationOK(rotation')
    BY <1>0, <1>1, <2>1 DEF UsesOK, CustodyOK
  <2>7. Alone'
    BY <1>0, <2>1, <2>3, <2>4 DEF Alone, Rotating
  <2>. QED BY <2>2, <2>5, <2>6, <2>7 DEF ShapeInv
<1>2. ASSUME NEW u \in Users, Using(u) \/ MintPost(u) PROVE ShapeInv'
  <2>1. PICK r \in UseRows : MovesTo(u, r) /\ r.pc \in Places
    BY <1>2, UseMoves DEF UseStep
  <2>2. /\ UNCHANGED <<clock, keyring, keys, cli, unwound, custody, connection>>
        /\ raced' = (raced \/ WritingGitHub) \/ UNCHANGED raced
    BY <1>2, UsingKeeps DEF MintPost
  <2>3. pairs' \in Seq(PairRows)
    <3>1. CASE Using(u)
      BY <1>0, <3>1, UsingKeeps DEF StoreTypeOK
    <3>2. CASE MintPost(u)
      <4>1. UNCHANGED pairs \/ \E p \in MintAnswers : p.by = "installation" /\ pairs' = Append(pairs, p)
        BY <3>2 DEF MintPost
      <4>2. clock \in Nat /\ pairs \in Seq(PairRows)
        BY <1>0 DEF StoreTypeOK
      <4>3. ASSUME NEW p \in MintAnswers, p.by = "installation", pairs' = Append(pairs, p)
            PROVE  pairs' \in Seq(PairRows)
        <5>1. p \in PairRows
          BY <4>2, <4>3, MintAnswer
        <5>. QED BY <4>2, <4>3, <5>1, PairJoins
      <4>. QED BY <4>1, <4>2, <4>3
    <3>. QED BY <1>2, <3>1, <3>2
  <2>4. StoreTypeOK' /\ (raced => raced')
    <3>1. raced \in BOOLEAN
      BY <1>0 DEF StoreTypeOK
    <3>2. raced' \in BOOLEAN /\ (raced => raced')
      <4>1. CASE raced' = (raced \/ WritingGitHub)
        BY <3>1, <4>1
      <4>2. CASE UNCHANGED raced
        BY <3>1, <4>2
      <4>. QED BY <2>2, <4>1, <4>2
    <3>. QED BY <1>0, <2>2, <2>3, <3>2 DEF StoreTypeOK
  <2>5. UsesOK'
    <3>1. /\ uses \in [Users -> UseRows]
          /\ \A v \in Users : uses[v].pc \in Places
      BY <1>0, UsesAre
    <3>2. /\ uses' \in [Users -> UseRows]
          /\ \A v \in Users : uses'[v].pc \in Places
      BY <2>1, <3>1 DEF MovesTo
    <3>3. custody \in {"keyring", "managed"}
      BY <1>0 DEF CustodyOK, Custodies
    <3>. QED BY <2>2, <3>2, <3>3 DEF UsesOK, Places
  <2>6. RotationOK(rotation') /\ (UNCHANGED rotation \/ (custody = "keyring" /\ raced' = (raced \/ WritingGitHub)))
    <3>1. CASE UNCHANGED rotation
      BY <1>0, <3>1
    <3>2. CASE JoinRotation(u) /\ uses[u].pc \in {"status", "metadata"}
      BY <1>0, <3>2, JoinIs DEF UsesOK, StoreTypeOK
    <3>. QED BY <1>2, <3>1, <3>2 DEF Using, Use, ReadStatus, ReadMetadata, ReadToken, Finish,
                                     MintRead, MintChecks, MintPost
  <2>7. Alone'
    BY <1>0, <2>2, <2>4, <2>6 DEF Alone, Rotating, WritingGitHub
  <2>8. CustodyOK'
    <3>1. CASE custody = "managed"
      <4>1. UNCHANGED rotation /\ cli.command = "none" /\ cli.phase = "idle" /\ ~raced /\ ~unwound
        BY <1>0, <2>6, <3>1 DEF CustodyOK, CommandOK
      <4>2. ~WritingGitHub
        BY <4>1 DEF WritingGitHub
      <4>3. ~raced'
        BY <2>2, <4>1, <4>2
      <4>. QED BY <1>0, <2>2, <4>1, <4>3 DEF CustodyOK, Rotating
    <3>2. CASE custody # "managed"
      BY <1>0, <2>2, <3>2 DEF CustodyOK
    <3>. QED BY <3>1, <3>2
  <2>. QED BY <1>0, <2>2, <2>4, <2>5, <2>6, <2>7, <2>8 DEF ShapeInv
<1>3. CASE RotationStep
  <2>1. UNCHANGED <<clock, keys, cli, raced, unwound, custody, connection>>
    BY <1>3, RotationStepKeeps
  <2>2. RotationMoves /\ keyring' \in [Slots -> Nat] /\ pairs' \in Seq(PairRows) /\ Rotating
    BY <1>3, RotationKeeps
  <2>3. StoreTypeOK' /\ RotationOK(rotation')
    BY <1>0, <2>1, <2>2 DEF StoreTypeOK, RotationMoves, RotationEnds, RotationGoes
  <2>4. UsesOK'
    <3>1. CASE UNCHANGED uses
      BY <1>0, <2>1, <3>1 DEF UsesOK
    <3>2. ASSUME NEW pc \in {"idle", "token"}, Waiters(pc) PROVE UsesOK'
      <4>1. uses \in [Users -> UseRows] /\ clock \in Nat
        BY <1>0 DEF UsesOK, StoreTypeOK
      <4>2. /\ uses' \in [Users -> UseRows]
            /\ \A u \in Users : /\ uses[u].pc # "waiting" => uses'[u] = uses[u]
                                /\ uses[u].pc = "waiting" => uses'[u].pc = pc
        BY <3>2, <4>1, WaitersAre
      <4>. QED BY <1>0, <2>1, <4>2 DEF UsesOK
    <3>. QED BY <2>2, <3>1, <3>2 DEF RotationMoves, RotationEnds, RotationGoes, EndRotation
  <2>5. custody = "keyring"
    BY <1>0, <2>2 DEF CustodyOK, Custodies
  <2>6. CustodyOK'
    BY <1>0, <2>1, <2>5 DEF CustodyOK
  <2>7. Alone'
    BY <1>0, <2>1, <2>2 DEF Alone, WritingGitHub
  <2>. QED BY <1>0, <2>1, <2>3, <2>4, <2>6, <2>7 DEF ShapeInv
<1>4. CASE BrokerCrash
  <2>1. UNCHANGED <<clock, keyring, pairs, keys, cli, raced, unwound, custody, connection>>
    BY <1>4 DEF BrokerCrash, setupVars
  <2>2. RotationOK(rotation') /\ ~Rotating'
    BY <1>4, NoRotationOK DEF BrokerCrash, Rotating
  <2>3. UsesOK'
    <3>1. PICK r : r = At("idle")
      OBVIOUS
    <3>2. r \in UseRows /\ r.pc = "idle"
      BY <1>0, <3>1, AtType DEF StoreTypeOK
    <3>3. uses' = [u \in Users |-> r]
      BY <1>4, <3>1 DEF BrokerCrash, Quiet
    <3>4. uses' \in [Users -> UseRows]
      <4>. HIDE DEF UseRows
      <4>. QED BY <3>2, <3>3
    <3>. QED BY <3>2, <3>3, <3>4 DEF UsesOK
  <2>4. StoreTypeOK' /\ CustodyOK' /\ Alone'
    BY <1>0, <2>1, <2>2 DEF StoreTypeOK, CustodyOK, Alone
  <2>. QED BY <1>0, <2>1, <2>2, <2>3, <2>4 DEF ShapeInv
<1>5. CASE Tick
  <2>1. /\ UNCHANGED <<keyring, pairs, keys, cli, raced, unwound, custody, connection, uses, rotation>>
        /\ clock' \in Nat
    BY <1>0, <1>5 DEF Tick, brokerVars, StoreTypeOK
  <2>. QED BY <1>0, <2>1 DEF ShapeInv, StoreTypeOK, UsesOK, CustodyOK, Alone, Rotating, WritingGitHub
<1>6. CASE UNCHANGED vars
  <2>1. UNCHANGED <<clock, keyring, pairs, keys, cli, raced, unwound, custody, connection, uses, rotation>>
    BY <1>6 DEF vars, setupVars, brokerVars
  <2>. QED BY <1>0, <2>1 DEF ShapeInv, StoreTypeOK, UsesOK, CustodyOK, Alone, Rotating, WritingGitHub
<1>. QED BY <1>1, <1>2, <1>3, <1>4, <1>5, <1>6, NextIs DEF NextCases
-----------------------------------------------------------------------------
(* What the store says of the tokens, step by step.                         *)

LEMMA PairFields ==
    ASSUME StoreTypeOK
    PROVE  /\ clock \in Nat /\ Len(pairs) \in Nat
           /\ \A i \in 1..Len(pairs) :
                pairs[i].issued \in Int /\ pairs[i].dated \in Int /\ pairs[i].spent \in BOOLEAN
<1>1. pairs \in Seq(PairRows) /\ clock \in Nat
  BY DEF StoreTypeOK
<1>2. \A i \in 1..Len(pairs) : pairs[i] \in PairRows
  BY <1>1
<1>. QED BY <1>1, <1>2 DEF PairRows

LEMMA CandidateIs ==
    ASSUME NEW p
    PROVE  p \in Candidates <=>
               /\ p # Missing
               /\ \/ p = keyring["default"]
                  \/ Enrolling /\ p = cli.new
                  \/ rotation.pc = "write" /\ p = rotation.new
BY DEF Candidates

\* Every candidate is a pair, and none is older than the metadata's.
LEMMA CandidateNumbers ==
    ASSUME StoreTypeOK, Sound, NEW p \in Candidates
    PROVE  /\ p \in 1..Len(pairs)
           /\ keyring["metadata"] # Missing => keyring["metadata"] \in 1..Len(pairs)
                                               /\ keyring["metadata"] <= p
<1>1. Len(pairs) \in Nat
  BY PairFields
<1>2. /\ keyring["metadata"] \in 0..Len(pairs) /\ keyring["default"] \in 0..Len(pairs)
      /\ keyring["metadata"] # Missing /\ keyring["default"] # Missing =>
            keyring["metadata"] <= keyring["default"]
  BY DEF Sound, MarkerOK, GitHubSlots
<1>3. CASE p = keyring["default"] /\ p # Missing
  BY <1>1, <1>2, <1>3 DEF Missing
<1>4. CASE p = Len(pairs) /\ p # Missing
  BY <1>1, <1>2, <1>4 DEF Missing
<1>5. /\ p # Missing
      /\ p = keyring["default"] \/ p = Len(pairs)
  BY CandidateIs DEF Sound, EnrollmentOK, RotationSound, Newest
<1>. QED BY <1>3, <1>4, <1>5

\* What is fresh by its metadata outlives the reading that follows.
LEMMA VouchedOutlives ==
    ASSUME StoreTypeOK, Sound, keyring["metadata"] # Missing, Fresh(keyring["metadata"]),
           NEW p \in Candidates
    PROVE  Outlives(p, clock)
<1>1. PICK m : m = keyring["metadata"]
  OBVIOUS
<1>2. m \in 1..Len(pairs) /\ p \in 1..Len(pairs) /\ m <= p
  BY <1>1, CandidateNumbers
<1>3. /\ clock \in Nat /\ Len(pairs) \in Nat
      /\ pairs[m].dated \in Int /\ pairs[p].dated \in Int /\ pairs[p].issued \in Int
  BY <1>2, PairFields
<1>4. m = p \/ pairs[m].dated <= pairs[p].issued
  BY <1>2, <1>3 DEF Sound, PairsOK
<1>5. pairs[m].dated + AccessLife > clock + Margin
  BY <1>1 DEF Fresh
<1>6. CASE m = p
  BY <1>3, <1>5, <1>6, Lifetimes DEF Outlives, Margin
<1>7. CASE pairs[m].dated <= pairs[p].issued
  BY <1>3, <1>5, <1>7, Lifetimes DEF Outlives, Margin
<1>. QED BY <1>4, <1>6, <1>7

\* Slots are emptied or left alone.
Fades == \A s \in GitHubSlots : keyring'[s] \in {keyring[s], Missing}
\* The rotation stays, is over, cleans up, or has yet to write a pair.
Rests ==
    \/ rotation' = rotation
    \/ rotation'.pc = "none"
    \/ rotation'.pc = "cleanup" /\ Rotating /\ rotation'.started = rotation.started
    \/ /\ rotation'.pc \in {"read", "request"} /\ Stale(keyring["metadata"])
       /\ rotation'.started = clock \/ (Rotating /\ rotation'.started = rotation.started)
       /\ rotation'.pc = "request" => rotation'.old \in 1..Len(pairs)
\* A use decides to read the token only while what it may find lasts long enough.
Stills ==
    \A u \in Users : uses'[u].pc = "token" =>
        \/ uses'[u] = uses[u]
        \/ uses'[u].at = clock /\ \A p \in Candidates : Outlives(p, clock)
\* No enrolment takes up a pair.
Holds == Enrolling' => Enrolling /\ cli'.new = cli.new

\* Steps that store nothing new keep what the store says.
LEMMA QuietKeeps ==
    ASSUME StoreTypeOK, Sound, UNCHANGED <<clock, pairs>>, Fades, Rests, Stills, Holds,
           rotation'.pc = "write" => keyring'["default"] = keyring["default"]
    PROVE  Sound'
<1>0. PairsOK /\ MarkerOK /\ EnrollmentOK /\ RotationSound /\ TokensOK
  BY DEF Sound
<1>1. PairsOK'
  BY <1>0 DEF PairsOK
<1>2. Len(pairs) \in Nat
  BY PairFields
<1>3. MarkerOK'
  <2>1. \A s \in GitHubSlots : keyring'[s] \in 0..Len(pairs)
    BY <1>0, <1>2 DEF MarkerOK, Fades, Missing
  <2>2. /\ keyring'["metadata"] \in {keyring["metadata"], Missing}
        /\ keyring'["default"] \in {keyring["default"], Missing}
    BY DEF Fades, GitHubSlots
  <2>. QED BY <1>0, <2>1, <2>2 DEF MarkerOK, Fresh
<1>4. EnrollmentOK'
  BY <1>0 DEF EnrollmentOK, Holds, Newest
<1>5. RotationSound'
  <2>1. CASE rotation' = rotation
    <3>1. keyring'["metadata"] \in {keyring["metadata"], Missing}
      BY DEF Fades, GitHubSlots
    <3>2. Stale(keyring["metadata"]) => Stale(keyring["metadata"])'
      BY <3>1 DEF Stale, Fresh
    <3>. QED BY <1>0, <2>1, <3>2 DEF RotationSound, Newest, Rotating
  <2>2. CASE rotation'.pc \in {"none", "cleanup"}
    BY <1>0, <2>2 DEF RotationSound, Rests, Rotating
  <2>3. CASE /\ rotation'.pc \in {"read", "request"} /\ Stale(keyring["metadata"])
             /\ rotation'.started = clock \/ (Rotating /\ rotation'.started = rotation.started)
             /\ rotation'.pc = "request" => rotation'.old \in 1..Len(pairs)
    <3>1. keyring'["metadata"] \in {keyring["metadata"], Missing}
      BY DEF Fades, GitHubSlots
    <3>2. Stale(keyring["metadata"])'
      BY <2>3, <3>1 DEF Stale, Fresh
    <3>3. clock \in Nat
      BY PairFields
    <3>. QED BY <1>0, <2>3, <3>2, <3>3 DEF RotationSound, Rotating
  <2>. QED BY <2>1, <2>2, <2>3 DEF Rests
<1>6. TokensOK'
  <2>1. ASSUME NEW p \in Candidates' PROVE p \in Candidates
    <3>1. /\ p # Missing
          /\ \/ p = keyring'["default"]
             \/ Enrolling' /\ p = cli'.new
             \/ rotation'.pc = "write" /\ p = rotation'.new
      BY <2>1 DEF Candidates
    <3>2. CASE p = keyring'["default"]
      BY <3>1, <3>2, CandidateIs DEF Fades, GitHubSlots
    <3>3. CASE Enrolling' /\ p = cli'.new
      BY <3>1, <3>3, CandidateIs DEF Holds
    <3>4. CASE rotation'.pc = "write" /\ p = rotation'.new
      BY <3>1, <3>4, CandidateIs DEF Rests
    <3>. QED BY <3>1, <3>2, <3>3, <3>4
  <2>2. ASSUME NEW at, TokenOK(at) PROVE TokenOK(at)'
    BY <2>1, <2>2 DEF TokenOK, Outlives
  <2>3. ASSUME NEW u \in Users, uses'[u].pc = "token" PROVE TokenOK(uses[u].at)'
    <3>1. PICK at : at = uses'[u].at
      OBVIOUS
    <3>2. clock \in Nat
      BY PairFields
    <3>3. TokenOK(at)
      BY <1>0, <2>3, <3>1, <3>2 DEF Stills, TokensOK, TokenOK
    <3>4. TokenOK(at)'
      BY <2>2, <3>3
    <3>. QED BY <3>1, <3>4 DEF TokenOK
  <2>. QED BY <2>3 DEF TokensOK
<1>. QED BY <1>1, <1>3, <1>4, <1>5, <1>6 DEF Sound
\* GitHub issues a pair, or a token, dated now or before.
NewPair ==
    /\ Len(pairs') = Len(pairs) + 1
    /\ LET p == pairs'[Len(pairs) + 1] IN p.issued = clock /\ p.dated \in Int /\ p.dated <= clock
    /\ \A i \in 1..Len(pairs) :
           pairs'[i].issued = pairs[i].issued /\ pairs'[i].dated = pairs[i].dated
LEMMA NewPairKeeps ==
    ASSUME StoreTypeOK, PairsOK, NewPair, clock' = clock, NEW n, n = Len(pairs)
    PROVE  /\ PairsOK'
           /\ \A p \in 1..n : Fresh(p)' <=> Fresh(p)
           /\ \A p \in 1..n : \A at : Outlives(p, at) => Outlives(p, at)'
           /\ \A at \in Nat : at <= clock => Outlives(n + 1, at)'
<1>1. PICK new : new = pairs'[n + 1]
  OBVIOUS
<1>2. /\ n \in Nat /\ clock \in Nat
      /\ \A i \in 1..n : pairs[i].issued \in Int /\ pairs[i].dated \in Int
  BY <1>1, PairFields
<1>3. /\ Len(pairs') = n + 1 /\ new.issued = clock /\ new.dated \in Int /\ new.dated <= clock
      /\ \A i \in 1..n : pairs'[i].issued = pairs[i].issued /\ pairs'[i].dated = pairs[i].dated
  BY <1>1 DEF NewPair
<1>4. PairsOK'
  <2>1. ASSUME NEW i \in 1..n + 1 PROVE pairs'[i].issued <= clock /\ pairs'[i].dated <= clock
    <3>1. CASE i = n + 1
      BY <1>1, <1>2, <1>3, <3>1
    <3>2. CASE i \in 1..n
      BY <1>1, <1>3, <3>2 DEF PairsOK
    <3>. QED BY <1>2, <3>1, <3>2
  <2>2. ASSUME NEW i \in 1..n + 1, NEW j \in 1..n + 1, i < j
        PROVE  pairs'[i].issued <= pairs'[j].issued /\ pairs'[i].dated <= pairs'[j].issued
    <3>1. i \in 1..n
      BY <1>2, <2>2
    <3>2. CASE j = n + 1
      BY <1>1, <1>2, <1>3, <3>1, <3>2 DEF PairsOK
    <3>3. CASE j \in 1..n
      BY <1>1, <1>3, <2>2, <3>1, <3>3 DEF PairsOK
    <3>. QED BY <1>2, <3>2, <3>3
  <2>. QED BY <1>3, <2>1, <2>2 DEF PairsOK
<1>5. \A p \in 1..n : Fresh(p)' <=> Fresh(p)
  BY <1>1, <1>3 DEF Fresh
<1>6. \A p \in 1..n : \A at : Outlives(p, at) => Outlives(p, at)'
  BY <1>1, <1>3 DEF Outlives
<1>7. ASSUME NEW at \in Nat, at <= clock PROVE Outlives(n + 1, at)'
  BY <1>1, <1>2, <1>3, <1>7, Lifetimes DEF Outlives, Margin
<1>. QED BY <1>4, <1>5, <1>6, <1>7

\* The keyring's slots stay numbers of pairs, and the metadata's age stays known.
LEMMA OldPairs ==
    ASSUME StoreTypeOK, MarkerOK, Len(pairs') = Len(pairs) + 1, UNCHANGED keyring
    PROVE  /\ \A s \in GitHubSlots : keyring'[s] \in 0..Len(pairs')
           /\ \A s \in GitHubSlots : keyring[s] # Missing => keyring[s] \in 1..Len(pairs)
<1>1. Len(pairs) \in Nat /\ \A s \in GitHubSlots : keyring[s] \in 0..Len(pairs)
  BY PairFields DEF MarkerOK
<1>. QED BY <1>1 DEF Missing

LEMMA UseAt ==
    ASSUME UsesOK, NEW u \in Users
    PROVE  uses[u].at \in Nat
BY DEF UsesOK, UseRows

\* A poll returns the pair that an enrolment will store.
LEMMA AuthorizeSound ==
    ASSUME ShapeInv, Sound, Authorize(Rotating), UNCHANGED brokerVars, ~raced'
    PROVE  Sound'
<1>0. /\ StoreTypeOK /\ CommandOK(cli) /\ UsesOK
      /\ PairsOK /\ MarkerOK /\ EnrollmentOK /\ RotationSound /\ TokensOK
  BY DEF ShapeInv, Sound
<1>1. PICK n, new : n = Len(pairs) /\ new = Issued("setup")
  OBVIOUS
<1>2. /\ UNCHANGED <<clock, keyring, uses, rotation>> /\ ~Rotating
      /\ pairs' = Append(pairs, new) /\ cli.phase = "authorize"
      /\ cli' = [cli EXCEPT !.phase = "verify", !.new = n + 1]
  BY <1>1 DEF Authorize, brokerVars, Running
<1>3. /\ new \in PairRows /\ new.issued = clock /\ new.dated = clock /\ ~new.spent
      /\ clock \in Nat /\ n \in Nat /\ pairs \in Seq(PairRows)
  BY <1>0, <1>1, IssuedIs, PairFields DEF StoreTypeOK
<1>4. /\ Len(pairs') = n + 1 /\ pairs'[n + 1] = new
      /\ \A i \in 1..n : pairs'[i] = pairs[i]
  <2>1. /\ Len(pairs') = Len(pairs) + 1 /\ pairs'[Len(pairs')] = new
        /\ \A i \in 1..Len(pairs) : pairs'[i] = pairs[i]
    BY <1>2, <1>3, PairJoins
  <2>. QED BY <1>1, <2>1
<1>5. NewPair
  BY <1>1, <1>3, <1>4 DEF NewPair
<1>6. /\ PairsOK'
      /\ \A p \in 1..n : Fresh(p)' <=> Fresh(p)
      /\ \A p \in 1..n : \A at : Outlives(p, at) => Outlives(p, at)'
      /\ \A at \in Nat : at <= clock => Outlives(n + 1, at)'
  BY <1>0, <1>1, <1>2, <1>5, NewPairKeeps
<1>7. cli \in CliRows /\ cli'.new = n + 1
  BY <1>0, <1>2 DEF CommandOK, CliRows
<1>8. MarkerOK'
  <2>1. /\ \A s \in GitHubSlots : keyring'[s] \in 0..Len(pairs')
        /\ \A s \in GitHubSlots : keyring[s] # Missing => keyring[s] \in 1..n
    BY <1>0, <1>1, <1>2, <1>4, OldPairs
  <2>2. /\ keyring["metadata"] # Missing => keyring["metadata"] \in 1..n
        /\ keyring["default"] # Missing => keyring["default"] \in 1..n
    BY <2>1 DEF GitHubSlots
  <2>. QED BY <1>0, <1>2, <1>4, <1>6, <2>1, <2>2 DEF MarkerOK
<1>9. EnrollmentOK'
  BY <1>3, <1>4, <1>7 DEF EnrollmentOK, Newest
<1>10. RotationSound'
  BY <1>2 DEF RotationSound, Rotating
<1>11. TokensOK'
  <2>1. ASSUME NEW p \in Candidates' PROVE p = n + 1 \/ p \in Candidates
    BY <1>2, <1>7, <2>1 DEF Candidates, Rotating
  <2>2. ASSUME NEW at \in Nat, TokenOK(at) PROVE TokenOK(at)'
    <3>1. ASSUME NEW p \in Candidates' PROVE Outlives(p, at)'
      <4>1. CASE p = n + 1
        BY <1>6, <2>2, <4>1 DEF TokenOK
      <4>2. CASE p \in Candidates
        <5>1. p \in 1..n
          BY <1>0, <1>1, <4>2, CandidateNumbers
        <5>. QED BY <1>6, <2>2, <4>2, <5>1 DEF TokenOK
      <4>. QED BY <2>1, <4>1, <4>2
    <3>. QED BY <1>2, <2>2, <3>1 DEF TokenOK
  <2>. QED BY <1>0, <1>2, <2>2, UseAt DEF TokensOK
<1>. QED BY <1>6, <1>8, <1>9, <1>10, <1>11 DEF Sound
\* The state of an enrolment that writes.
LEMMA EnrollWriteIs ==
    ASSUME ShapeInv, ~raced, NEW ok \in BOOLEAN, EnrollWrite(ok)
    PROVE  /\ cli.command = "enroll" /\ cli.phase = "write" /\ Enrolling /\ ~Rotating
           /\ cli.todo \in WriteTodos /\ Head(cli.todo) \in GitHubSlots
           /\ \A s \in Slots : s # Head(cli.todo) => keyring'[s] = keyring[s]
           /\ ok => keyring'[Head(cli.todo)] = cli.new
           /\ ok /\ Len(cli.todo) = 1 => cli' = Idle("stored") /\ cli'.command = "none"
           /\ ok /\ Len(cli.todo) # 1 =>
                /\ cli'.new = cli.new /\ cli'.command = "enroll" /\ cli'.phase = "write"
                /\ cli'.todo = Tail(cli.todo) /\ cli'.todo \in WriteTodos
           /\ ~ok => /\ cli'.phase = "restore" /\ cli'.command = "enroll" /\ unwound'
                     /\ cli'.left = GitHubSlots
<1>1. cli.command = "enroll" /\ cli.phase = "write" /\ CommandOK(cli) /\ cli \in CliRows
  BY DEF ShapeInv, EnrollWrite, Running, CommandOK
<1>2. Enrolling /\ ~Rotating
  BY <1>1 DEF Enrolling, ShapeInv, Alone, WritingGitHub
<1>3. cli.todo \in WriteTodos /\ DOMAIN cli.saved = GitHubSlots
  BY <1>1 DEF CommandOK
<1>4. PICK slot, new : slot = Head(cli.todo) /\ new = cli.new
  OBVIOUS
<1>5. slot \in GitHubSlots /\ slot \in Slots
  BY <1>3, <1>4, WriteTodo DEF Slots
<1>6. /\ \A s \in Slots : s # slot => keyring'[s] = keyring[s]
      /\ ok => keyring'[slot] = new
  <2>1. Write(slot, new, ok)
    BY <1>4 DEF EnrollWrite
  <2>2. new \in Nat /\ keyring \in [Slots -> Nat]
    BY <1>1, <1>4 DEF CliRows, ShapeInv, StoreTypeOK
  <2>. QED BY <1>5, <2>1, <2>2, WriteTyped
<1>7. ok /\ Len(cli.todo) = 1 => cli' = Idle("stored") /\ cli'.command = "none"
  <2>1. ok /\ Len(cli.todo) = 1 => cli' = Idle("stored")
    BY DEF EnrollWrite
  <2>. QED BY <2>1 DEF Idle
<1>8. ASSUME ok, Len(cli.todo) # 1
      PROVE  /\ cli'.new = cli.new /\ cli'.command = "enroll" /\ cli'.phase = "write"
             /\ cli'.todo = Tail(cli.todo) /\ cli'.todo \in WriteTodos
  <2>1. cli' = [cli EXCEPT !.todo = Tail(cli.todo)]
    BY <1>8 DEF EnrollWrite
  <2>2. Tail(cli.todo) \in WriteTodos
    BY <1>3, <1>8, WriteTodo
  <2>. QED BY <1>1, <1>8, <2>1, <2>2, NextSlotKeeps
<1>9. ~ok => /\ cli'.phase = "restore" /\ cli'.command = "enroll" /\ unwound'
             /\ cli'.left = GitHubSlots
  <2>1. ~ok => cli' = Unwind /\ unwound'
    BY DEF EnrollWrite
  <2>. QED BY <1>1, <1>3, <2>1, UnwindKeeps
<1>. QED BY <1>1, <1>2, <1>3, <1>4, <1>5, <1>6, <1>7, <1>8, <1>9

\* An enrolment writes the newest pair, and dates it last.
LEMMA EnrollWriteSound ==
    ASSUME ShapeInv, Sound, RewritesOK, NEW ok \in BOOLEAN, EnrollWrite(ok),
           UNCHANGED brokerVars, ~raced', ~unwound'
    PROVE  Sound'
<1>0. /\ StoreTypeOK /\ UsesOK /\ ~raced
      /\ PairsOK /\ MarkerOK /\ EnrollmentOK /\ RotationSound /\ TokensOK
  BY DEF ShapeInv, Sound, EnrollWrite
<1>1. PICK slot, n : slot = Head(cli.todo) /\ n = Len(pairs)
  OBVIOUS
<1>2. /\ cli.command = "enroll" /\ cli.phase = "write" /\ Enrolling /\ ~Rotating /\ ok
      /\ cli.todo \in WriteTodos /\ slot \in GitHubSlots
      /\ \A s \in Slots : s # slot => keyring'[s] = keyring[s]
      /\ keyring'[slot] = cli.new
      /\ Enrolling' => cli'.new = cli.new
  BY <1>0, <1>1, EnrollWriteIs DEF Enrolling
<1>3. /\ UNCHANGED <<clock, uses, rotation>> /\ clock \in Nat /\ n \in Nat /\ n # 0 /\ cli.new = n
      /\ ~pairs[n].spent
      /\ \A i \in 1..n : pairs[i].issued \in Int /\ pairs[i].dated \in Int
  BY <1>0, <1>1, <1>2, PairFields DEF EnrollWrite, brokerVars, EnrollmentOK, Newest
<1>4. /\ Len(pairs') = n
      /\ \A i \in 1..n :
            /\ pairs'[i].issued = pairs[i].issued /\ pairs'[i].spent = pairs[i].spent
            /\ pairs'[i].dated = IF slot = "metadata" /\ i = n THEN clock ELSE pairs[i].dated
  BY <1>0, <1>1, <1>3, EnrollDates
<1>5. PairsOK'
  <2>1. ASSUME NEW i \in 1..n PROVE pairs'[i].issued <= clock /\ pairs'[i].dated <= clock
    BY <1>0, <1>1, <1>3, <1>4, <2>1 DEF PairsOK
  <2>2. ASSUME NEW i \in 1..n, NEW j \in 1..n, i < j
        PROVE  pairs'[i].issued <= pairs'[j].issued /\ pairs'[i].dated <= pairs'[j].issued
    <3>1. i # n
      BY <1>3, <2>2
    <3>. QED BY <1>0, <1>1, <1>4, <2>2, <3>1 DEF PairsOK
  <2>. QED BY <1>3, <1>4, <2>1, <2>2 DEF PairsOK
<1>6. slot = "metadata" => keyring["default"] = n
  <2>1. slot = "metadata" => SlotsOf(cli.todo) = {"metadata"}
    BY <1>1, <1>2, WriteTodo
  <2>. QED BY <1>2, <1>3, <2>1 DEF RewritesOK, GitHubSlots
<1>7. MarkerOK'
  <2>1. \A s \in GitHubSlots : keyring'[s] \in 0..n
    <3>1. \A s \in GitHubSlots : keyring[s] \in 0..n
      BY <1>0, <1>1 DEF MarkerOK
    <3>2. n \in 0..n
      BY <1>3
    <3>. QED BY <1>2, <1>3, <3>1, <3>2 DEF Slots
  <2>2. PICK m, d : m = keyring["metadata"] /\ d = keyring["default"]
    OBVIOUS
  <2>3. /\ m \in 0..n /\ d \in 0..n
        /\ m # 0 /\ d # 0 => m <= d /\ (Fresh(m) => ~pairs[d].spent)
    BY <1>0, <1>1, <2>2 DEF MarkerOK, GitHubSlots, Missing
  <2>4. CASE slot = "metadata"
    <3>1. keyring'["metadata"] = n /\ keyring'["default"] = n /\ ~pairs'[n].spent
      BY <1>2, <1>3, <1>4, <1>6, <2>4 DEF Slots, GitHubSlots
    <3>. QED BY <1>3, <1>4, <2>1, <3>1 DEF MarkerOK
  <2>5. CASE slot = "default"
    <3>1. keyring'["metadata"] = m /\ keyring'["default"] = n /\ ~pairs'[n].spent
      BY <1>2, <1>3, <1>4, <2>2, <2>5 DEF Slots, GitHubSlots
    <3>. QED BY <1>3, <1>4, <2>1, <2>3, <3>1 DEF MarkerOK
  <2>6. CASE slot = "refresh"
    <3>1. keyring'["metadata"] = m /\ keyring'["default"] = d
      BY <1>2, <2>2, <2>6 DEF Slots, GitHubSlots
    <3>2. m # 0 => (Fresh(m)' <=> Fresh(m))
      BY <1>3, <1>4, <2>3, <2>6 DEF Fresh
    <3>3. d # 0 => pairs'[d].spent = pairs[d].spent
      BY <1>3, <1>4, <2>3
    <3>. QED BY <1>4, <2>1, <2>3, <3>1, <3>2, <3>3 DEF MarkerOK, Missing
  <2>. QED BY <1>2, <2>4, <2>5, <2>6 DEF GitHubSlots
<1>8. EnrollmentOK'
  BY <1>2, <1>3, <1>4 DEF EnrollmentOK, Newest
<1>9. RotationSound'
  BY <1>2, <1>3 DEF RotationSound, Rotating
<1>10. TokensOK'
  <2>1. ASSUME NEW p \in Candidates' PROVE p \in Candidates
    <3>1. p # Missing /\ (p = keyring'["default"] \/ p = cli.new)
      BY <1>2, <1>3, <2>1 DEF Candidates, Rotating
    <3>2. keyring'["default"] = keyring["default"] \/ keyring'["default"] = cli.new
      BY <1>2 DEF Slots, GitHubSlots
    <3>. QED BY <1>2, <3>1, <3>2, CandidateIs
  <2>2. ASSUME NEW at \in Nat, TokenOK(at) PROVE TokenOK(at)'
    <3>1. ASSUME NEW p \in Candidates' PROVE Outlives(p, at)'
      <4>1. p \in 1..n /\ Outlives(p, at) /\ at <= clock
        BY <1>0, <1>1, <2>1, <2>2, <3>1, CandidateNumbers DEF TokenOK
      <4>2. CASE slot = "metadata" /\ p = n
        <5>1. pairs'[p].dated = clock /\ pairs'[p].issued = pairs[p].issued /\ pairs[p].issued \in Int
              /\ pairs[p].issued <= clock
          BY <1>0, <1>1, <1>3, <1>4, <4>1, <4>2 DEF PairsOK
        <5>. QED BY <1>3, <4>1, <5>1, Lifetimes DEF Outlives, Margin
      <4>3. CASE ~(slot = "metadata" /\ p = n)
        BY <1>4, <4>1, <4>3 DEF Outlives
      <4>. QED BY <4>2, <4>3
    <3>. QED BY <1>3, <2>2, <3>1 DEF TokenOK
  <2>. QED BY <1>0, <1>3, <2>2, UseAt DEF TokensOK
<1>. QED BY <1>5, <1>7, <1>8, <1>9, <1>10 DEF Sound
\* Steps of the command line that issue no pair and write none of GitHub's slots
\* but to empty them.
Quietly ==
    /\ UNCHANGED <<clock, pairs>> /\ Fades /\ Holds /\ RewritesOK'
    /\ Rotating => raced' \/ keyring'["default"] = keyring["default"]

LEMMA RewritesNothing ==
    ASSUME cli'.command # "enroll" \/ cli'.phase \notin {"write", "restore"}
    PROVE  RewritesOK'
BY DEF RewritesOK

LEMMA FadesNot ==
    ASSUME UNCHANGED keyring
    PROVE  Fades /\ keyring'["default"] = keyring["default"]
BY DEF Fades

LEMMA BeginQuiet ==
    ASSUME NEW command \in {"enroll", "local", "review"}, NEW phase \in {"authorize", "surface"},
           Begin(command, phase)
    PROVE  Quietly
<1>1. cli'.phase = phase
  BY BeginKeeps
<1>. QED BY <1>1, RewritesNothing, FadesNot DEF Begin, Quietly, Holds, Enrolling

LEMMA EndQuiet ==
    ASSUME NEW outcome \in Outcomes, End(outcome)
    PROVE  Quietly
<1>1. cli'.phase = "idle"
  BY EndKeeps
<1>. QED BY <1>1, RewritesNothing, FadesNot DEF End, Quietly, Holds, Enrolling

LEMMA ObtainQuiet ==
    ASSUME ShapeInv, SurfaceSubmit \/ SurfaceRead \/ Verify
    PROVE  Quietly
<1>1. cli \in CliRows
  BY DEF ShapeInv, CommandOK
<1>2. CASE End("failed") \/ End("discarded")
  BY <1>2, EndQuiet DEF Outcomes
<1>3. CASE ~End("failed") /\ ~End("discarded")
  <2>1. UNCHANGED <<clock, pairs, keyring>>
    BY <1>3 DEF SurfaceSubmit, SurfaceRead, Verify
  <2>2. CASE SurfaceSubmit \/ SurfaceRead
    <3>1. cli.command # "enroll"
      BY <2>2 DEF SurfaceSubmit, SurfaceRead, OnSurface
    <3>2. cli'.command = cli.command
      BY <1>1, <1>3, <2>2 DEF SurfaceSubmit, SurfaceRead, CliRows
    <3>. QED BY <2>1, <3>1, <3>2, RewritesNothing, FadesNot DEF Quietly, Holds, Enrolling
  <2>3. CASE Verify
    <3>1. /\ cli.phase = "verify" /\ cli'.phase = "snapshot" /\ cli'.command = cli.command
          /\ cli'.new = cli.new
      BY <1>1, <1>3, <2>3 DEF Verify, CliRows
    <3>. QED BY <2>1, <3>1, RewritesNothing, FadesNot DEF Quietly, Holds, Enrolling
  <2>. QED BY <2>2, <2>3
<1>. QED BY <1>2, <1>3

LEMMA SnapshotQuiet ==
    ASSUME ShapeInv, Snapshot
    PROVE  Quietly
<1>1. cli \in CliRows /\ cli.phase = "snapshot"
  BY DEF ShapeInv, CommandOK, Snapshot
<1>2. CASE End("failed")
  BY <1>2, EndQuiet DEF Outcomes
<1>3. CASE ~End("failed")
  <2>1. UNCHANGED <<clock, pairs, keyring>>
    BY <1>3 DEF Snapshot
  <2>2. cli'.command = cli.command /\ cli'.new = cli.new
    BY <1>1, <1>3 DEF Snapshot, CliRows
  <2>3. \/ cli'.phase = "snapshot"
        \/ cli'.phase = "write" /\ cli'.todo = Handled(WriteOrder)
    BY <1>1, <1>3 DEF Snapshot, CliRows
  <2>4. RewritesOK'
    <3>1. CASE cli'.command = "enroll" /\ cli'.phase = "write"
      <4>1. cli'.todo = WriteOrder
        BY <2>2, <2>3, <3>1 DEF Handled
      <4>2. GitHubSlots \ SlotsOf(cli'.todo) = {}
        BY <4>1, OrdersAre
      <4>. QED BY <3>1, <4>2 DEF RewritesOK
    <3>2. CASE ~(cli'.command = "enroll" /\ cli'.phase = "write")
      BY <2>3, <3>2 DEF RewritesOK
    <3>. QED BY <3>1, <3>2
  <2>5. Holds
    BY <1>1, <2>2 DEF Holds, Enrolling
  <2>. QED BY <2>1, <2>4, <2>5, FadesNot DEF Quietly
<1>. QED BY <1>2, <1>3

LEMMA StartRevokeQuiet ==
    ASSUME StartRevoke(Rotating)
    PROVE  Quietly
<1>1. cli'.phase = "delete"
  BY StartRevokeKeeps
<1>. QED BY <1>1, RewritesNothing, FadesNot DEF StartRevoke, Quietly, Holds, Enrolling

LEMMA LocalWriteQuiet ==
    ASSUME ShapeInv, NEW ok \in BOOLEAN, LocalWrite(ok)
    PROVE  Quietly
<1>1. cli \in CliRows /\ cli.phase = "write" /\ cli.command = "local" /\ CommandOK(cli)
  BY DEF ShapeInv, CommandOK, LocalWrite, Running
<1>2. UNCHANGED <<clock, pairs>>
  BY DEF LocalWrite
<1>3. \A s \in GitHubSlots : keyring'[s] = keyring[s]
  <2>1. cli.new \in Nat /\ keyring \in [Slots -> Nat]
    BY <1>1 DEF CliRows, ShapeInv, StoreTypeOK
  <2>2. \A s \in Slots : s # "research" => keyring'[s] = keyring[s]
    BY <2>1, WriteTyped DEF LocalWrite
  <2>. QED BY <2>2 DEF Slots, GitHubSlots
<1>4. cli'.command # "enroll"
  <2>1. CASE cli' = Idle("stored")
    BY <2>1, EndKeeps DEF Outcomes
  <2>2. CASE cli' = Unwind
    BY <1>1, <2>2, UnwindKeeps
  <2>. QED BY <2>1, <2>2 DEF LocalWrite
<1>. QED BY <1>2, <1>3, <1>4, RewritesNothing DEF Quietly, Fades, Holds, Enrolling, GitHubSlots

LEMMA RevokeQuiet ==
    ASSUME ShapeInv, NEW ok \in BOOLEAN, RevokeDelete(ok)
    PROVE  Quietly
<1>1. cli \in CliRows /\ cli.phase = "delete" /\ CommandOK(cli) /\ UNCHANGED raced
  BY DEF ShapeInv, CommandOK, RevokeDelete
<1>2. UNCHANGED <<clock, pairs>>
  BY DEF RevokeDelete
<1>3. PICK slot : slot = Head(cli.todo)
  OBVIOUS
<1>4. /\ \A s \in Slots : s # slot => keyring'[s] = keyring[s]
      /\ slot \in Slots => keyring'[slot] \in {keyring[slot], Missing}
  <2>1. keyring \in [Slots -> Nat] /\ Missing \in Nat /\ Write(slot, Missing, ok)
    BY <1>3 DEF ShapeInv, StoreTypeOK, RevokeDelete, Delete, Missing
  <2>. QED BY <2>1, WriteTyped
<1>5. Fades
  BY <1>4 DEF Fades, Slots
<1>6. cli'.phase \in {"idle", "delete"}
  <2>1. CASE cli' = Idle("failed") \/ cli' = Idle("deleted")
    BY <2>1, EndKeeps DEF Outcomes
  <2>2. CASE Len(cli.todo) # 1 /\ cli' = [cli EXCEPT !.todo = Tail(cli.todo)]
    BY <1>1, <2>2, NextSlotKeeps
  <2>. QED BY <2>1, <2>2 DEF RevokeDelete
<1>7. Rotating => raced' \/ keyring'["default"] = keyring["default"]
  <2>1. CASE cli.command = "revoke"
    BY <1>1, <2>1 DEF ShapeInv, Alone, WritingGitHub
  <2>2. CASE cli.command = "local" /\ cli.todo = KeyTodo
    <3>1. slot = "research"
      BY <1>3, <2>2, KeyTodoIs
    <3>. QED BY <1>4, <3>1 DEF Slots, GitHubSlots
  <2>. QED BY <1>1, <2>1, <2>2 DEF CommandOK
<1>. QED BY <1>2, <1>5, <1>6, <1>7, RewritesNothing DEF Quietly, Holds, Enrolling

\* A slot is put back: GitHub's only after an enrolment.
LEMMA RestoreRewrites ==
    ASSUME ShapeInv, RewritesOK, NEW ok \in BOOLEAN, NEW slot \in Slots, Restore(slot, ok)
    PROVE  /\ RewritesOK'
           /\ ~unwound' => Quietly
<1>1. /\ cli \in CliRows /\ cli.phase = "restore" /\ CommandOK(cli) /\ UNCHANGED <<unwound, clock, pairs>>
      /\ slot \in cli.left /\ cli.left \subseteq DOMAIN cli.saved
  BY DEF ShapeInv, CommandOK, Restore
<1>2. /\ \A s \in Slots : s # slot => keyring'[s] = keyring[s]
      /\ ok => keyring'[slot] = cli.saved[slot]
  <2>1. PICK value : value = cli.saved[slot]
    OBVIOUS
  <2>2. cli.saved \in Saves
    BY <1>1 DEF CliRows
  <2>3. value \in Nat /\ keyring \in [Slots -> Nat] /\ Write(slot, value, ok)
    BY <1>1, <2>1, <2>2 DEF Saves, ShapeInv, StoreTypeOK, Restore
  <2>. QED BY <2>1, <2>3, WriteTyped
<1>3. CASE cli.command = "local"
  <2>1. slot = "research"
    BY <1>1, <1>3 DEF CommandOK
  <2>2. cli'.command # "enroll"
    BY <1>1, <1>3 DEF Restore, Idle, CliRows
  <2>. QED BY <1>1, <1>2, <2>1, <2>2, RewritesNothing
           DEF Quietly, Fades, Holds, Enrolling, Slots, GitHubSlots
<1>4. CASE cli.command = "enroll"
  <2>1. unwound' /\ unwound
    BY <1>1, <1>4 DEF RewritesOK
  <2>2. CASE cli'.phase # "restore"
    <3>1. cli'.phase = "idle"
      BY <1>1, <2>2 DEF Restore, Idle, CliRows
    <3>. QED BY <2>1, <3>1, RewritesNothing
  <2>3. CASE cli'.phase = "restore"
    <3>1. cli' = [cli EXCEPT !.left = cli.left \ {slot}, !.clean = cli.clean /\ ok]
      BY <2>3 DEF Restore, Idle
    <3>2. PICK left, clean : left = cli.left \ {slot} /\ clean = (cli.clean /\ ok)
      OBVIOUS
    <3>3. cli' = [cli EXCEPT !.left = left, !.clean = clean]
      BY <3>1, <3>2
    <3>4. cli'.left = left /\ cli'.clean = clean /\ cli'.saved = cli.saved
      BY <1>1, <3>3 DEF CliRows
    <3>5. ASSUME clean, NEW s \in GitHubSlots \ left PROVE keyring'[s] = cli.saved[s]
      <4>1. cli.clean /\ ok
        BY <3>2, <3>5
      <4>2. CASE s = slot
        BY <1>2, <4>1, <4>2
      <4>3. CASE s # slot
        BY <1>1, <1>2, <1>4, <3>2, <3>5, <4>1, <4>3 DEF RewritesOK, Slots
      <4>. QED BY <4>2, <4>3
    <3>. QED BY <2>1, <2>3, <3>4, <3>5 DEF RewritesOK
  <2>. QED BY <2>1, <2>2, <2>3
<1>. QED BY <1>1, <1>3, <1>4 DEF CommandOK
LEMMA EnrollWriteRewrites ==
    ASSUME ShapeInv, RewritesOK, ~raced, NEW ok \in BOOLEAN, EnrollWrite(ok)
    PROVE  RewritesOK'
<1>1. PICK slot : slot = Head(cli.todo)
  OBVIOUS
<1>2. /\ cli.command = "enroll" /\ cli.phase = "write" /\ cli.todo \in WriteTodos
      /\ slot \in GitHubSlots
      /\ \A s \in Slots : s # slot => keyring'[s] = keyring[s]
      /\ ok => keyring'[slot] = cli.new
  BY <1>1, EnrollWriteIs
<1>3. CASE ~ok
  <2>1. cli'.phase = "restore" /\ unwound' /\ cli'.left = GitHubSlots
    BY <1>3, EnrollWriteIs
  <2>2. GitHubSlots \ cli'.left = {}
    BY <2>1
  <2>. QED BY <2>1, <2>2 DEF RewritesOK
<1>4. CASE ok /\ Len(cli.todo) = 1
  <2>1. cli'.command = "none"
    BY <1>4, EnrollWriteIs
  <2>. QED BY <2>1, RewritesNothing
<1>5. CASE ok /\ Len(cli.todo) # 1
  <2>1. /\ cli'.new = cli.new /\ cli'.command = "enroll" /\ cli'.phase = "write"
        /\ cli'.todo = Tail(cli.todo)
    BY <1>5, EnrollWriteIs
  <2>2. SlotsOf(cli'.todo) = SlotsOf(cli.todo) \ {slot}
    BY <1>1, <1>2, <1>5, <2>1, WriteTodo
  <2>3. ASSUME NEW s \in GitHubSlots \ SlotsOf(cli'.todo) PROVE keyring'[s] = cli.new
    <3>1. CASE s = slot
      BY <1>2, <1>5, <3>1
    <3>2. CASE s # slot
      BY <1>2, <2>2, <2>3, <3>2 DEF RewritesOK, Slots
    <3>. QED BY <3>1, <3>2
  <2>. QED BY <2>1, <2>3 DEF RewritesOK
<1>. QED BY <1>3, <1>4, <1>5

LEMMA QuietlySound ==
    ASSUME StoreTypeOK, Sound, Quietly, UNCHANGED brokerVars, ~raced'
    PROVE  Sound'
<1>1. UNCHANGED <<uses, rotation>>
  BY DEF brokerVars
<1>2. Rests /\ Stills
  BY <1>1 DEF Rests, Stills
<1>3. /\ UNCHANGED <<clock, pairs>> /\ Fades /\ Holds
      /\ rotation'.pc = "write" => keyring'["default"] = keyring["default"]
  BY <1>1 DEF Quietly, Rotating
<1>. QED BY <1>2, <1>3, QuietKeeps

\* Every step of the command line.
SetupSteps == RewritesOK' /\ (~unwound' => Sound')
LEMMA SetupSound ==
    ASSUME ShapeInv, SoundInv, SetupNext(Rotating), UNCHANGED brokerVars, ~raced'
    PROVE  SetupSteps
<1>0. StoreTypeOK /\ CommandOK(cli) /\ raced \in BOOLEAN
  BY DEF ShapeInv, StoreTypeOK
<1>1. ~raced /\ (unwound => unwound')
  <2>1. raced' = (raced \/ Rotating) \/ UNCHANGED raced
    BY <1>0, SetupStepKeeps
  <2>2. unwound => unwound'
    BY <1>0, SetupStepKeeps
  <2>. QED BY <1>0, <2>1, <2>2
<1>2. RewritesOK /\ (~unwound' => Sound)
  BY <1>1 DEF SoundInv
<1>3. ASSUME Quietly PROVE SetupSteps
  BY <1>0, <1>2, <1>3, QuietlySound DEF SetupSteps, Quietly
<1>4. CASE StartEnroll \/ StartLocal \/ StartReview
  BY <1>3, <1>4, BeginQuiet DEF StartEnroll, StartLocal, StartReview
<1>5. CASE AuthorizationFails \/ SurfaceCancel \/ SurfaceExpires \/ Kill
  BY <1>3, <1>5, EndQuiet DEF AuthorizationFails, SurfaceCancel, SurfaceExpires, Kill, Outcomes
<1>6. CASE SurfaceSubmit \/ SurfaceRead \/ Verify
  BY <1>3, <1>6, ObtainQuiet
<1>7. CASE Snapshot
  BY <1>3, <1>7, SnapshotQuiet
<1>8. CASE StartRevoke(Rotating)
  BY <1>3, <1>8, StartRevokeQuiet
<1>9. CASE Authorize(Rotating)
  <2>1. RewritesOK'
    <3>1. cli \in CliRows
      BY <1>0 DEF CommandOK
    <3>2. cli'.phase = "verify"
      BY <1>9, <3>1 DEF Authorize, CliRows
    <3>. QED BY <3>2, RewritesNothing
  <2>. QED BY <1>2, <1>9, <2>1, AuthorizeSound DEF SetupSteps
<1>10. ASSUME NEW ok \in BOOLEAN, EnrollWrite(ok) PROVE SetupSteps
  <2>1. RewritesOK'
    BY <1>1, <1>2, <1>10, EnrollWriteRewrites
  <2>. QED BY <1>2, <1>10, <2>1, EnrollWriteSound DEF SetupSteps
<1>11. ASSUME NEW ok \in BOOLEAN, LocalWrite(ok) PROVE SetupSteps
  BY <1>3, <1>11, LocalWriteQuiet
<1>12. ASSUME NEW ok \in BOOLEAN, RevokeDelete(ok) PROVE SetupSteps
  BY <1>3, <1>12, RevokeQuiet
<1>13. ASSUME NEW ok \in BOOLEAN, NEW slot \in Slots, Restore(slot, ok) PROVE SetupSteps
  <2>1. RewritesOK' /\ (~unwound' => Quietly)
    BY <1>2, <1>13, RestoreRewrites
  <2>. QED BY <1>3, <2>1 DEF SetupSteps
<1>. QED BY <1>4, <1>5, <1>6, <1>7, <1>8, <1>9, <1>10, <1>11, <1>12, <1>13 DEF SetupNext

-----------------------------------------------------------------------------
(* What the store says of the tokens: the uses.                             *)

LEMMA UsingCases ==
    ASSUME ShapeInv, Sound, NEW u \in Users, Using(u)
    PROVE  Stills /\ Rests
<1>1. uses \in [Users -> UseRows] /\ clock \in Nat /\ RotationOK(rotation)
  BY DEF ShapeInv, UsesOK, StoreTypeOK
<1>2. ASSUME NEW pc \in {"idle", "status", "metadata", "waiting", "installation", "mint", "post"},
             Move(u, pc)
      PROVE  Stills
  <2>1. MovesTo(u, At(pc))
    BY <1>1, <1>2, MoveIs
  <2>2. uses'[u].pc # "token" /\ \A v \in Users : v # u => uses'[v] = uses[v]
    BY <1>2, <2>1 DEF MovesTo, At
  <2>. QED BY <2>2 DEF Stills
<1>3. Fail(u) => Stills
  BY <1>2 DEF Fail, Quiet, Move
<1>4. CASE Use(u) \/ MintRead(u) \/ MintChecks(u) \/ Finish(u)
  BY <1>2, <1>3, <1>4 DEF Use, MintRead, MintChecks, Finish, Rests
<1>5. CASE ReadToken(u)
  <2>1. ASSUME uses' = [uses EXCEPT ![u].pc = "handed", ![u].token = Held("default")] PROVE Stills
    <3>1. PICK was, r, held : was = uses[u] /\ held = Held("default")
                              /\ r = [was EXCEPT !.pc = "handed", !.token = held]
      OBVIOUS
    <3>2. was \in UseRows
      BY <1>1, <3>1
    <3>3. r.pc = "handed"
      BY <3>1, <3>2 DEF UseRows
    <3>4. uses' = [uses EXCEPT ![u] = r]
      BY <1>1, <2>1, <3>1
    <3>. QED BY <1>1, <3>3, <3>4 DEF Stills
  <2>. QED BY <1>3, <1>5, <2>1 DEF ReadToken, Rests
<1>6. ASSUME JoinRotation(u), Stale(keyring["metadata"]) PROVE Stills /\ Rests
  <2>1. /\ Move(u, "waiting")
        /\ rotation' = rotation \/ (rotation'.pc = "read" /\ rotation'.started = clock)
    BY <1>1, <1>6, JoinIs
  <2>. QED BY <1>2, <1>6, <2>1 DEF Rests
<1>7. CASE ReadStatus(u)
  BY <1>2, <1>3, <1>6, <1>7 DEF ReadStatus, Held, Stale, Rests
<1>8. CASE ReadMetadata(u)
  <2>1. CASE Fail(u) /\ UNCHANGED rotation
    BY <1>3, <2>1 DEF Rests
  <2>2. CASE /\ Move(u, "token") /\ UNCHANGED rotation
             /\ keyring["metadata"] # Missing /\ Fresh(keyring["metadata"])
    <3>1. PICK r : r = At("token")
      OBVIOUS
    <3>2. r \in UseRows /\ r.at = clock
      BY <1>1, <3>1, AtType
    <3>3. MovesTo(u, r)
      BY <1>1, <2>2, <3>1, MoveIs
    <3>4. \A p \in Candidates : Outlives(p, clock)
      BY <2>2, VouchedOutlives DEF ShapeInv
    <3>5. uses'[u].at = clock /\ \A v \in Users : v # u => uses'[v] = uses[v]
      BY <3>2, <3>3 DEF MovesTo
    <3>. QED BY <2>2, <3>4, <3>5 DEF Stills, Rests
  <2>3. CASE JoinRotation(u) /\ Stale(keyring["metadata"])
    BY <1>6, <2>3
  <2>. QED BY <1>8, <2>1, <2>2, <2>3 DEF ReadMetadata, Held, Stale
<1>. QED BY <1>4, <1>5, <1>7, <1>8 DEF Using
LEMMA UsingSound ==
    ASSUME ShapeInv, Sound, NEW u \in Users, Using(u)
    PROVE  Sound'
<1>1. UNCHANGED <<clock, keyring, pairs, cli>>
  BY UsingKeeps
<1>2. Stills /\ Rests
  BY UsingCases
<1>3. Fades /\ Holds /\ keyring'["default"] = keyring["default"] /\ StoreTypeOK
  BY <1>1, FadesNot DEF Holds, Enrolling, ShapeInv
<1>. QED BY <1>1, <1>2, <1>3, QuietKeeps

\* A token is minted under the managed custody, where the keyring is not used.
LEMMA MintSound ==
    ASSUME ShapeInv, Sound, NEW u \in Users, MintPost(u)
    PROVE  Sound'
<1>0. /\ StoreTypeOK /\ CommandOK(cli) /\ UsesOK /\ CustodyOK
      /\ PairsOK /\ MarkerOK /\ EnrollmentOK /\ RotationSound /\ TokensOK
      /\ uses \in [Users -> UseRows]
  BY DEF ShapeInv, Sound, UsesOK
<1>1. /\ custody = "managed" /\ cli.command = "none" /\ ~Rotating /\ keyring["metadata"] = Missing
      /\ UNCHANGED <<clock, keyring, cli, rotation>> /\ ~Enrolling /\ uses[u].pc = "post"
  BY <1>0 DEF MintPost, UsesOK, CustodyOK, CommandOK, Enrolling
<1>2. CASE Fail(u) /\ UNCHANGED pairs
  <2>1. MovesTo(u, At("idle"))
    BY <1>0, <1>2, FailIs DEF StoreTypeOK
  <2>2. uses'[u].pc # "token" /\ \A v \in Users : v # u => uses'[v] = uses[v]
    BY <2>1 DEF MovesTo, At
  <2>3. Stills /\ Rests /\ Fades /\ Holds /\ keyring'["default"] = keyring["default"]
    BY <1>1, <2>2, FadesNot DEF Stills, Rests, Holds, Enrolling
  <2>. QED BY <1>0, <1>1, <1>2, <2>3, QuietKeeps
<1>3. ASSUME NEW answer \in MintAnswers, answer.by = "installation", pairs' = Append(pairs, answer)
      PROVE  Sound'
  <2>1. PICK n : n = Len(pairs)
    OBVIOUS
  <2>2. /\ answer \in PairRows /\ answer.issued = clock /\ answer.dated <= clock
        /\ answer.dated \in Int /\ pairs \in Seq(PairRows)
    <3>1. answer \in PairRows /\ answer.issued = clock /\ answer.dated <= clock
      BY <1>0, <1>3, MintAnswer DEF StoreTypeOK
    <3>. QED BY <1>0, <3>1 DEF StoreTypeOK, PairRows
  <2>3. /\ Len(pairs') = n + 1 /\ pairs'[n + 1] = answer
        /\ \A i \in 1..n : pairs'[i] = pairs[i]
    <3>1. /\ Len(pairs') = Len(pairs) + 1 /\ pairs'[Len(pairs')] = answer
          /\ \A i \in 1..Len(pairs) : pairs'[i] = pairs[i]
      BY <1>3, <2>2, PairJoins
    <3>. QED BY <2>1, <3>1
  <2>4. NewPair
    BY <2>1, <2>2, <2>3 DEF NewPair
  <2>5. PairsOK'
    BY <1>0, <1>1, <2>1, <2>4, NewPairKeeps
  <2>6. MarkerOK'
    <3>1. \A s \in GitHubSlots : keyring'[s] \in 0..Len(pairs')
      BY <1>0, <1>1, <2>1, <2>3, OldPairs
    <3>. QED BY <1>1, <3>1 DEF MarkerOK
  <2>7. EnrollmentOK' /\ RotationSound'
    BY <1>1 DEF EnrollmentOK, RotationSound, Rotating, Enrolling
  <2>8. TokensOK'
    <3>1. \A v \in Users : uses'[v].pc # "token"
      <4>1. \A v \in Users : uses[v].pc # "token"
        BY <1>0, <1>1 DEF UsesOK
      <4>2. PICK r \in UseRows : MovesTo(u, r) /\ r.pc \in Places
        BY UseMoves DEF UseStep
      <4>3. r.pc # "token"
        BY <1>1, <4>2 DEF Places
      <4>. QED BY <4>1, <4>2, <4>3 DEF MovesTo
    <3>. QED BY <3>1 DEF TokensOK
  <2>. QED BY <2>5, <2>6, <2>7, <2>8 DEF Sound
<1>. QED BY <1>2, <1>3 DEF MintPost

-----------------------------------------------------------------------------
(* What the store says of the tokens: the rotation.                         *)

\* A rotation has GitHub's slots for itself.
LEMMA RotatingAlone ==
    ASSUME ShapeInv, Rotating, ~raced
    PROVE  ~WritingGitHub /\ ~Enrolling
BY DEF ShapeInv, Alone, WritingGitHub, Enrolling

LEMMA EndStills ==
    ASSUME uses \in [Users -> UseRows], clock \in Nat, EndRotation("idle")
    PROVE  Stills /\ Rests
<1>1. Waiters("idle") /\ rotation'.pc = "none"
  BY NoRotationOK DEF EndRotation
<1>2. \A u \in Users : uses'[u] = uses[u] \/ uses'[u].pc = "idle"
  BY <1>1, WaitersAre
<1>. QED BY <1>1, <1>2 DEF Stills, Rests

\* Steps of a rotation that store nothing.
LEMMA RotationQuiet ==
    ASSUME ShapeInv, Sound, ~raced,
           \/ RotateRead \/ RotateRefused \/ RotateUnreadable
           \/ \E ok \in BOOLEAN, slot \in GitHubSlots : CleanupDelete(slot, ok)
    PROVE  Sound'
<1>0. /\ StoreTypeOK /\ CommandOK(cli) /\ UsesOK /\ RotationOK(rotation) /\ rotation \in RotationRows
      /\ PairsOK /\ MarkerOK /\ EnrollmentOK /\ RotationSound /\ TokensOK
      /\ uses \in [Users -> UseRows] /\ clock \in Nat
  BY DEF ShapeInv, Sound, UsesOK, RotationOK, StoreTypeOK
<1>1. CASE RotateRead
  <2>1. UNCHANGED <<clock, keyring, pairs, cli>>
    BY <1>1 DEF RotateRead, setupVars
  <2>2. Stills /\ Rests
    <3>1. CASE UNCHANGED uses /\ Held("refresh") # Missing
               /\ rotation' = [rotation EXCEPT !.pc = "request", !.old = Held("refresh")]
      <4>1. PICK held : held = Held("refresh")
        OBVIOUS
      <4>2. held \in 1..Len(pairs)
        <5>1. held \in 0..Len(pairs) /\ held # 0 /\ Len(pairs) \in Nat
          BY <1>0, <3>1, <4>1, PairFields DEF MarkerOK, GitHubSlots, Held, Missing
        <5>. QED BY <5>1
      <4>3. rotation' = [rotation EXCEPT !.pc = "request", !.old = held]
        BY <3>1, <4>1
      <4>4. rotation'.pc = "request" /\ rotation'.old = held /\ rotation'.started = rotation.started
        BY <1>0, <4>3 DEF RotationRows
      <4>5. Rotating /\ Stale(keyring["metadata"])
        BY <1>0, <1>1 DEF RotationSound, Rotating, RotateRead
      <4>. QED BY <3>1, <4>2, <4>4, <4>5 DEF Stills, Rests
    <3>. QED BY <1>0, <1>1, <3>1, EndStills DEF RotateRead
  <2>3. Fades /\ Holds
    BY <2>1, FadesNot DEF Holds, Enrolling
  <2>. QED BY <1>0, <2>1, <2>2, <2>3, QuietKeeps
<1>2. CASE RotateRefused \/ RotateUnreadable
  <2>1. UNCHANGED <<clock, keyring, pairs, cli>> /\ Rotating
    BY <1>2 DEF RotateRefused, RotateUnreadable, setupVars, Rotating
  <2>2. Stills /\ Rests
    <3>1. CASE UNCHANGED uses /\ rotation' = Cleanup
      BY <1>0, <2>1, <3>1, CleanupIs DEF Stills, Rests
    <3>. QED BY <1>0, <1>2, <3>1, EndStills DEF RotateRefused, RotateUnreadable
  <2>3. Fades /\ Holds
    BY <2>1, FadesNot DEF Holds, Enrolling
  <2>. QED BY <1>0, <2>1, <2>2, <2>3, QuietKeeps
<1>3. ASSUME NEW ok \in BOOLEAN, NEW slot \in GitHubSlots, CleanupDelete(slot, ok)
      PROVE  Sound'
  <2>1. UNCHANGED <<clock, pairs, cli>> /\ Rotating /\ rotation.pc = "cleanup"
    BY <1>3 DEF CleanupDelete, Rotating
  <2>2. Stills /\ Rests /\ rotation'.pc # "write"
    <3>1. CASE UNCHANGED uses /\ rotation' = [rotation EXCEPT !.left = rotation.left \ {slot}]
      <4>1. rotation'.pc = "cleanup" /\ rotation'.started = rotation.started
        BY <1>0, <2>1, <3>1 DEF RotationRows
      <4>. QED BY <2>1, <3>1, <4>1 DEF Stills, Rests
    <3>2. CASE EndRotation("idle")
      BY <1>0, <3>2, EndStills, NoRotationOK DEF EndRotation
    <3>. QED BY <1>3, <3>1, <3>2 DEF CleanupDelete
  <2>3. Fades
    <3>1. keyring \in [Slots -> Nat] /\ Missing \in Nat /\ Write(slot, Missing, ok) /\ slot \in Slots
      BY <1>0, <1>3 DEF StoreTypeOK, CleanupDelete, Delete, Missing, Slots
    <3>2. \A s \in Slots : s # slot => keyring'[s] = keyring[s]
      BY <3>1, WriteTyped
    <3>3. keyring'[slot] = Missing \/ keyring'[slot] = keyring[slot]
      BY <3>1, WriteTyped
    <3>. QED BY <3>2, <3>3 DEF Fades, Slots
  <2>4. Holds
    BY <2>1 DEF Holds, Enrolling
  <2>. QED BY <1>0, <2>1, <2>2, <2>3, <2>4, QuietKeeps
<1>. QED BY <1>1, <1>2, <1>3
\* The answer to a rotation: the old pair is spent while the metadata is stale.
LEMMA AnsweredSound ==
    ASSUME ShapeInv, Sound, ~raced, RotateAnswered
    PROVE  Sound'
<1>0. /\ StoreTypeOK /\ UsesOK /\ RotationOK(rotation) /\ rotation \in RotationRows
      /\ PairsOK /\ MarkerOK /\ EnrollmentOK /\ RotationSound /\ TokensOK
      /\ uses \in [Users -> UseRows] /\ clock \in Nat
  BY DEF ShapeInv, Sound, UsesOK, RotationOK, StoreTypeOK
<1>1. PICK n, started : n = Len(pairs) /\ started = rotation.started
  OBVIOUS
<1>2. /\ UNCHANGED <<clock, keyring, cli>> /\ rotation.pc = "request" /\ Rotating
      /\ n \in Nat /\ started \in Nat /\ started <= clock /\ clock <= started + 2
  BY <1>0, <1>1, PairFields DEF RotateAnswered, Rotating, RotationSound, RotationRows
<1>3. ~Enrolling /\ ~Enrolling'
  BY <1>2, RotatingAlone DEF Enrolling
<1>4. /\ Len(pairs') = n + 1
      /\ pairs'[n + 1].issued = clock /\ pairs'[n + 1].dated = started /\ ~pairs'[n + 1].spent
      /\ \A i \in 1..n : pairs'[i].issued = pairs[i].issued /\ pairs'[i].dated = pairs[i].dated
  BY <1>0, <1>1, RotationIssues
<1>5. NewPair
  BY <1>1, <1>2, <1>4 DEF NewPair
<1>6. /\ PairsOK'
      /\ \A p \in 1..n : Fresh(p)' <=> Fresh(p)
      /\ \A p \in 1..n : \A at : Outlives(p, at) => Outlives(p, at)'
      /\ \A at \in Nat : at <= clock => Outlives(n + 1, at)'
  BY <1>0, <1>1, <1>2, <1>5, NewPairKeeps
<1>7. Stale(keyring["metadata"])
  BY <1>0, <1>2 DEF RotationSound
<1>8. MarkerOK'
  <2>1. /\ \A s \in GitHubSlots : keyring'[s] \in 0..Len(pairs')
        /\ \A s \in GitHubSlots : keyring[s] # Missing => keyring[s] \in 1..n
    BY <1>0, <1>1, <1>2, <1>4, OldPairs
  <2>2. keyring["metadata"] # Missing => ~Fresh(keyring["metadata"])'
    BY <1>2, <1>6, <1>7, <2>1 DEF Stale, GitHubSlots
  <2>. QED BY <1>0, <1>2, <2>1, <2>2 DEF MarkerOK
<1>9. EnrollmentOK'
  BY <1>3 DEF EnrollmentOK
<1>10. \/ rotation'.pc = "cleanup" /\ rotation'.started = started /\ UNCHANGED uses
       \/ rotation'.pc = "none" /\ Waiters("idle")
       \/ /\ rotation'.pc = "write" /\ rotation'.started = started /\ UNCHANGED uses
          /\ rotation'.new = n + 1 /\ rotation'.todo = WriteOrder
  <2>1. CASE UNCHANGED uses /\ rotation' = Cleanup
    BY <1>0, <1>1, <2>1, CleanupIs
  <2>2. CASE EndRotation("idle")
    BY <2>2, NoRotationOK DEF EndRotation
  <2>3. CASE UNCHANGED uses /\ rotation' = [rotation EXCEPT !.pc = "write", !.new = n + 1,
                                                          !.todo = WriteOrder]
    <3>1. PICK todo : todo = WriteOrder
      OBVIOUS
    <3>2. rotation' = [rotation EXCEPT !.pc = "write", !.new = n + 1, !.todo = todo]
      BY <2>3, <3>1
    <3>3. /\ rotation'.pc = "write" /\ rotation'.started = started
          /\ rotation'.new = n + 1 /\ rotation'.todo = todo
      BY <1>0, <1>1, <3>2 DEF RotationRows
    <3>. QED BY <2>3, <3>1, <3>3
  <2>. QED BY <1>1, <2>1, <2>2, <2>3 DEF RotateAnswered
<1>11. RotationSound'
  <2>1. CASE rotation'.pc = "write" /\ rotation'.started = started
             /\ rotation'.new = n + 1 /\ rotation'.todo = WriteOrder
    <3>1. Newest(rotation.new)'
      BY <1>2, <1>4, <2>1 DEF Newest, Missing
    <3>. QED BY <1>2, <1>4, <2>1, <3>1, OrdersAre DEF RotationSound, Rotating
  <2>2. CASE rotation'.pc \in {"none", "cleanup"} /\ (rotation'.pc = "none" \/ rotation'.started = started)
    BY <1>2, <2>2 DEF RotationSound, Rotating
  <2>. QED BY <1>10, <2>1, <2>2
<1>12. TokensOK'
  <2>1. ASSUME NEW p \in Candidates' PROVE p = n + 1 \/ p \in Candidates
    BY <1>2, <1>3, <1>10, <2>1 DEF Candidates
  <2>2. ASSUME NEW at \in Nat, TokenOK(at) PROVE TokenOK(at)'
    <3>1. ASSUME NEW p \in Candidates' PROVE Outlives(p, at)'
      <4>1. CASE p = n + 1
        BY <1>6, <2>2, <4>1 DEF TokenOK
      <4>2. CASE p \in Candidates
        <5>1. p \in 1..n
          BY <1>0, <1>1, <4>2, CandidateNumbers DEF Sound
        <5>. QED BY <1>6, <2>2, <4>2, <5>1 DEF TokenOK
      <4>. QED BY <2>1, <4>1, <4>2
    <3>. QED BY <1>2, <2>2, <3>1 DEF TokenOK
  <2>3. ASSUME NEW u \in Users, uses'[u].pc = "token" PROVE uses'[u] = uses[u]
    <3>1. CASE UNCHANGED uses
      BY <3>1
    <3>2. CASE Waiters("idle")
      BY <1>0, <2>3, <3>2, WaitersAre
    <3>. QED BY <1>10, <3>1, <3>2
  <2>. QED BY <1>0, <2>2, <2>3, UseAt DEF TokensOK
<1>. QED BY <1>6, <1>8, <1>9, <1>11, <1>12 DEF Sound

\* A rotation writes the newest pair, dated by its start, and the metadata last.
LEMMA RotateWriteSound ==
    ASSUME ShapeInv, Sound, ~raced, NEW ok \in BOOLEAN, RotateWrite(ok)
    PROVE  Sound'
<1>0. /\ StoreTypeOK /\ UsesOK /\ RotationOK(rotation) /\ rotation \in RotationRows
      /\ PairsOK /\ MarkerOK /\ EnrollmentOK /\ RotationSound /\ TokensOK
      /\ uses \in [Users -> UseRows] /\ clock \in Nat
  BY DEF ShapeInv, Sound, UsesOK, RotationOK, StoreTypeOK
<1>1. PICK slot, n, started : slot = Head(rotation.todo) /\ n = Len(pairs) /\ started = rotation.started
  OBVIOUS
<1>2. /\ UNCHANGED <<clock, pairs, cli>> /\ rotation.pc = "write" /\ Rotating
      /\ n \in Nat /\ n # 0 /\ rotation.new = n /\ ~pairs[n].spent
      /\ started \in Nat /\ started <= clock /\ clock <= started + 2
      /\ pairs[n].dated = started /\ pairs[n].issued >= started /\ pairs[n].issued \in Int
  BY <1>0, <1>1, PairFields DEF RotateWrite, Rotating, RotationSound, RotationRows, Newest, Missing
<1>3. ~Enrolling /\ ~Enrolling'
  BY <1>2, RotatingAlone DEF Enrolling
<1>4. rotation.todo \in WriteTodos /\ slot \in GitHubSlots /\ slot \in Slots
  BY <1>0, <1>1, <1>2, WriteTodo DEF RotationOK, Slots
<1>5. /\ \A s \in Slots : s # slot => keyring'[s] = keyring[s]
      /\ keyring'[slot] = n \/ keyring'[slot] = keyring[slot]
      /\ ok => keyring'[slot] = n
  <2>1. keyring \in [Slots -> Nat] /\ Write(slot, n, ok) /\ n \in Nat
    BY <1>0, <1>1, <1>2 DEF StoreTypeOK, RotateWrite
  <2>2. \A s \in Slots : s # slot => keyring'[s] = keyring[s]
    BY <2>1, WriteTyped
  <2>3. /\ ok => keyring'[slot] = n
        /\ keyring'[slot] = n \/ keyring'[slot] = keyring[slot]
    BY <1>4, <2>1, WriteTyped
  <2>. QED BY <2>2, <2>3
<1>6. slot = "metadata" => keyring["default"] = n
  <2>1. slot = "metadata" => rotation.todo = <<"metadata">>
    BY <1>1, <1>4, WriteTodo
  <2>. QED BY <1>0, <1>2, <2>1 DEF RotationSound
<1>7. PairsOK'
  BY <1>0, <1>2 DEF PairsOK
<1>8. MarkerOK'
  <2>1. PICK m, d : m = keyring["metadata"] /\ d = keyring["default"]
    OBVIOUS
  <2>2. /\ m \in 0..n /\ d \in 0..n
        /\ m # 0 /\ d # 0 => m <= d /\ (Fresh(m) => ~pairs[d].spent)
    BY <1>0, <1>1, <2>1 DEF MarkerOK, GitHubSlots, Missing
  <2>3. \A s \in GitHubSlots : keyring'[s] \in 0..n
    <3>1. (\A s \in GitHubSlots : keyring[s] \in 0..n) /\ n \in 0..n
      BY <1>0, <1>1, <1>2 DEF MarkerOK
    <3>. QED BY <1>5, <3>1 DEF Slots
  <2>4. PICK m2, d2 : m2 = keyring'["metadata"] /\ d2 = keyring'["default"]
    OBVIOUS
  <2>5. \/ m2 = n /\ d2 = n
        \/ m2 = m /\ d2 = n
        \/ m2 = m /\ d2 = d
    BY <1>4, <1>5, <1>6, <2>1, <2>4 DEF Slots, GitHubSlots
  <2>6. m2 # 0 /\ d2 # 0 => m2 <= d2 /\ (Fresh(m2) => ~pairs[d2].spent)
    BY <1>2, <2>2, <2>5
  <2>. QED BY <1>1, <1>2, <2>3, <2>4, <2>6 DEF MarkerOK, Fresh, Missing
<1>9. EnrollmentOK'
  BY <1>3 DEF EnrollmentOK
<1>10. \/ rotation'.pc = "cleanup" /\ rotation'.started = started /\ UNCHANGED uses
       \/ /\ rotation'.pc = "none" /\ Waiters("token") /\ slot = "metadata" /\ ok
       \/ /\ rotation'.pc = "write" /\ rotation'.started = started /\ UNCHANGED uses
          /\ rotation'.new = n /\ (rotation'.todo = <<"metadata">> => slot = "default" /\ ok)
  <2>1. CASE UNCHANGED uses /\ rotation' = Cleanup
    BY <1>0, <1>1, <2>1, CleanupIs
  <2>2. CASE EndRotation("token") /\ Len(rotation.todo) = 1 /\ ok
    <3>1. slot = "metadata"
      BY <1>1, <1>4, <2>2, WriteTodo
    <3>. QED BY <2>2, <3>1, NoRotationOK DEF EndRotation
  <2>3. CASE UNCHANGED uses /\ Len(rotation.todo) > 1 /\ ok
             /\ rotation' = [rotation EXCEPT !.todo = Tail(rotation.todo)]
    <3>1. PICK todo, was, k : was = rotation.todo /\ todo = Tail(was) /\ k = Len(was)
      OBVIOUS
    <3>2. rotation' = [rotation EXCEPT !.todo = todo]
      BY <2>3, <3>1
    <3>3. /\ rotation'.pc = "write" /\ rotation'.started = started
          /\ rotation'.new = n /\ rotation'.todo = todo
      BY <1>0, <1>1, <1>2, <3>2 DEF RotationRows
    <3>4. k > 1 /\ was \in WriteTodos /\ slot = Head(was)
      BY <1>1, <1>4, <2>3, <3>1
    <3>5. k # 1
      BY <3>4
    <3>6. todo = <<"metadata">> => slot = "default"
      BY <3>1, <3>4, <3>5, WriteTodo
    <3>. QED BY <2>3, <3>3, <3>6
  <2>. QED BY <2>1, <2>2, <2>3 DEF RotateWrite
<1>11. RotationSound'
  <2>1. slot = "default" /\ ok => keyring'["default"] = n
    BY <1>5
  <2>. QED BY <1>1, <1>2, <1>10, <2>1 DEF RotationSound, Rotating, Newest, Missing
<1>12. ASSUME NEW p \in Candidates' PROVE p \in Candidates
  <2>1. p # Missing /\ (p = keyring'["default"] \/ p = n)
    BY <1>3, <1>10, <1>12 DEF Candidates
  <2>2. keyring'["default"] = keyring["default"] \/ keyring'["default"] = n
    BY <1>5 DEF Slots, GitHubSlots
  <2>. QED BY <1>2, <2>1, <2>2, CandidateIs
<1>13. TokensOK'
  <2>1. ASSUME NEW at \in Nat, TokenOK(at) PROVE TokenOK(at)'
    BY <1>2, <1>12, <2>1 DEF TokenOK, Outlives
  <2>2. ASSUME NEW u \in Users, uses'[u].pc = "token", uses'[u] # uses[u]
        PROVE  uses'[u].at = clock /\ slot = "metadata" /\ ok /\ rotation'.pc = "none"
    BY <1>0, <1>10, <2>2, WaitersAre
  <2>3. ASSUME slot = "metadata", ok, rotation'.pc = "none" PROVE TokenOK(clock)'
    <3>1. ASSUME NEW p \in Candidates' PROVE p = n
      <4>1. keyring'["default"] = n
        BY <1>5, <1>6, <2>3 DEF Slots, GitHubSlots
      <4>. QED BY <1>3, <2>3, <3>1, <4>1 DEF Candidates
    <3>2. Outlives(n, clock)'
      BY <1>0, <1>2, Lifetimes DEF Outlives, Margin
    <3>. QED BY <1>0, <1>2, <3>1, <3>2 DEF TokenOK
  <2>4. ASSUME NEW u \in Users, uses'[u].pc = "token" PROVE TokenOK(uses[u].at)'
    <3>1. PICK at : at = uses'[u].at
      OBVIOUS
    <3>2. TokenOK(at)'
      <4>1. CASE uses'[u] = uses[u]
        BY <1>0, <2>1, <2>4, <3>1, <4>1, UseAt DEF TokensOK
      <4>2. CASE uses'[u] # uses[u]
        <5>1. at = clock /\ clock' = clock /\ TokenOK(clock)'
          BY <1>2, <2>2, <2>3, <2>4, <3>1, <4>2
        <5>. QED BY <5>1 DEF TokenOK
      <4>. QED BY <4>1, <4>2
    <3>. QED BY <3>1, <3>2 DEF TokenOK
  <2>. QED BY <2>4 DEF TokensOK
<1>. QED BY <1>7, <1>8, <1>9, <1>11, <1>13 DEF Sound
-----------------------------------------------------------------------------
(* What the store says of the tokens is kept.                               *)

\* A broker that stops leaves the store as it is, and no use behind.
LEMMA CrashSound ==
    ASSUME ShapeInv, Sound, BrokerCrash
    PROVE  Sound'
<1>1. UNCHANGED <<clock, keyring, pairs, cli>> /\ rotation'.pc = "none"
  BY NoRotationOK DEF BrokerCrash, setupVars
<1>2. Stills /\ Rests
  BY <1>1 DEF BrokerCrash, Quiet, At, Stills, Rests
<1>3. Fades /\ Holds /\ StoreTypeOK
  BY <1>1, FadesNot DEF Holds, Enrolling, ShapeInv
<1>. QED BY <1>1, <1>2, <1>3, QuietKeeps

\* Time passes, as long as what is under way answers in time.
LEMMA TickSound ==
    ASSUME ShapeInv, Sound, Tick
    PROVE  Sound'
<1>0. /\ StoreTypeOK /\ PairsOK /\ MarkerOK /\ EnrollmentOK /\ RotationSound /\ TokensOK
      /\ clock \in Nat /\ AccessLife \in Nat
      /\ \A i \in 1..Len(pairs) : pairs[i].issued \in Int /\ pairs[i].dated \in Int
  BY PairFields, Lifetimes DEF ShapeInv, Sound
<1>1. /\ UNCHANGED <<keyring, pairs, cli, uses, rotation>> /\ clock' = clock + 1
      /\ Rotating => clock < rotation.started + 2
      /\ \A u \in Users : uses[u].pc = "token" => clock = uses[u].at
  BY DEF Tick, brokerVars
<1>2. PairsOK'
  BY <1>0, <1>1 DEF PairsOK
<1>3. keyring["metadata"] # Missing => (Fresh(keyring["metadata"])' => Fresh(keyring["metadata"]))
  <2>1. PICK m : m = keyring["metadata"]
    OBVIOUS
  <2>2. m # Missing => m \in 1..Len(pairs)
    <3>1. m \in 0..Len(pairs) /\ Len(pairs) \in Nat
      BY <1>0, <2>1, PairFields DEF MarkerOK, GitHubSlots
    <3>. QED BY <3>1 DEF Missing
  <2>3. m # Missing => (Fresh(m)' => Fresh(m))
    BY <1>0, <1>1, <2>2 DEF Fresh, Margin
  <2>. QED BY <1>1, <2>1, <2>3 DEF Fresh
<1>4. MarkerOK'
  BY <1>0, <1>1, <1>3 DEF MarkerOK
<1>5. EnrollmentOK'
  BY <1>0, <1>1 DEF EnrollmentOK, Enrolling, Newest
<1>6. RotationSound'
  <2>1. Stale(keyring["metadata"]) => Stale(keyring["metadata"])'
    BY <1>1, <1>3 DEF Stale
  <2>2. Rotating => rotation.started <= clock + 1 /\ clock + 1 <= rotation.started + 2
    <3>1. rotation.started \in Nat
      BY DEF ShapeInv, RotationOK, RotationRows
    <3>. QED BY <1>0, <1>1, <3>1 DEF RotationSound
  <2>. QED BY <1>0, <1>1, <2>1, <2>2 DEF RotationSound, Rotating, Newest
<1>7. TokensOK'
  <2>1. ASSUME NEW at, at = clock, TokenOK(at) PROVE TokenOK(at)'
    BY <1>0, <1>1, <2>1 DEF TokenOK, Outlives, Candidates, Enrolling
  <2>2. ASSUME NEW u \in Users, uses'[u].pc = "token" PROVE TokenOK(uses[u].at)'
    <3>1. PICK at : at = uses[u].at
      OBVIOUS
    <3>2. TokenOK(at)'
      BY <1>0, <1>1, <2>1, <2>2, <3>1 DEF TokensOK
    <3>. QED BY <1>1, <3>1, <3>2 DEF TokenOK
  <2>. QED BY <2>2 DEF TokensOK
<1>. QED BY <1>2, <1>4, <1>5, <1>6, <1>7 DEF Sound

LEMMA InitSound == Init => SoundInv
<1> SUFFICES ASSUME Init PROVE SoundInv
  OBVIOUS
<1>1. PICK p, q : p = Issued("setup") /\ q = [p EXCEPT !.issued = -FirstAge, !.dated = -FirstAge]
  OBVIOUS
<1>2. clock = 0 /\ pairs = <<q>> /\ keyring \in [Slots -> {0, 1}]
  BY <1>1 DEF Init, SetupInit, Missing
<1>3. p \in PairRows /\ ~p.spent
  <2>1. clock \in Nat
    BY <1>2
  <2>. QED BY <1>1, <2>1, IssuedIs
<1>4. q.issued = -FirstAge /\ q.dated = -FirstAge /\ ~q.spent
  BY <1>1, <1>3 DEF PairRows
<1>5. PairsOK
  BY <1>2, <1>4, SetupBounds DEF PairsOK
<1>6. MarkerOK
  <2>1. \A s \in GitHubSlots : keyring[s] \in {0, 1}
    BY <1>2 DEF Slots
  <2>2. Len(pairs) = 1 /\ pairs[1] = q
    BY <1>2
  <2>3. {0, 1} = 0..Len(pairs)
    BY <2>2
  <2>4. keyring["default"] # 0 => keyring["default"] = 1
    BY <2>1 DEF GitHubSlots
  <2>5. keyring["metadata"] \in {0, 1}
    BY <2>1 DEF GitHubSlots
  <2>. QED BY <1>4, <2>1, <2>2, <2>3, <2>4, <2>5 DEF MarkerOK, Missing
<1>7. cli.phase = "idle"
  BY IdleOK DEF Init, SetupInit, Outcomes
<1>8. RewritesOK /\ EnrollmentOK
  BY <1>7 DEF RewritesOK, EnrollmentOK, Enrolling
<1>9. RotationSound /\ TokensOK
  BY NoRotationOK DEF Init, RotationSound, Rotating, TokensOK, Quiet, At
<1>. QED BY <1>5, <1>6, <1>8, <1>9 DEF SoundInv, Sound

LEMMA NextSound == ShapeInv /\ SoundInv /\ [Next]_vars => SoundInv'
<1> SUFFICES ASSUME ShapeInv, SoundInv, [Next]_vars, ~raced' PROVE RewritesOK' /\ (~unwound' => Sound')
  BY DEF SoundInv
<1>0. raced \in BOOLEAN
  BY DEF ShapeInv, StoreTypeOK
<1> DEFINE Goal == RewritesOK' /\ (~unwound' => Sound')
<1>1. ASSUME UNCHANGED <<keyring, cli, unwound>>, ~raced, Sound => Sound' PROVE Goal
  <2>1. RewritesOK /\ (~unwound => Sound)
    BY <1>1 DEF SoundInv
  <2>2. RewritesOK'
    BY <1>1, <2>1 DEF RewritesOK
  <2>. QED BY <1>1, <2>1, <2>2
<1>2. CASE custody = "keyring" /\ SetupNext(Rotating) /\ UNCHANGED brokerVars
  BY <1>2, SetupSound DEF SetupSteps
<1>3. ASSUME NEW u \in Users, Using(u) PROVE Goal
  <2>1. /\ UNCHANGED <<keyring, cli, unwound>>
        /\ raced' = (raced \/ WritingGitHub) \/ UNCHANGED raced
    BY <1>3, UsingKeeps
  <2>2. ~raced
    BY <1>0, <2>1
  <2>. QED BY <1>1, <1>3, <2>1, <2>2, UsingSound
<1>4. ASSUME NEW u \in Users, MintPost(u) PROVE Goal
  <2>1. UNCHANGED <<keyring, cli, unwound, raced>>
    BY <1>4 DEF MintPost
  <2>. QED BY <1>1, <1>4, <2>1, MintSound
<1>5. CASE RotationStep
  <2>1. UNCHANGED <<cli, unwound, raced>>
    BY <1>5, RotationStepKeeps
  <2>2. ~raced /\ Rotating
    BY <1>5, <2>1, RotationKeeps
  <2>3. RewritesOK'
    <3>1. ~WritingGitHub
      BY <2>2, RotatingAlone
    <3>. QED BY <2>1, <3>1, RewritesNothing DEF WritingGitHub
  <2>4. ~unwound' => Sound
    BY <2>1, <2>2 DEF SoundInv
  <2>5. CASE RotateAnswered
    BY <2>2, <2>3, <2>4, <2>5, AnsweredSound
  <2>6. ASSUME NEW ok \in BOOLEAN, RotateWrite(ok) PROVE Goal
    BY <2>2, <2>3, <2>4, <2>6, RotateWriteSound
  <2>7. CASE \/ RotateRead \/ RotateRefused \/ RotateUnreadable
             \/ \E ok \in BOOLEAN, slot \in GitHubSlots : CleanupDelete(slot, ok)
    BY <2>2, <2>3, <2>4, <2>7, RotationQuiet
  <2>. QED BY <1>5, <2>5, <2>6, <2>7 DEF RotationStep
<1>6. CASE BrokerCrash
  <2>1. UNCHANGED <<keyring, cli, unwound, raced>>
    BY <1>6 DEF BrokerCrash, setupVars
  <2>. QED BY <1>1, <1>6, <2>1, CrashSound
<1>7. CASE Tick
  <2>1. UNCHANGED <<keyring, cli, unwound, raced>>
    BY <1>7 DEF Tick
  <2>. QED BY <1>1, <1>7, <2>1, TickSound
<1>8. CASE UNCHANGED vars
  <2>1. UNCHANGED <<clock, keyring, pairs, cli, unwound, raced, uses, rotation>>
    BY <1>8 DEF vars, setupVars, brokerVars
  <2>2. Fades /\ Holds /\ Stills /\ Rests
    BY <2>1, FadesNot DEF Holds, Stills, Rests, Enrolling
  <2>3. Sound => Sound'
    BY <2>1, <2>2, QuietKeeps DEF ShapeInv
  <2>. QED BY <1>1, <2>1, <2>3
<1>. QED BY <1>2, <1>3, <1>4, <1>5, <1>6, <1>7, <1>8, NextIs DEF NextCases
-----------------------------------------------------------------------------
(* The theorems.                                                            *)

\* The records of the command line, of the rotation and of the uses stay well
\* formed, nothing of the managed custody is ever written, and a command and a
\* rotation write GitHub's slots together only when the history says so; the
\* invariant that the metadata vouches for, and its rollback restores, what it
\* says (setup.ts: snapshotCredentials, restoreCredentialSnapshots;
\* github-app.ts: #ensureFresh, #rotate, #cleanup).
THEOREM StoreIsSound == Spec => [](ShapeInv /\ SoundInv)
<1>1. Init => ShapeInv /\ SoundInv
  BY InitShape, InitSound
<1>2. (ShapeInv /\ SoundInv) /\ [Next]_vars => (ShapeInv /\ SoundInv)'
  BY NextShape, NextSound
<1>. QED BY <1>1, <1>2, PTL DEF Spec

\* While the metadata calls the pair fresh, the access token that is held has
\* been neither invalidated nor has it expired, for any number of uses, pairs
\* and lifetimes (ADR-0009: the metadata as the commit marker).
LEMMA VouchedIs == ShapeInv /\ SoundInv => VouchedTokenInForce
<1> SUFFICES ASSUME ShapeInv, SoundInv, NEW m, NEW d, m = keyring["metadata"], d = keyring["default"],
                    ~raced, ~unwound, m # Missing, d # Missing, Fresh(m)
             PROVE  /\ ~Spent(d)
                    /\ pairs[d].dated <= pairs[d].issued /\ pairs[m].dated <= pairs[m].issued =>
                           clock < pairs[d].issued + AccessLife
  BY DEF VouchedTokenInForce
<1>1. Sound /\ StoreTypeOK
  BY DEF SoundInv, ShapeInv
<1>2. ~Spent(d)
  BY <1>1 DEF Sound, MarkerOK, Spent
<1>3. d \in Candidates /\ d \in 1..Len(pairs)
  BY <1>1, CandidateIs, CandidateNumbers
<1>4. Outlives(d, clock)
  BY <1>1, <1>3, VouchedOutlives
<1>5. clock \in Nat /\ pairs[d].issued \in Int /\ pairs[d].dated \in Int
  BY <1>1, <1>3, PairFields
<1>. QED BY <1>2, <1>4, <1>5, Lifetimes DEF Outlives, Margin

THEOREM VouchedInForce == Spec => []VouchedTokenInForce
BY StoreIsSound, VouchedIs, PTL

\* What a use is handed.
Handing(u) ==
    uses[u].pc # "handed" /\ uses'[u].pc = "handed" =>
        LET p == pairs'[uses'[u].token] IN
        IF custody = "managed"
        THEN p.by = "installation" /\ connection = "installed"
             /\ clock + Margin < p.dated + AccessLife
        ELSE raced \/ unwound \/ p.dated > p.issued
             \/ clock < p.issued + AccessLife

\* The access token read is one that outlives the decision to read it.
LEMMA ReadTokenHands ==
    ASSUME ShapeInv, SoundInv, NEW u \in Users, ReadToken(u)
    PROVE  Handing(u)
<1>0. /\ StoreTypeOK /\ UsesOK /\ CustodyOK /\ uses \in [Users -> UseRows] /\ clock \in Nat
  BY DEF ShapeInv, UsesOK, StoreTypeOK
<1>1. uses[u].pc = "token" /\ custody = "keyring" /\ UNCHANGED pairs
  BY <1>0 DEF ReadToken, UsesOK, setupVars
<1>2. CASE Fail(u)
  <2>1. MovesTo(u, At("idle"))
    BY <1>0, <1>2, FailIs
  <2>. QED BY <2>1 DEF MovesTo, At, Handing
<1>3. CASE /\ keyring["default"] # Missing
           /\ uses' = [uses EXCEPT ![u].pc = "handed", ![u].token = keyring["default"]]
  <2>1. PICK d, at : d = keyring["default"] /\ at = uses[u].at
    OBVIOUS
  <2>2. uses'[u].token = d
    BY <1>0, <1>3, <2>1 DEF UseRows
  <2>3. ASSUME ~raced, ~unwound, pairs[d].dated <= pairs[d].issued
        PROVE  clock < pairs[d].issued + AccessLife
    <3>1. Sound
      BY <2>3 DEF SoundInv
    <3>2. d \in Candidates /\ d \in 1..Len(pairs)
      BY <1>0, <1>3, <2>1, <3>1, CandidateIs, CandidateNumbers
    <3>3. at \in Nat /\ clock <= at + 1 /\ Outlives(d, at)
      BY <1>0, <1>1, <2>1, <3>1, <3>2, UseAt DEF Sound, TokensOK, TokenOK
    <3>4. pairs[d].issued \in Int
      BY <1>0, <3>2, PairFields
    <3>. QED BY <1>0, <2>3, <3>3, <3>4, Lifetimes DEF Outlives, Margin
  <2>4. \/ raced \/ unwound
        \/ ~(pairs[d].dated <= pairs[d].issued)
        \/ clock < pairs[d].issued + AccessLife
    BY <2>3
  <2>5. pairs[d].dated <= pairs[d].issued \/ pairs[d].dated > pairs[d].issued \/ raced \/ unwound
    <3>1. ASSUME ~raced, ~unwound PROVE pairs[d].issued \in Int /\ pairs[d].dated \in Int
      <4>1. d \in 1..Len(pairs)
        BY <1>0, <1>3, <2>1, <3>1, CandidateIs, CandidateNumbers DEF SoundInv
      <4>. QED BY <1>0, <4>1, PairFields
    <3>. QED BY <3>1
  <2>. QED BY <1>1, <2>2, <2>4, <2>5 DEF Handing
<1>. QED BY <1>2, <1>3 DEF ReadToken, Held

\* The token minted is the one that was asked for.
LEMMA MintHands ==
    ASSUME ShapeInv, NEW u \in Users, MintPost(u)
    PROVE  Handing(u)
<1>0. /\ StoreTypeOK /\ UsesOK /\ uses \in [Users -> UseRows] /\ clock \in Nat
      /\ pairs \in Seq(PairRows)
  BY DEF ShapeInv, UsesOK, StoreTypeOK
<1>1. custody = "managed" /\ connection = "installed"
  BY <1>0 DEF MintPost, UsesOK
<1>2. CASE Fail(u)
  <2>1. MovesTo(u, At("idle"))
    BY <1>0, <1>2, FailIs
  <2>. QED BY <2>1 DEF MovesTo, At, Handing
<1>3. ASSUME NEW answer \in MintAnswers, answer.by = "installation",
             answer.dated + AccessLife > clock + Margin, pairs' = Append(pairs, answer),
             uses' = [uses EXCEPT ![u].pc = "handed", ![u].token = Len(pairs) + 1]
      PROVE  Handing(u)
  <2>1. PICK n : n = Len(pairs) + 1
    OBVIOUS
  <2>2. uses'[u].token = n
    BY <1>0, <1>3, <2>1 DEF UseRows
  <2>3. answer \in PairRows
    BY <1>0, <1>3, MintAnswer
  <2>4. pairs'[n] = answer
    <3>1. Len(pairs') = Len(pairs) + 1 /\ pairs'[Len(pairs')] = answer
      BY <1>0, <1>3, <2>3, PairJoins
    <3>. QED BY <2>1, <3>1
  <2>5. clock + Margin < answer.dated + AccessLife
    BY <1>0, <1>3, <2>3, Lifetimes DEF PairRows, Margin
  <2>. QED BY <1>1, <1>3, <2>2, <2>4, <2>5 DEF Handing
<1>. QED BY <1>2, <1>3 DEF MintPost

\* No other step hands a token.
LEMMA UsingHands ==
    ASSUME ShapeInv, NEW u \in Users, Using(u), ~ReadToken(u)
    PROVE  MovesTo(u, uses'[u]) /\ uses'[u].pc # "handed"
<1>0. uses \in [Users -> UseRows] /\ clock \in Nat
  BY DEF ShapeInv, UsesOK, StoreTypeOK
<1>1. ASSUME NEW pc \in {"idle", "status", "metadata", "waiting", "token", "installation", "mint",
                         "post"}, Move(u, pc)
      PROVE  MovesTo(u, uses'[u]) /\ uses'[u].pc # "handed"
  <2>1. MovesTo(u, At(pc))
    BY <1>0, <1>1, MoveIs
  <2>. QED BY <1>1, <2>1 DEF MovesTo, At
<1>2. CASE Fail(u)
  BY <1>1, <1>2 DEF Fail, Quiet, Move
<1>3. CASE Use(u) \/ Finish(u)
  BY <1>1, <1>2, <1>3 DEF Use, Finish
<1>4. CASE ReadStatus(u)
  BY <1>1, <1>2, <1>4 DEF ReadStatus, JoinRotation
<1>5. CASE ReadMetadata(u)
  BY <1>1, <1>2, <1>5 DEF ReadMetadata, JoinRotation
<1>6. CASE MintRead(u) \/ MintChecks(u)
  BY <1>1, <1>2, <1>6 DEF MintRead, MintChecks
<1>. QED BY <1>3, <1>4, <1>5, <1>6 DEF Using

LEMMA NextHands ==
    ASSUME ShapeInv, SoundInv, [Next]_vars, NEW v \in Users
    PROVE  Handing(v)
<1>0. uses \in [Users -> UseRows] /\ clock \in Nat
  BY DEF ShapeInv, UsesOK, StoreTypeOK
<1>1. ASSUME uses'[v] = uses[v] \/ uses'[v].pc # "handed" PROVE Handing(v)
  BY <1>1 DEF Handing
<1>2. CASE UNCHANGED uses
  BY <1>1, <1>2
<1>3. ASSUME NEW u \in Users, UseStep(u) PROVE Handing(v)
  <2>1. CASE ReadToken(u) \/ MintPost(u)
    <3>1. PICK r \in UseRows : MovesTo(u, r)
      BY <1>3, UseMoves
    <3>2. CASE v = u
      BY <2>1, <3>2, ReadTokenHands, MintHands
    <3>3. CASE v # u
      BY <1>1, <3>1, <3>3 DEF MovesTo
    <3>. QED BY <3>2, <3>3
  <2>2. CASE Using(u) /\ ~ReadToken(u)
    BY <1>1, <2>2, UsingHands DEF MovesTo
  <2>. QED BY <1>3, <2>1, <2>2 DEF UseStep
<1>4. CASE RotationStep
  <2>1. ASSUME NEW pc \in {"idle", "token"}, Waiters(pc) PROVE Handing(v)
    BY <1>0, <1>1, <2>1, WaitersAre
  <2>. QED BY <1>2, <1>4, <2>1, RotationKeeps DEF RotationMoves, RotationEnds, RotationGoes, EndRotation
<1>5. CASE BrokerCrash
  BY <1>1, <1>5 DEF BrokerCrash, Quiet, At
<1>6. CASE UNCHANGED brokerVars \/ Tick \/ UNCHANGED vars
  BY <1>2, <1>6 DEF brokerVars, Tick, vars
<1>. QED BY <1>3, <1>4, <1>5, <1>6, NextIs DEF NextCases, UseStep

\* No operation is handed a token that GitHub no longer honours by its date, nor
\* one minted for another repository than the connection's.
THEOREM HandedInForce == Spec => TokenInForce
<1>1. ShapeInv /\ SoundInv /\ [Next]_vars =>
        [\A u \in Users :
          uses[u].pc # "handed" /\ uses'[u].pc = "handed" =>
              LET p == pairs'[uses'[u].token] IN
              IF custody = "managed"
              THEN p.by = "installation" /\ connection = "installed"
                   /\ clock + Margin < p.dated + AccessLife
              ELSE raced \/ unwound \/ p.dated > p.issued
                   \/ clock < p.issued + AccessLife]_vars
  BY NextHands DEF Handing
<1>. QED BY <1>1, StoreIsSound, PTL DEF Spec, TokenInForce
-----------------------------------------------------------------------------
(* What the command line reports.                                           *)

Reported ==
    /\ cli'.outcome = "stored" =>
           \A s \in DOMAIN cli.saved : keyring'[s] = cli.new
    /\ cli.phase = "restore" /\ cli.command = "enroll" /\ cli'.outcome = "failed" =>
           \A s \in DOMAIN cli.saved : keyring'[s] = cli.saved[s]
    /\ keyring'["research"] # keyring["research"] =>
           cli.outcome \notin {"expired", "cancelled"}

\* A command that goes on, or begins, has yet to report.
LEMMA GoingOnReports ==
    ASSUME CommandOK(cli), CommandOK(cli'), cli'.phase # "idle" \/ cli'.outcome = "killed",
           UNCHANGED keyring \/ cli.phase # "idle"
    PROVE  Reported
<1>1. cli'.outcome \in {"none", "killed"} /\ (cli.phase # "idle" => cli.outcome = "none")
  BY DEF CommandOK
<1>. QED BY <1>1 DEF Reported

\* One that ends before it has written reports a failure or less.
LEMMA EndReports ==
    ASSUME NEW outcome \in Outcomes \ {"stored"}, End(outcome), cli.phase # "restore"
    PROVE  Reported
<1>1. cli'.outcome = outcome /\ UNCHANGED keyring
  BY EndKeeps DEF End
<1>. QED BY <1>1 DEF Reported

LEMMA EnrollWriteReports ==
    ASSUME ShapeInv, ~raced, RewritesOK, NEW ok \in BOOLEAN, EnrollWrite(ok)
    PROVE  Reported
<1>0. CommandOK(cli) /\ CommandOK(cli') /\ StoreTypeOK
  BY WritesKeep DEF ShapeInv
<1>1. PICK slot : slot = Head(cli.todo)
  OBVIOUS
<1>2. /\ cli.command = "enroll" /\ cli.phase = "write" /\ cli.todo \in WriteTodos
      /\ slot \in GitHubSlots
      /\ \A s \in Slots : s # slot => keyring'[s] = keyring[s]
      /\ ok => keyring'[slot] = cli.new
  BY <1>1, EnrollWriteIs
<1>3. CASE ok /\ Len(cli.todo) = 1
  <2>1. DOMAIN cli.saved = GitHubSlots /\ cli.outcome = "none"
    BY <1>0, <1>2 DEF CommandOK
  <2>2. SlotsOf(cli.todo) = {slot}
    BY <1>1, <1>2, <1>3, WriteTodo
  <2>3. ASSUME NEW s \in GitHubSlots PROVE keyring'[s] = cli.new
    <3>1. CASE s = slot
      BY <1>2, <1>3, <3>1
    <3>2. CASE s # slot
      BY <1>2, <2>2, <3>2 DEF RewritesOK, Slots
    <3>. QED BY <3>1, <3>2
  <2>. QED BY <1>2, <2>1, <2>3 DEF Reported
<1>4. CASE ~(ok /\ Len(cli.todo) = 1)
  <2>1. cli'.phase \in {"write", "restore"}
    BY <1>4, EnrollWriteIs
  <2>. QED BY <1>0, <1>2, <2>1, GoingOnReports
<1>. QED BY <1>3, <1>4

LEMMA LocalWriteReports ==
    ASSUME ShapeInv, NEW ok \in BOOLEAN, LocalWrite(ok)
    PROVE  Reported
<1>0. /\ CommandOK(cli) /\ CommandOK(cli') /\ StoreTypeOK /\ cli \in CliRows
      /\ cli.phase = "write" /\ cli.command = "local"
  BY WritesKeep DEF ShapeInv, CommandOK, LocalWrite, Running
<1>1. CASE ok
  <2>1. keyring'["research"] = cli.new
    <3>1. cli.new \in Nat /\ keyring \in [Slots -> Nat] /\ Write("research", cli.new, ok)
          /\ "research" \in Slots
      BY <1>0 DEF CliRows, StoreTypeOK, LocalWrite, Slots
    <3>. QED BY <1>1, <3>1, WriteTyped
  <2>2. DOMAIN cli.saved = {"research"} /\ cli.outcome = "none"
    BY <1>0 DEF CommandOK
  <2>. QED BY <1>0, <2>1, <2>2 DEF Reported
<1>2. CASE ~ok
  <2>1. cli' = Unwind
    BY <1>2 DEF LocalWrite
  <2>2. cli'.phase = "restore"
    BY <1>0, <2>1, UnwindKeeps
  <2>. QED BY <1>0, <2>2, GoingOnReports
<1>. QED BY <1>1, <1>2

LEMMA RevokeReports ==
    ASSUME ShapeInv, NEW ok \in BOOLEAN, RevokeDelete(ok)
    PROVE  Reported
<1>0. CommandOK(cli) /\ CommandOK(cli') /\ StoreTypeOK /\ cli.phase = "delete" /\ cli.outcome = "none"
  BY WritesKeep DEF ShapeInv, CommandOK, RevokeDelete
<1>1. cli'.outcome # "stored"
  <2>1. CASE cli' = Idle("failed") \/ cli' = Idle("deleted")
    BY <2>1, EndKeeps DEF Outcomes
  <2>2. CASE Len(cli.todo) # 1 /\ cli' = [cli EXCEPT !.todo = Tail(cli.todo)]
    <3>1. cli'.outcome = "none"
      BY <1>0, <2>2, NextSlotKeeps
    <3>. QED BY <3>1
  <2>. QED BY <2>1, <2>2 DEF RevokeDelete
<1>. QED BY <1>0, <1>1 DEF Reported

\* A plain failure means that every slot was put back.
LEMMA RestoreReports ==
    ASSUME ShapeInv, RewritesOK, NEW ok \in BOOLEAN, NEW slot \in Slots, Restore(slot, ok)
    PROVE  Reported
<1>0. /\ CommandOK(cli) /\ CommandOK(cli') /\ StoreTypeOK /\ cli \in CliRows
      /\ cli.phase = "restore" /\ cli.outcome = "none"
      /\ slot \in cli.left /\ cli.left \subseteq DOMAIN cli.saved
  BY RestoreKeeps DEF ShapeInv, CommandOK, Restore
<1>1. CASE cli'.phase # "idle"
  BY <1>0, <1>1, GoingOnReports
<1>2. CASE cli'.phase = "idle"
  <2>1. cli' = Idle(Told(cli.clean /\ ok)) /\ cli.left \ {slot} = {}
    BY <1>0, <1>2 DEF Restore, CliRows
  <2>2. cli'.outcome = Told(cli.clean /\ ok)
    BY <2>1 DEF Idle
  <2>3. cli'.outcome # "stored"
    BY <2>2 DEF Told
  <2>4. ASSUME cli.command = "enroll", cli'.outcome = "failed", NEW s \in DOMAIN cli.saved
        PROVE  keyring'[s] = cli.saved[s]
    <3>1. cli.clean /\ ok /\ s \in GitHubSlots
      BY <1>0, <2>2, <2>4 DEF Told, CommandOK
    <3>2. /\ \A t \in Slots : t # slot => keyring'[t] = keyring[t]
          /\ keyring'[slot] = cli.saved[slot]
      <4>1. PICK value : value = cli.saved[slot]
        OBVIOUS
      <4>2. cli.saved \in Saves
        BY <1>0 DEF CliRows
      <4>3. value \in Nat /\ keyring \in [Slots -> Nat] /\ Write(slot, value, ok)
        BY <1>0, <4>1, <4>2 DEF Saves, StoreTypeOK, Restore
      <4>4. \A t \in Slots : t # slot => keyring'[t] = keyring[t]
        BY <4>3, WriteTyped
      <4>5. ok => keyring'[slot] = value
        BY <4>3, WriteTyped
      <4>. QED BY <3>1, <4>1, <4>4, <4>5
    <3>3. CASE s = slot
      BY <3>2, <3>3
    <3>4. CASE s # slot
      <4>1. keyring[s] = cli.saved[s]
        BY <1>0, <2>1, <2>4, <3>1, <3>4 DEF RewritesOK
      <4>. QED BY <3>1, <3>2, <3>4, <4>1 DEF Slots
    <3>. QED BY <3>3, <3>4
  <2>. QED BY <1>0, <2>3, <2>4 DEF Reported
<1>. QED BY <1>1, <1>2

LEMMA SetupReports ==
    ASSUME ShapeInv, SoundInv, SetupNext(Rotating), ~raced'
    PROVE  Reported
<1>0. StoreTypeOK /\ CommandOK(cli) /\ CommandOK(cli') /\ cli \in CliRows /\ raced \in BOOLEAN
  BY SetupKeeps DEF ShapeInv, StoreTypeOK, CommandOK
<1>1. ~raced
  <2>1. raced' = (raced \/ Rotating) \/ UNCHANGED raced
    BY <1>0, SetupStepKeeps
  <2>. QED BY <1>0, <2>1
<1>2. RewritesOK
  BY <1>1 DEF SoundInv
<1>3. CASE StartEnroll \/ StartLocal \/ StartReview
  <2>1. cli'.phase # "idle" /\ UNCHANGED keyring
    BY <1>3, BeginKeeps DEF StartEnroll, StartLocal, StartReview, Begin
  <2>. QED BY <1>0, <2>1, GoingOnReports
<1>4. CASE StartRevoke(Rotating)
  <2>1. cli'.phase # "idle" /\ UNCHANGED keyring
    BY <1>4, StartRevokeKeeps DEF StartRevoke
  <2>. QED BY <1>0, <2>1, GoingOnReports
<1>5. CASE AuthorizationFails \/ SurfaceCancel \/ SurfaceExpires
  BY <1>5, EndReports DEF AuthorizationFails, SurfaceCancel, SurfaceExpires, OnSurface, Running, Outcomes
<1>6. CASE Kill
  <2>1. cli'.outcome = "killed" /\ UNCHANGED keyring
    BY <1>6, EndKeeps DEF Kill, End, Outcomes
  <2>. QED BY <1>0, <2>1, GoingOnReports
<1>7. CASE Authorize(Rotating)
  <2>1. cli'.phase # "idle" /\ UNCHANGED keyring
    BY <1>0, <1>7 DEF Authorize, CliRows
  <2>. QED BY <1>0, <2>1, GoingOnReports
<1>8. CASE SurfaceSubmit \/ SurfaceRead \/ Verify \/ Snapshot
  <2>1. cli.phase \in {"surface", "verify", "snapshot"}
    BY <1>8 DEF SurfaceSubmit, SurfaceRead, OnSurface, Verify, Snapshot
  <2>2. CASE End("failed") \/ End("discarded")
    BY <2>1, <2>2, EndReports DEF Outcomes
  <2>3. CASE ~End("failed") /\ ~End("discarded")
    <3>1. UNCHANGED keyring
      BY <1>8, <2>3 DEF SurfaceSubmit, SurfaceRead, Verify, Snapshot
    <3>2. cli'.phase # "idle"
      <4>1. CASE SurfaceSubmit \/ SurfaceRead \/ Verify
        <5>1. CASE SurfaceSubmit
          BY <1>0, <2>1, <5>1 DEF SurfaceSubmit, CliRows
        <5>2. CASE SurfaceRead
          <6>1. PICK n : n = keys + 1
            OBVIOUS
          <6>2. cli' = [cli EXCEPT !.phase = "verify", !.new = n]
            BY <2>3, <5>2, <6>1 DEF SurfaceRead
          <6>. QED BY <1>0, <6>2 DEF CliRows
        <5>3. CASE Verify
          BY <1>0, <2>3, <5>3 DEF Verify, CliRows
        <5>. QED BY <4>1, <5>1, <5>2, <5>3
      <4>2. CASE Snapshot
        BY <1>0, <2>1, <2>3, <4>2 DEF Snapshot, CliRows
      <4>. QED BY <1>8, <4>1, <4>2
    <3>. QED BY <1>0, <3>1, <3>2, GoingOnReports
  <2>. QED BY <2>2, <2>3
<1>9. ASSUME NEW ok \in BOOLEAN, EnrollWrite(ok) \/ LocalWrite(ok) \/ RevokeDelete(ok) PROVE Reported
  BY <1>1, <1>2, <1>9, EnrollWriteReports, LocalWriteReports, RevokeReports
<1>10. ASSUME NEW ok \in BOOLEAN, NEW slot \in Slots, Restore(slot, ok) PROVE Reported
  BY <1>2, <1>10, RestoreReports
<1>. QED BY <1>3, <1>4, <1>5, <1>6, <1>7, <1>8, <1>9, <1>10 DEF SetupNext

LEMMA NextReports ==
    ASSUME ShapeInv, SoundInv, [Next]_vars, ~raced', cli' # cli
    PROVE  Reported
<1>1. CASE custody = "keyring" /\ SetupNext(Rotating)
  BY <1>1, SetupReports
<1>2. ASSUME NEW u \in Users, Using(u) \/ MintPost(u) PROVE UNCHANGED cli
  BY <1>2, UsingKeeps DEF MintPost
<1>3. RotationStep \/ BrokerCrash \/ Tick \/ UNCHANGED vars => UNCHANGED cli
  BY RotationStepKeeps DEF BrokerCrash, Tick, vars, setupVars
<1>. QED BY <1>1, <1>2, <1>3, NextIs DEF NextCases

\* What the command line reports is what the store holds, whatever write or
\* restoring write failed, and whenever the process was killed.
THEOREM ReportsTrue == Spec => ReportsAreTrue
<1>1. ShapeInv /\ SoundInv /\ [Next]_vars =>
        [~raced' /\ cli' # cli =>
          /\ cli'.outcome = "stored" =>
                 \A s \in DOMAIN cli.saved : keyring'[s] = cli.new
          /\ cli.phase = "restore" /\ cli.command = "enroll" /\ cli'.outcome = "failed" =>
                 \A s \in DOMAIN cli.saved : keyring'[s] = cli.saved[s]
          /\ keyring'["research"] # keyring["research"] =>
                 cli.outcome \notin {"expired", "cancelled"}]_vars
  BY NextReports DEF Reported
<1>. QED BY <1>1, StoreIsSound, PTL DEF Spec, ReportsAreTrue
=============================================================================
