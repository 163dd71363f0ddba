-------------------------- MODULE JudgePortalProofs --------------------------
(***************************************************************************)
(* Theorems about JudgePortal, for every set of sessions and fixtures and   *)
(* every capacity of the portal.  No step of a session reads another        *)
(* session's record, so the invariant is one of a single record, and the    *)
(* proof has two layers: what each step does to a record, and that writing  *)
(* one record leaves the other sessions, their fixtures and a closed portal *)
(* as they should be.                                                       *)
(***************************************************************************)
EXTENDS JudgePortal, TLAPS

-----------------------------------------------------------------------------
(* The inductive invariant: what holds of one session's record r on a host  *)
(* that serves the route svc.                                               *)

\* Places before a supervisor runs, and those of one route only.
Preparatory == {"idle", "scope", "begin", "prepare", "mkdir", "start"}
PortalOnly == {"scope", "prepare", "undo", "unsettle", "drop", "pending", "discard",
               "running", "leaving"}
JourneyOnly == {"mkdir", "launch", "journey", "stopping", "settle"}

\* A journey is driven by the executor, never by a wrapper of the portal.
RouteOf(r, svc) ==
    /\ svc \in Services
    /\ r.at \in PortalOnly => svc = "portal"
    /\ r.at \in JourneyOnly => svc = "journeys"
    /\ svc = "journeys" => r.run = "no" /\ r.runtime = "no" /\ r.closer = "no"

\* The wrapper's close takes the runtime's with it, the supervisor is gone when
\* that one has ended, and a launch outlives its call only while it is closed.
ClosingOf(r) ==
    /\ r.closer # "no" <=> r.closed
    /\ r.closed => r.shutdown # "no"
    /\ Ended(r.shutdown) <=> r.supervisor = "down"
    /\ r.closer = "settling" => Ended(r.shutdown)
    /\ r.closer = "done" => r.shutdown = "done" /\ r.settlement \in {"settled", "pending"}
    /\ r.runtime = "launch" => r.at = "running" \/ r.shutdown # "no"

\* The outcome is fixed when the settlement is asked, and a completed one is
\* answered by "settled" or by an error.
SettlingOf(r) ==
    /\ r.settlement = "none" <=> r.outcome = "none"
    /\ r.outcome = "completed" => r.settlement \in {"asked", "settled", "rejected"}

\* What each place of the open call knows of the session: nothing has started
\* before a preview, nothing is settled before the run, an abort closes, and the
\* verdict "completed" is only carried by a call whose settlement asked for it.
PhaseOf(r, svc) ==
    /\ r.at \in Preparatory =>
            /\ r.shutdown = "no" /\ r.run = "no" /\ r.runtime = "no"
            /\ ~r.closed /\ r.settlement = "none"
            /\ r.supervisor \in {"none", "starting"} /\ r.verdict # "completed"
    /\ r.at = "pending" => ~r.closed /\ r.settlement = "none" /\ r.run = "no"
    /\ svc = "portal" /\ r.aborted => r.closed
    /\ r.at = "running" /\ r.closed => r.aborted
    /\ r.at = "running" /\ r.run = "launch" /\ ~r.aborted => r.settlement = "none"
    /\ r.runtime = "closing" => r.result \in {"completed", "stopped", "threw"}
    /\ r.run \in {"settling", "returned"} => r.runtime \in {"completed", "stopped"}
    /\ r.run = "failing" => r.runtime = "threw"
    /\ r.at = "running" /\ r.run \in {"settling", "returned"} /\ r.runtime = "completed"
            /\ ~r.aborted => r.outcome = "completed"
    /\ r.at = "leaving" /\ r.verdict = "completed" => r.outcome = "completed" /\ ~r.aborted
    /\ r.at = "discard" => r.verdict \in {"none", "preview_unavailable"}
    /\ r.at \in {"launch", "journey"} => r.supervisor \in {"up", "down"}
    /\ r.at \in {"launch", "journey", "stopping"} => r.settlement = "none"
    /\ r.at = "stopping" /\ r.verdict = "completed" => r.supervisor \in {"up", "down"}
    /\ r.at = "settle" /\ r.verdict = "completed" =>
            r.outcome = "completed" /\ r.shutdown = "done"

\* The answer "completed", with the strength that outlives the call.
ToldOf(r, svc) == r.told = "completed" =>
    /\ r.at = "done"
    /\ r.outcome = "completed" /\ r.settlement = "settled"
    /\ r.supervisor = "down" /\ r.shutdown = "done"
    /\ svc = "portal" => ~r.aborted

\* A merge has its pull request from the moment its supervisor starts.
FixtureOf(r, svc) ==
    svc = "portal" /\ r.at \in {"start", "pending", "running"} /\ r.merges =>
        r.fixture # NoFixture

Good(r, svc) ==
    /\ r \in SessionRecord
    /\ RouteOf(r, svc) /\ ClosingOf(r) /\ SettlingOf(r) /\ PhaseOf(r, svc) /\ ToldOf(r, svc)
    /\ FixtureOf(r, svc)

\* Of all sessions: each is good, none survives the close, and a fixture that
\* one of them holds is burned and held by no other.
PortalInv ==
    /\ session \in [Sessions -> SessionRecord]
    /\ \A s \in Sessions :
        /\ Good(session[s], service)
        /\ portal # "open" /\ service = "portal" =>
                /\ session[s].at # "pending"
                /\ session[s].runtime = "launch" => session[s].shutdown # "no"
        /\ session[s].fixture # NoFixture =>
            /\ session[s].fixture \in burned
            /\ \A t \in Sessions \ {s} : session[t].fixture # session[s].fixture

-----------------------------------------------------------------------------
(* What the operations of the session object do to a record.                *)

\* The fields of the record that the invariant reads.
Fields == {"at", "told", "verdict", "aborted", "closed", "run", "closer", "runtime",
           "shutdown", "supervisor", "outcome", "settlement", "merges", "fixture", "result"}

\* t is r but for some of its fields.
Kept(r, t, changed) == \A f \in Fields \ changed : t[f] = r[f]

LEMMA SettleIs ==
    ASSUME NEW r \in SessionRecord, NEW end \in {"completed", "failed"},
           NEW t, t = Settle(r, end)
    PROVE  /\ t \in SessionRecord
           /\ t.settlement = IF r.settlement = "none" THEN "asked" ELSE r.settlement
           /\ t.outcome = IF r.settlement = "none" THEN end ELSE r.outcome
           /\ Kept(r, t, {"settlement", "outcome"})
<1>1. CASE r.settlement = "none"
  <2>1. t = [r EXCEPT !.settlement = "asked", !.outcome = end]
    BY <1>1 DEF Settle
  <2>2. t \in SessionRecord
    BY <2>1 DEF SessionRecord, Settlements, Outcomes
  <2>. QED BY <1>1, <2>1, <2>2 DEF SessionRecord, Kept, Fields
<1>2. CASE r.settlement # "none"
  BY <1>2 DEF Settle, Kept
<1>. QED BY <1>1, <1>2

LEMMA CloseRuntimeIs ==
    ASSUME NEW r \in SessionRecord, NEW t, t = CloseRuntime(r)
    PROVE  /\ t \in SessionRecord
           /\ t.shutdown = IF r.shutdown = "no" THEN "waiting" ELSE r.shutdown
           /\ Kept(r, t, {"shutdown"})
<1>1. CASE r.shutdown = "no"
  <2>1. t = [r EXCEPT !.shutdown = "waiting"]
    BY <1>1 DEF CloseRuntime
  <2>2. t \in SessionRecord
    BY <2>1 DEF SessionRecord, Closes
  <2>. QED BY <1>1, <2>1, <2>2 DEF SessionRecord, Kept, Fields
<1>2. CASE r.shutdown # "no"
  BY <1>2 DEF CloseRuntime, Kept
<1>. QED BY <1>1, <1>2

LEMMA CloseSessionIs ==
    ASSUME NEW r \in SessionRecord, NEW t, t = CloseSession(r)
    PROVE  /\ t \in SessionRecord
           /\ t.closed = TRUE
           /\ t.closer = IF r.closer = "no" THEN "waiting" ELSE r.closer
           /\ t.shutdown = IF r.closer = "no" /\ r.shutdown = "no"
                           THEN "waiting" ELSE r.shutdown
           /\ Kept(r, t, {"closed", "closer", "shutdown"})
<1>1. CASE r.closer = "no"
  <2>1. PICK u : u = [[r EXCEPT !.closed = TRUE] EXCEPT !.closer = "waiting"]
    OBVIOUS
  <2>2. /\ u \in SessionRecord /\ u.closed = TRUE /\ u.closer = "waiting"
        /\ Kept(r, u, {"closed", "closer"})
    BY <2>1 DEF SessionRecord, Closes, Kept, Fields
  <2>3. t = CloseRuntime(u)
    BY <1>1, <2>1 DEF CloseSession, SessionRecord
  <2>4. /\ t \in SessionRecord
        /\ t.shutdown = IF u.shutdown = "no" THEN "waiting" ELSE u.shutdown
        /\ Kept(u, t, {"shutdown"})
    BY <2>2, <2>3, CloseRuntimeIs
  <2>. QED BY <1>1, <2>2, <2>4 DEF Kept, Fields
<1>2. CASE r.closer # "no"
  <2>1. t = [r EXCEPT !.closed = TRUE]
    BY <1>2 DEF CloseSession, SessionRecord
  <2>. QED BY <1>2, <2>1 DEF SessionRecord, Kept, Fields
<1>. QED BY <1>1, <1>2

-----------------------------------------------------------------------------
(* One lemma per step of a session: the record it leaves is good again, and *)
(* the step starts no worker and offers no preview.                         *)

Onward(r, t) ==
    /\ t.at = "pending" => r.at = "pending"
    /\ t.runtime = "launch" => r.runtime = "launch"
    /\ r.shutdown # "no" => t.shutdown # "no"
Moves(r, t, svc) == Good(t, svc) /\ Onward(r, t) /\ t.fixture = r.fixture

\* The steps that reserve a fixture, and those only an open portal takes.
Takes(r, t, svc, f) == Good(t, svc) /\ Onward(r, t) /\ t.fixture = f
Offers(r, t, svc) == Good(t, svc) /\ t.fixture = r.fixture

\* The open call of the portal or the coordinator is answered.
LEMMA OverGood ==
    ASSUME NEW svc, NEW r, Good(r, svc), r.at # "running", NEW answer \in Answers,
           answer = "completed" =>
               /\ r.outcome = "completed" /\ r.settlement = "settled"
               /\ r.supervisor = "down" /\ r.shutdown = "done"
               /\ svc = "portal" => ~r.aborted
    PROVE  Moves(r, Over(r, answer), svc)
<1>1. PICK t : t = [r EXCEPT !.at = "done", !.told = answer, !.verdict = "none"]
  OBVIOUS
<1>2. r \in SessionRecord
  BY DEF Good
<1>3. /\ t \in SessionRecord
      /\ t.at = "done"
      /\ t.told = answer
      /\ t.verdict = "none"
      /\ Kept(r, t, {"at", "told", "verdict"})
  <2>1. "done" \in Places /\ answer \in Answers /\ "none" \in Answers
    BY DEF Places, Answers
  <2>2. t \in SessionRecord
    BY <1>1, <1>2, <2>1 DEF SessionRecord
  <2>. QED BY <1>1, <1>2, <2>2 DEF SessionRecord, Kept, Fields
<1>4. Moves(r, t, svc)
  BY <1>3
     DEF Moves, Onward, Good, RouteOf, ClosingOf, SettlingOf, PhaseOf, ToldOf,
         FixtureOf, Kept, Fields, Ended, Preparatory, PortalOnly, JourneyOnly, Services
<1>. QED BY <1>1, <1>4 DEF Over

\* A draft takes one of the portal's places.
LEMMA DraftGood ==
    ASSUME NEW svc, NEW r, Good(r, svc), svc = "portal", r.at = "idle"
    PROVE  Moves(r, [r EXCEPT !.at = "scope"], svc)
<1>1. PICK t : t = [r EXCEPT !.at = "scope"]
  OBVIOUS
<1>2. r \in SessionRecord
  BY DEF Good
<1>3. /\ t \in SessionRecord
      /\ t.at = "scope"
      /\ Kept(r, t, {"at"})
  <2>1. "scope" \in Places
    BY DEF Places
  <2>2. t \in SessionRecord
    BY <1>1, <1>2, <2>1 DEF SessionRecord
  <2>. QED BY <1>1, <1>2, <2>2 DEF SessionRecord, Kept, Fields
<1>4. Moves(r, t, svc)
  BY <1>3
     DEF Moves, Onward, Good, RouteOf, ClosingOf, SettlingOf, PhaseOf, ToldOf,
         FixtureOf, Kept, Fields, Ended, Preparatory, PortalOnly, JourneyOnly, Services
<1>. QED BY <1>1, <1>4

\* A scope is drafted, with a target of its own to merge or without.
LEMMA ScopeGood ==
    ASSUME NEW svc, NEW r, Good(r, svc), r.at = "scope", NEW merges \in BOOLEAN
    PROVE  Moves(r, [[r EXCEPT !.at = "begin"] EXCEPT !.merges = merges], svc)
<1>1. PICK u, t :
          /\ u = [r EXCEPT !.at = "begin"]
          /\ t = [u EXCEPT !.merges = merges]
  OBVIOUS
<1>2. r \in SessionRecord
  BY DEF Good
<1>3. /\ u \in SessionRecord
      /\ u.at = "begin"
      /\ Kept(r, u, {"at"})
  <2>1. "begin" \in Places
    BY DEF Places
  <2>2. u \in SessionRecord
    BY <1>1, <1>2, <2>1 DEF SessionRecord
  <2>. QED BY <1>1, <1>2, <2>2 DEF SessionRecord, Kept, Fields
<1>4. /\ t \in SessionRecord
      /\ t.merges = merges
      /\ Kept(u, t, {"merges"})
  BY <1>1, <1>3 DEF SessionRecord, Kept, Fields
<1>5. /\ t.at = "begin"
      /\ t.merges = merges
      /\ Kept(r, t, {"at", "merges"})
  BY <1>3, <1>4 DEF Kept, Fields
<1>6. Moves(r, t, svc)
  BY <1>4, <1>5
     DEF Moves, Onward, Good, RouteOf, ClosingOf, SettlingOf, PhaseOf, ToldOf,
         FixtureOf, Kept, Fields, Ended, Preparatory, PortalOnly, JourneyOnly, Services
<1>. QED BY <1>1, <1>6

\* The scope of the merge scenario is drafted with a fixture.
LEMMA ScopeTakes ==
    ASSUME NEW svc, NEW r, Good(r, svc), r.at = "scope", NEW f \in Fixtures
    PROVE  Takes(r, [[[r EXCEPT !.at = "begin"] EXCEPT !.merges = TRUE] EXCEPT !.fixture = f], svc, f)
<1>1. PICK u, v, t :
          /\ u = [r EXCEPT !.at = "begin"]
          /\ v = [u EXCEPT !.merges = TRUE]
          /\ t = [v EXCEPT !.fixture = f]
  OBVIOUS
<1>2. r \in SessionRecord
  BY DEF Good
<1>3. /\ u \in SessionRecord
      /\ u.at = "begin"
      /\ Kept(r, u, {"at"})
  <2>1. "begin" \in Places
    BY DEF Places
  <2>2. u \in SessionRecord
    BY <1>1, <1>2, <2>1 DEF SessionRecord
  <2>. QED BY <1>1, <1>2, <2>2 DEF SessionRecord, Kept, Fields
<1>4. /\ v \in SessionRecord
      /\ v.merges = TRUE
      /\ Kept(u, v, {"merges"})
  BY <1>1, <1>3 DEF SessionRecord, Kept, Fields
<1>5. /\ t \in SessionRecord
      /\ t.fixture = f
      /\ Kept(v, t, {"fixture"})
  BY <1>1, <1>4 DEF SessionRecord, Kept, Fields
<1>6. /\ t.at = "begin"
      /\ t.merges = TRUE
      /\ t.fixture = f
      /\ Kept(r, t, {"at", "merges", "fixture"})
  BY <1>3, <1>4, <1>5 DEF Kept, Fields
<1>7. Takes(r, t, svc, f)
  BY <1>5, <1>6
     DEF Takes, Onward, Good, RouteOf, ClosingOf, SettlingOf, PhaseOf, ToldOf,
         FixtureOf, Kept, Fields, Ended, Preparatory, PortalOnly, JourneyOnly, Services
<1>. QED BY <1>1, <1>7

\* The budget admits a drafted journey.
LEMMA BeginGood ==
    ASSUME NEW svc, NEW r, Good(r, svc), svc = "portal", r.at = "begin"
    PROVE  Moves(r, [r EXCEPT !.admitted = TRUE, !.at = "prepare"], svc)
<1>1. PICK t : t = [r EXCEPT !.admitted = TRUE, !.at = "prepare"]
  OBVIOUS
<1>2. r \in SessionRecord
  BY DEF Good
<1>3. /\ t \in SessionRecord
      /\ t.at = "prepare"
      /\ Kept(r, t, {"at"})
  <2>1. "prepare" \in Places
    BY DEF Places
  <2>2. t \in SessionRecord
    BY <1>1, <1>2, <2>1 DEF SessionRecord
  <2>. QED BY <1>1, <1>2, <2>2 DEF SessionRecord, Kept, Fields
<1>4. Moves(r, t, svc)
  BY <1>3
     DEF Moves, Onward, Good, RouteOf, ClosingOf, SettlingOf, PhaseOf, ToldOf,
         FixtureOf, Kept, Fields, Ended, Preparatory, PortalOnly, JourneyOnly, Services
<1>. QED BY <1>1, <1>4

\* The runtime of a journey that has what it merges is prepared.
LEMMA PrepareGood ==
    ASSUME NEW svc, NEW r, Good(r, svc), r.at = "prepare",
           r.merges => r.fixture # NoFixture
    PROVE  Moves(r, [r EXCEPT !.at = "start", !.supervisor = "starting"], svc)
<1>1. PICK t : t = [r EXCEPT !.at = "start", !.supervisor = "starting"]
  OBVIOUS
<1>2. r \in SessionRecord
  BY DEF Good
<1>3. /\ t \in SessionRecord
      /\ t.at = "start"
      /\ t.supervisor = "starting"
      /\ Kept(r, t, {"at", "supervisor"})
  <2>1. "start" \in Places /\ "starting" \in Supervisors
    BY DEF Places, Supervisors
  <2>2. t \in SessionRecord
    BY <1>1, <1>2, <2>1 DEF SessionRecord
  <2>. QED BY <1>1, <1>2, <2>2 DEF SessionRecord, Kept, Fields
<1>4. Moves(r, t, svc)
  BY <1>3
     DEF Moves, Onward, Good, RouteOf, ClosingOf, SettlingOf, PhaseOf, ToldOf,
         FixtureOf, Kept, Fields, Ended, Preparatory, PortalOnly, JourneyOnly, Services
<1>. QED BY <1>1, <1>4

\* The runtime of a piloted merge reserves its target.
LEMMA PrepareTakes ==
    ASSUME NEW svc, NEW r, Good(r, svc), r.at = "prepare", NEW f \in Fixtures
    PROVE  Takes(r, [[r EXCEPT !.at = "start", !.supervisor = "starting"] EXCEPT !.fixture = f], svc, f)
<1>1. PICK u, t :
          /\ u = [r EXCEPT !.at = "start", !.supervisor = "starting"]
          /\ t = [u EXCEPT !.fixture = f]
  OBVIOUS
<1>2. r \in SessionRecord
  BY DEF Good
<1>3. /\ u \in SessionRecord
      /\ u.at = "start"
      /\ u.supervisor = "starting"
      /\ Kept(r, u, {"at", "supervisor"})
  <2>1. "start" \in Places /\ "starting" \in Supervisors
    BY DEF Places, Supervisors
  <2>2. u \in SessionRecord
    BY <1>1, <1>2, <2>1 DEF SessionRecord
  <2>. QED BY <1>1, <1>2, <2>2 DEF SessionRecord, Kept, Fields
<1>4. /\ t \in SessionRecord
      /\ t.fixture = f
      /\ Kept(u, t, {"fixture"})
  BY <1>1, <1>3 DEF SessionRecord, Kept, Fields
<1>5. /\ t.at = "start"
      /\ t.supervisor = "starting"
      /\ t.fixture = f
      /\ Kept(r, t, {"at", "supervisor", "fixture"})
  BY <1>3, <1>4 DEF Kept, Fields
<1>6. Takes(r, t, svc, f)
  BY <1>4, <1>5, FixturesAssumption
     DEF Takes, Onward, Good, RouteOf, ClosingOf, SettlingOf, PhaseOf, ToldOf,
         FixtureOf, Kept, Fields, Ended, Preparatory, PortalOnly, JourneyOnly, Services
<1>. QED BY <1>1, <1>6

\* A draft that failed settles its reservation.
LEMMA UnsettleGood ==
    ASSUME NEW svc, NEW r, Good(r, svc), svc = "portal", r.at \in {"prepare", "undo"}
    PROVE  Moves(r, [Settle(r, "failed") EXCEPT !.at = "unsettle"], svc)
<1>1. PICK u, t :
          /\ u = Settle(r, "failed")
          /\ t = [u EXCEPT !.at = "unsettle"]
  OBVIOUS
<1>2. r \in SessionRecord
  BY DEF Good
<1>3. /\ u \in SessionRecord
      /\ u.settlement = IF r.settlement = "none" THEN "asked" ELSE r.settlement
      /\ u.outcome = IF r.settlement = "none" THEN "failed" ELSE r.outcome
      /\ Kept(r, u, {"settlement", "outcome"})
  BY <1>1, <1>2, SettleIs
<1>4. /\ t \in SessionRecord
      /\ t.at = "unsettle"
      /\ Kept(u, t, {"at"})
  <2>1. "unsettle" \in Places
    BY DEF Places
  <2>2. t \in SessionRecord
    BY <1>1, <1>3, <2>1 DEF SessionRecord
  <2>. QED BY <1>1, <1>3, <2>2 DEF SessionRecord, Kept, Fields
<1>5. /\ t.settlement = IF r.settlement = "none" THEN "asked" ELSE r.settlement
      /\ t.outcome = IF r.settlement = "none" THEN "failed" ELSE r.outcome
      /\ t.at = "unsettle"
      /\ Kept(r, t, {"settlement", "outcome", "at"})
  BY <1>3, <1>4 DEF Kept, Fields
<1>6. Moves(r, t, svc)
  BY <1>4, <1>5
     DEF Moves, Onward, Good, RouteOf, ClosingOf, SettlingOf, PhaseOf, ToldOf,
         FixtureOf, Kept, Fields, Ended, Preparatory, PortalOnly, JourneyOnly, Services
<1>. QED BY <1>1, <1>6

\* The budget admitted a draft whose binding is refused.
LEMMA BeginUnsettleGood ==
    ASSUME NEW svc, NEW r, Good(r, svc), svc = "portal", r.at = "begin"
    PROVE  Moves(r, [Settle(r, "failed") EXCEPT !.admitted = TRUE, !.at = "unsettle"], svc)
<1>1. PICK u, t :
          /\ u = Settle(r, "failed")
          /\ t = [u EXCEPT !.admitted = TRUE, !.at = "unsettle"]
  OBVIOUS
<1>2. r \in SessionRecord
  BY DEF Good
<1>3. /\ u \in SessionRecord
      /\ u.settlement = IF r.settlement = "none" THEN "asked" ELSE r.settlement
      /\ u.outcome = IF r.settlement = "none" THEN "failed" ELSE r.outcome
      /\ Kept(r, u, {"settlement", "outcome"})
  BY <1>1, <1>2, SettleIs
<1>4. /\ t \in SessionRecord
      /\ t.at = "unsettle"
      /\ Kept(u, t, {"at"})
  <2>1. "unsettle" \in Places
    BY DEF Places
  <2>2. t \in SessionRecord
    BY <1>1, <1>3, <2>1 DEF SessionRecord
  <2>. QED BY <1>1, <1>3, <2>2 DEF SessionRecord, Kept, Fields
<1>5. /\ t.settlement = IF r.settlement = "none" THEN "asked" ELSE r.settlement
      /\ t.outcome = IF r.settlement = "none" THEN "failed" ELSE r.outcome
      /\ t.at = "unsettle"
      /\ Kept(r, t, {"settlement", "outcome", "at"})
  BY <1>3, <1>4 DEF Kept, Fields
<1>6. Moves(r, t, svc)
  BY <1>4, <1>5
     DEF Moves, Onward, Good, RouteOf, ClosingOf, SettlingOf, PhaseOf, ToldOf,
         FixtureOf, Kept, Fields, Ended, Preparatory, PortalOnly, JourneyOnly, Services
<1>. QED BY <1>1, <1>6

\* A supervisor does not start.
LEMMA StartUnsettleGood ==
    ASSUME NEW svc, NEW r, Good(r, svc), svc = "portal", r.at = "start"
    PROVE  Moves(r, [Settle(r, "failed") EXCEPT !.at = "unsettle", !.supervisor = "none"], svc)
<1>1. PICK u, t :
          /\ u = Settle(r, "failed")
          /\ t = [u EXCEPT !.at = "unsettle", !.supervisor = "none"]
  OBVIOUS
<1>2. r \in SessionRecord
  BY DEF Good
<1>3. /\ u \in SessionRecord
      /\ u.settlement = IF r.settlement = "none" THEN "asked" ELSE r.settlement
      /\ u.outcome = IF r.settlement = "none" THEN "failed" ELSE r.outcome
      /\ Kept(r, u, {"settlement", "outcome"})
  BY <1>1, <1>2, SettleIs
<1>4. /\ t \in SessionRecord
      /\ t.at = "unsettle"
      /\ t.supervisor = "none"
      /\ Kept(u, t, {"at", "supervisor"})
  <2>1. "unsettle" \in Places /\ "none" \in Supervisors
    BY DEF Places, Supervisors
  <2>2. t \in SessionRecord
    BY <1>1, <1>3, <2>1 DEF SessionRecord
  <2>. QED BY <1>1, <1>3, <2>2 DEF SessionRecord, Kept, Fields
<1>5. /\ t.settlement = IF r.settlement = "none" THEN "asked" ELSE r.settlement
      /\ t.outcome = IF r.settlement = "none" THEN "failed" ELSE r.outcome
      /\ t.at = "unsettle"
      /\ t.supervisor = "none"
      /\ Kept(r, t, {"settlement", "outcome", "at", "supervisor"})
  BY <1>3, <1>4 DEF Kept, Fields
<1>6. Moves(r, t, svc)
  BY <1>4, <1>5
     DEF Moves, Onward, Good, RouteOf, ClosingOf, SettlingOf, PhaseOf, ToldOf,
         FixtureOf, Kept, Fields, Ended, Preparatory, PortalOnly, JourneyOnly, Services
<1>. QED BY <1>1, <1>6

\* A supervisor that started is closed for its journey's failure.
LEMMA StartUndoGood ==
    ASSUME NEW svc, NEW r, Good(r, svc), svc = "portal", r.at = "start"
    PROVE  Moves(r, [CloseRuntime([r EXCEPT !.supervisor = "up"]) EXCEPT !.at = "undo"], svc)
<1>1. PICK u, v, t :
          /\ u = [r EXCEPT !.supervisor = "up"]
          /\ v = CloseRuntime(u)
          /\ t = [v EXCEPT !.at = "undo"]
  OBVIOUS
<1>2. r \in SessionRecord
  BY DEF Good
<1>3. /\ u \in SessionRecord
      /\ u.supervisor = "up"
      /\ Kept(r, u, {"supervisor"})
  <2>1. "up" \in Supervisors
    BY DEF Supervisors
  <2>2. u \in SessionRecord
    BY <1>1, <1>2, <2>1 DEF SessionRecord
  <2>. QED BY <1>1, <1>2, <2>2 DEF SessionRecord, Kept, Fields
<1>4. /\ v \in SessionRecord
      /\ v.shutdown = IF u.shutdown = "no" THEN "waiting" ELSE u.shutdown
      /\ Kept(u, v, {"shutdown"})
  BY <1>1, <1>3, CloseRuntimeIs
<1>5. /\ t \in SessionRecord
      /\ t.at = "undo"
      /\ Kept(v, t, {"at"})
  <2>1. "undo" \in Places
    BY DEF Places
  <2>2. t \in SessionRecord
    BY <1>1, <1>4, <2>1 DEF SessionRecord
  <2>. QED BY <1>1, <1>4, <2>2 DEF SessionRecord, Kept, Fields
<1>6. /\ t.supervisor = "up"
      /\ t.shutdown = IF r.shutdown = "no" THEN "waiting" ELSE r.shutdown
      /\ t.at = "undo"
      /\ Kept(r, t, {"supervisor", "shutdown", "at"})
  BY <1>3, <1>4, <1>5 DEF Kept, Fields
<1>7. Moves(r, t, svc)
  BY <1>5, <1>6
     DEF Moves, Onward, Good, RouteOf, ClosingOf, SettlingOf, PhaseOf, ToldOf,
         FixtureOf, Kept, Fields, Ended, Preparatory, PortalOnly, JourneyOnly, Services
<1>. QED BY <1>1, <1>7

\* A session prepared too late, or for another scope, is closed.
LEMMA StartDropGood ==
    ASSUME NEW svc, NEW r, Good(r, svc), svc = "portal", r.at = "start"
    PROVE  Moves(r, [CloseSession([r EXCEPT !.supervisor = "up"]) EXCEPT !.at = "drop"], svc)
<1>1. PICK u, v, t :
          /\ u = [r EXCEPT !.supervisor = "up"]
          /\ v = CloseSession(u)
          /\ t = [v EXCEPT !.at = "drop"]
  OBVIOUS
<1>2. r \in SessionRecord
  BY DEF Good
<1>3. /\ u \in SessionRecord
      /\ u.supervisor = "up"
      /\ Kept(r, u, {"supervisor"})
  <2>1. "up" \in Supervisors
    BY DEF Supervisors
  <2>2. u \in SessionRecord
    BY <1>1, <1>2, <2>1 DEF SessionRecord
  <2>. QED BY <1>1, <1>2, <2>2 DEF SessionRecord, Kept, Fields
<1>4. /\ v \in SessionRecord
      /\ v.closed = TRUE
      /\ v.closer = IF u.closer = "no" THEN "waiting" ELSE u.closer
      /\ v.shutdown = IF u.closer = "no" /\ u.shutdown = "no" THEN "waiting" ELSE u.shutdown
      /\ Kept(u, v, {"closed", "closer", "shutdown"})
  BY <1>1, <1>3, CloseSessionIs
<1>5. /\ t \in SessionRecord
      /\ t.at = "drop"
      /\ Kept(v, t, {"at"})
  <2>1. "drop" \in Places
    BY DEF Places
  <2>2. t \in SessionRecord
    BY <1>1, <1>4, <2>1 DEF SessionRecord
  <2>. QED BY <1>1, <1>4, <2>2 DEF SessionRecord, Kept, Fields
<1>6. /\ t.supervisor = "up"
      /\ t.closed = TRUE
      /\ t.closer = IF r.closer = "no" THEN "waiting" ELSE r.closer
      /\ t.shutdown = IF r.closer = "no" /\ r.shutdown = "no" THEN "waiting" ELSE r.shutdown
      /\ t.at = "drop"
      /\ Kept(r, t, {"supervisor", "closed", "closer", "shutdown", "at"})
  BY <1>3, <1>4, <1>5 DEF Kept, Fields
<1>7. Moves(r, t, svc)
  BY <1>5, <1>6
     DEF Moves, Onward, Good, RouteOf, ClosingOf, SettlingOf, PhaseOf, ToldOf,
         FixtureOf, Kept, Fields, Ended, Preparatory, PortalOnly, JourneyOnly, Services
<1>. QED BY <1>1, <1>7

\* A prepared session is offered for confirmation.
LEMMA StartOffers ==
    ASSUME NEW svc, NEW r, Good(r, svc), svc = "portal", r.at = "start"
    PROVE  Offers(r, [[r EXCEPT !.supervisor = "up"] EXCEPT !.at = "pending"], svc)
<1>1. PICK u, t :
          /\ u = [r EXCEPT !.supervisor = "up"]
          /\ t = [u EXCEPT !.at = "pending"]
  OBVIOUS
<1>2. r \in SessionRecord
  BY DEF Good
<1>3. /\ u \in SessionRecord
      /\ u.supervisor = "up"
      /\ Kept(r, u, {"supervisor"})
  <2>1. "up" \in Supervisors
    BY DEF Supervisors
  <2>2. u \in SessionRecord
    BY <1>1, <1>2, <2>1 DEF SessionRecord
  <2>. QED BY <1>1, <1>2, <2>2 DEF SessionRecord, Kept, Fields
<1>4. /\ t \in SessionRecord
      /\ t.at = "pending"
      /\ Kept(u, t, {"at"})
  <2>1. "pending" \in Places
    BY DEF Places
  <2>2. t \in SessionRecord
    BY <1>1, <1>3, <2>1 DEF SessionRecord
  <2>. QED BY <1>1, <1>3, <2>2 DEF SessionRecord, Kept, Fields
<1>5. /\ t.supervisor = "up"
      /\ t.at = "pending"
      /\ Kept(r, t, {"supervisor", "at"})
  BY <1>3, <1>4 DEF Kept, Fields
<1>6. Offers(r, t, svc)
  BY <1>4, <1>5
     DEF Offers, Onward, Good, RouteOf, ClosingOf, SettlingOf, PhaseOf, ToldOf,
         FixtureOf, Kept, Fields, Ended, Preparatory, PortalOnly, JourneyOnly, Services
<1>. QED BY <1>1, <1>6

\* A preview is discarded.
LEMMA DiscardGood ==
    ASSUME NEW svc, NEW r, Good(r, svc), r.at = "pending",
           NEW answer \in {"none", "preview_unavailable"}
    PROVE  Moves(r, Discard(r, answer), svc)
<1>1. PICK u, t :
          /\ u = CloseSession(r)
          /\ t = [u EXCEPT !.at = "discard", !.verdict = answer]
  OBVIOUS
<1>2. r \in SessionRecord
  BY DEF Good
<1>3. /\ u \in SessionRecord
      /\ u.closed = TRUE
      /\ u.closer = IF r.closer = "no" THEN "waiting" ELSE r.closer
      /\ u.shutdown = IF r.closer = "no" /\ r.shutdown = "no" THEN "waiting" ELSE r.shutdown
      /\ Kept(r, u, {"closed", "closer", "shutdown"})
  BY <1>1, <1>2, CloseSessionIs
<1>4. /\ t \in SessionRecord
      /\ t.at = "discard"
      /\ t.verdict = answer
      /\ Kept(u, t, {"at", "verdict"})
  <2>1. "discard" \in Places /\ answer \in Answers
    BY DEF Places, Answers
  <2>2. t \in SessionRecord
    BY <1>1, <1>3, <2>1 DEF SessionRecord
  <2>. QED BY <1>1, <1>3, <2>2 DEF SessionRecord, Kept, Fields
<1>5. /\ t.closed = TRUE
      /\ t.closer = IF r.closer = "no" THEN "waiting" ELSE r.closer
      /\ t.shutdown = IF r.closer = "no" /\ r.shutdown = "no" THEN "waiting" ELSE r.shutdown
      /\ t.at = "discard"
      /\ t.verdict = answer
      /\ Kept(r, t, {"closed", "closer", "shutdown", "at", "verdict"})
  BY <1>3, <1>4 DEF Kept, Fields
<1>6. Moves(r, t, svc)
  BY <1>4, <1>5
     DEF Moves, Onward, Good, RouteOf, ClosingOf, SettlingOf, PhaseOf, ToldOf,
         FixtureOf, Kept, Fields, Ended, Preparatory, PortalOnly, JourneyOnly, Services
<1>. QED BY <1>1, <1>6 DEF Discard

\* A preview is confirmed, and its session refuses to run.
LEMMA ConfirmRefused ==
    ASSUME NEW svc, NEW r, Good(r, svc), r.at = "pending",
           r.closed \/ r.started \/ r.aborted
    PROVE  Offers(r, [ConfirmAndRun(r) EXCEPT !.at = "running"], svc)
<1>1. PICK u, t :
          /\ u = [r EXCEPT !.run = "threw"]
          /\ t = [u EXCEPT !.at = "running"]
  OBVIOUS
<1>2. r \in SessionRecord
  BY DEF Good
<1>3. /\ u \in SessionRecord
      /\ u.run = "threw"
      /\ Kept(r, u, {"run"})
  <2>1. "threw" \in Runs
    BY DEF Runs
  <2>2. u \in SessionRecord
    BY <1>1, <1>2, <2>1 DEF SessionRecord
  <2>. QED BY <1>1, <1>2, <2>2 DEF SessionRecord, Kept, Fields
<1>4. /\ t \in SessionRecord
      /\ t.at = "running"
      /\ Kept(u, t, {"at"})
  <2>1. "running" \in Places
    BY DEF Places
  <2>2. t \in SessionRecord
    BY <1>1, <1>3, <2>1 DEF SessionRecord
  <2>. QED BY <1>1, <1>3, <2>2 DEF SessionRecord, Kept, Fields
<1>5. /\ t.run = "threw"
      /\ t.at = "running"
      /\ Kept(r, t, {"run", "at"})
  BY <1>3, <1>4 DEF Kept, Fields
<1>6. Offers(r, t, svc)
  BY <1>4, <1>5
     DEF Offers, Onward, Good, RouteOf, ClosingOf, SettlingOf, PhaseOf, ToldOf,
         FixtureOf, Kept, Fields, Ended, Preparatory, PortalOnly, JourneyOnly, Services
<1>. QED BY <1>1, <1>6 DEF ConfirmAndRun

\* The wrapper runs the session, and the runtime refuses.
LEMMA ConfirmThrows ==
    ASSUME NEW svc, NEW r, Good(r, svc), r.at = "pending",
           ~(r.closed \/ r.started \/ r.aborted),
           RuntimeRefuses([r EXCEPT !.started = TRUE, !.run = "launch"])
    PROVE  Offers(r, [ConfirmAndRun(r) EXCEPT !.at = "running"], svc)
<1>1. PICK u, v, t :
          /\ u = [r EXCEPT !.started = TRUE, !.run = "launch"]
          /\ v = [u EXCEPT !.runtime = "threw"]
          /\ t = [v EXCEPT !.at = "running"]
  OBVIOUS
<1>2. r \in SessionRecord
  BY DEF Good
<1>3. /\ u \in SessionRecord
      /\ u.run = "launch"
      /\ Kept(r, u, {"run"})
  <2>1. "launch" \in Runs
    BY DEF Runs
  <2>2. u \in SessionRecord
    BY <1>1, <1>2, <2>1 DEF SessionRecord
  <2>. QED BY <1>1, <1>2, <2>2 DEF SessionRecord, Kept, Fields
<1>4. /\ v \in SessionRecord
      /\ v.runtime = "threw"
      /\ Kept(u, v, {"runtime"})
  <2>1. "threw" \in Runs
    BY DEF Runs
  <2>2. v \in SessionRecord
    BY <1>1, <1>3, <2>1 DEF SessionRecord
  <2>. QED BY <1>1, <1>3, <2>2 DEF SessionRecord, Kept, Fields
<1>5. /\ t \in SessionRecord
      /\ t.at = "running"
      /\ Kept(v, t, {"at"})
  <2>1. "running" \in Places
    BY DEF Places
  <2>2. t = [v EXCEPT !.at = "running"] /\ v \in SessionRecord
    BY <1>1, <1>4
  <2>3. t \in SessionRecord
    BY <2>1, <2>2 DEF SessionRecord
  <2>. QED BY <2>2, <2>3 DEF SessionRecord, Kept, Fields
<1>6. /\ t.run = "launch"
      /\ t.runtime = "threw"
      /\ t.at = "running"
      /\ Kept(r, t, {"run", "runtime", "at"})
  BY <1>3, <1>4, <1>5 DEF Kept, Fields
<1>7. Offers(r, t, svc)
  BY <1>5, <1>6
     DEF Offers, Onward, Good, RouteOf, ClosingOf, SettlingOf, PhaseOf, ToldOf,
         FixtureOf, Kept, Fields, Ended, Preparatory, PortalOnly, JourneyOnly, Services
<1>. QED BY <1>1, <1>7 DEF ConfirmAndRun

\* The runtime starts the launch of a confirmed session.
LEMMA ConfirmLaunches ==
    ASSUME NEW svc, NEW r, Good(r, svc), r.at = "pending",
           ~(r.closed \/ r.started \/ r.aborted),
           ~RuntimeRefuses([r EXCEPT !.started = TRUE, !.run = "launch"])
    PROVE  Offers(r, [ConfirmAndRun(r) EXCEPT !.at = "running"], svc)
<1>1. PICK u, v, t :
          /\ u = [r EXCEPT !.started = TRUE, !.run = "launch"]
          /\ v = [u EXCEPT !.runtime = "launch"]
          /\ t = [v EXCEPT !.at = "running"]
  OBVIOUS
<1>2. r \in SessionRecord
  BY DEF Good
<1>3. /\ u \in SessionRecord
      /\ u.run = "launch"
      /\ Kept(r, u, {"run"})
  <2>1. "launch" \in Runs
    BY DEF Runs
  <2>2. u \in SessionRecord
    BY <1>1, <1>2, <2>1 DEF SessionRecord
  <2>. QED BY <1>1, <1>2, <2>2 DEF SessionRecord, Kept, Fields
<1>4. /\ v \in SessionRecord
      /\ v.runtime = "launch"
      /\ Kept(u, v, {"runtime"})
  <2>1. "launch" \in Runs
    BY DEF Runs
  <2>2. v \in SessionRecord
    BY <1>1, <1>3, <2>1 DEF SessionRecord
  <2>. QED BY <1>1, <1>3, <2>2 DEF SessionRecord, Kept, Fields
<1>5. /\ t \in SessionRecord
      /\ t.at = "running"
      /\ Kept(v, t, {"at"})
  <2>1. "running" \in Places
    BY DEF Places
  <2>2. t = [v EXCEPT !.at = "running"] /\ v \in SessionRecord
    BY <1>1, <1>4
  <2>3. t \in SessionRecord
    BY <2>1, <2>2 DEF SessionRecord
  <2>. QED BY <2>2, <2>3 DEF SessionRecord, Kept, Fields
<1>6. /\ t.run = "launch"
      /\ t.runtime = "launch"
      /\ t.at = "running"
      /\ Kept(r, t, {"run", "runtime", "at"})
  BY <1>3, <1>4, <1>5 DEF Kept, Fields
<1>7. Offers(r, t, svc)
  BY <1>5, <1>6
     DEF Offers, Onward, Good, RouteOf, ClosingOf, SettlingOf, PhaseOf, ToldOf,
         FixtureOf, Kept, Fields, Ended, Preparatory, PortalOnly, JourneyOnly, Services
<1>. QED BY <1>1, <1>7 DEF ConfirmAndRun

\* The race of the run and the cancel is over.
LEMMA LeaveGood ==
    ASSUME NEW svc, NEW r, Good(r, svc), r.at = "running", NEW verdict \in Answers,
           verdict = "completed" =>
               r.run = "returned" /\ ~r.aborted /\ r.runtime = "completed"
    PROVE  Moves(r, [CloseSession(r) EXCEPT !.at = "leaving", !.verdict = verdict], svc)
<1>1. PICK u, t :
          /\ u = CloseSession(r)
          /\ t = [u EXCEPT !.at = "leaving", !.verdict = verdict]
  OBVIOUS
<1>2. r \in SessionRecord
  BY DEF Good
<1>3. /\ u \in SessionRecord
      /\ u.closed = TRUE
      /\ u.closer = IF r.closer = "no" THEN "waiting" ELSE r.closer
      /\ u.shutdown = IF r.closer = "no" /\ r.shutdown = "no" THEN "waiting" ELSE r.shutdown
      /\ Kept(r, u, {"closed", "closer", "shutdown"})
  BY <1>1, <1>2, CloseSessionIs
<1>4. /\ t \in SessionRecord
      /\ t.at = "leaving"
      /\ t.verdict = verdict
      /\ Kept(u, t, {"at", "verdict"})
  <2>1. "leaving" \in Places /\ verdict \in Answers
    BY DEF Places, Answers
  <2>2. t \in SessionRecord
    BY <1>1, <1>3, <2>1 DEF SessionRecord
  <2>. QED BY <1>1, <1>3, <2>2 DEF SessionRecord, Kept, Fields
<1>5. /\ t.closed = TRUE
      /\ t.closer = IF r.closer = "no" THEN "waiting" ELSE r.closer
      /\ t.shutdown = IF r.closer = "no" /\ r.shutdown = "no" THEN "waiting" ELSE r.shutdown
      /\ t.at = "leaving"
      /\ t.verdict = verdict
      /\ Kept(r, t, {"closed", "closer", "shutdown", "at", "verdict"})
  BY <1>3, <1>4 DEF Kept, Fields
<1>6. Moves(r, t, svc)
  BY <1>4, <1>5
     DEF Moves, Onward, Good, RouteOf, ClosingOf, SettlingOf, PhaseOf, ToldOf,
         FixtureOf, Kept, Fields, Ended, Preparatory, PortalOnly, JourneyOnly, Services
<1>. QED BY <1>1, <1>6

\* A headless journey is called.
LEMMA JourneyGood ==
    ASSUME NEW svc, NEW r, Good(r, svc), svc = "journeys", r.at = "idle"
    PROVE  Moves(r, [r EXCEPT !.at = "begin"], svc)
<1>1. PICK t : t = [r EXCEPT !.at = "begin"]
  OBVIOUS
<1>2. r \in SessionRecord
  BY DEF Good
<1>3. /\ t \in SessionRecord
      /\ t.at = "begin"
      /\ Kept(r, t, {"at"})
  <2>1. "begin" \in Places
    BY DEF Places
  <2>2. t \in SessionRecord
    BY <1>1, <1>2, <2>1 DEF SessionRecord
  <2>. QED BY <1>1, <1>2, <2>2 DEF SessionRecord, Kept, Fields
<1>4. Moves(r, t, svc)
  BY <1>3
     DEF Moves, Onward, Good, RouteOf, ClosingOf, SettlingOf, PhaseOf, ToldOf,
         FixtureOf, Kept, Fields, Ended, Preparatory, PortalOnly, JourneyOnly, Services
<1>. QED BY <1>1, <1>4

\* The caller of a journey aborts it.
LEMMA JourneyAbortGood ==
    ASSUME NEW svc, NEW r, Good(r, svc), svc = "journeys"
    PROVE  Moves(r, [r EXCEPT !.aborted = TRUE], svc)
<1>1. PICK t : t = [r EXCEPT !.aborted = TRUE]
  OBVIOUS
<1>2. r \in SessionRecord
  BY DEF Good
<1>3. /\ t \in SessionRecord
      /\ t.aborted = TRUE
      /\ Kept(r, t, {"aborted"})
  BY <1>1, <1>2 DEF SessionRecord, Kept, Fields
<1>4. Moves(r, t, svc)
  BY <1>3
     DEF Moves, Onward, Good, RouteOf, ClosingOf, SettlingOf, PhaseOf, ToldOf,
         FixtureOf, Kept, Fields, Ended, Preparatory, PortalOnly, JourneyOnly, Services
<1>. QED BY <1>1, <1>4

\* The executor's listener closes the supervisor, once there is one.
LEMMA ExecutorAbortsGood ==
    ASSUME NEW svc, NEW r, Good(r, svc), svc = "journeys", r.supervisor = "up"
    PROVE  Moves(r, CloseRuntime(r), svc)
<1>1. PICK t : t = CloseRuntime(r)
  OBVIOUS
<1>2. r \in SessionRecord
  BY DEF Good
<1>3. /\ t \in SessionRecord
      /\ t.shutdown = IF r.shutdown = "no" THEN "waiting" ELSE r.shutdown
      /\ Kept(r, t, {"shutdown"})
  BY <1>1, <1>2, CloseRuntimeIs
<1>4. Moves(r, t, svc)
  BY <1>3
     DEF Moves, Onward, Good, RouteOf, ClosingOf, SettlingOf, PhaseOf, ToldOf,
         FixtureOf, Kept, Fields, Ended, Preparatory, PortalOnly, JourneyOnly, Services
<1>. QED BY <1>1, <1>4

\* The executor takes an admitted journey.
LEMMA JourneyAdmitted ==
    ASSUME NEW svc, NEW r, Good(r, svc), svc = "journeys", r.at = "begin"
    PROVE  Moves(r, [r EXCEPT !.admitted = TRUE, !.at = "mkdir"], svc)
<1>1. PICK t : t = [r EXCEPT !.admitted = TRUE, !.at = "mkdir"]
  OBVIOUS
<1>2. r \in SessionRecord
  BY DEF Good
<1>3. /\ t \in SessionRecord
      /\ t.at = "mkdir"
      /\ Kept(r, t, {"at"})
  <2>1. "mkdir" \in Places
    BY DEF Places
  <2>2. t \in SessionRecord
    BY <1>1, <1>2, <2>1 DEF SessionRecord
  <2>. QED BY <1>1, <1>2, <2>2 DEF SessionRecord, Kept, Fields
<1>4. Moves(r, t, svc)
  BY <1>3
     DEF Moves, Onward, Good, RouteOf, ClosingOf, SettlingOf, PhaseOf, ToldOf,
         FixtureOf, Kept, Fields, Ended, Preparatory, PortalOnly, JourneyOnly, Services
<1>. QED BY <1>1, <1>4

\* The caller of a run disconnects, or its time is over, while the runtime launches.
LEMMA CancelLaunched ==
    ASSUME NEW svc, NEW r, Good(r, svc), r.at = "running", r.runtime = "launch"
    PROVE  Moves(r, Cancel(r), svc)
<1>1. PICK u, v, t :
          /\ u = [r EXCEPT !.aborted = TRUE]
          /\ v = CloseRuntime(u)
          /\ t = CloseSession(v)
  OBVIOUS
<1>2. r \in SessionRecord
  BY DEF Good
<1>3. /\ u \in SessionRecord
      /\ u.aborted = TRUE
      /\ Kept(r, u, {"aborted"})
  BY <1>1, <1>2 DEF SessionRecord, Kept, Fields
<1>4. /\ v \in SessionRecord
      /\ v.shutdown = IF u.shutdown = "no" THEN "waiting" ELSE u.shutdown
      /\ Kept(u, v, {"shutdown"})
  BY <1>1, <1>3, CloseRuntimeIs
<1>5. /\ t \in SessionRecord
      /\ t.closed = TRUE
      /\ t.closer = IF v.closer = "no" THEN "waiting" ELSE v.closer
      /\ t.shutdown = IF v.closer = "no" /\ v.shutdown = "no" THEN "waiting" ELSE v.shutdown
      /\ Kept(v, t, {"closed", "closer", "shutdown"})
  BY <1>1, <1>4, CloseSessionIs
<1>6. /\ t.aborted = TRUE
      /\ t.shutdown = IF r.shutdown = "no" THEN "waiting" ELSE r.shutdown
      /\ t.closed = TRUE
      /\ t.closer = IF r.closer = "no" THEN "waiting" ELSE r.closer
      /\ Kept(r, t, {"aborted", "shutdown", "closed", "closer"})
  BY <1>3, <1>4, <1>5 DEF Kept, Fields
<1>7. Moves(r, t, svc)
  BY <1>5, <1>6
     DEF Moves, Onward, Good, RouteOf, ClosingOf, SettlingOf, PhaseOf, ToldOf,
         FixtureOf, Kept, Fields, Ended, Preparatory, PortalOnly, JourneyOnly, Services
<1>. QED BY <1>1, <1>3, <1>7 DEF Cancel, Abort, Kept, Fields

\* The caller of a run disconnects, or its time is over, with no launch open.
LEMMA CancelOther ==
    ASSUME NEW svc, NEW r, Good(r, svc), r.at = "running", r.runtime # "launch"
    PROVE  Moves(r, Cancel(r), svc)
<1>1. PICK u, t :
          /\ u = [r EXCEPT !.aborted = TRUE]
          /\ t = CloseSession(u)
  OBVIOUS
<1>2. r \in SessionRecord
  BY DEF Good
<1>3. /\ u \in SessionRecord
      /\ u.aborted = TRUE
      /\ Kept(r, u, {"aborted"})
  BY <1>1, <1>2 DEF SessionRecord, Kept, Fields
<1>4. /\ t \in SessionRecord
      /\ t.closed = TRUE
      /\ t.closer = IF u.closer = "no" THEN "waiting" ELSE u.closer
      /\ t.shutdown = IF u.closer = "no" /\ u.shutdown = "no" THEN "waiting" ELSE u.shutdown
      /\ Kept(u, t, {"closed", "closer", "shutdown"})
  BY <1>1, <1>3, CloseSessionIs
<1>5. /\ t.aborted = TRUE
      /\ t.closed = TRUE
      /\ t.closer = IF r.closer = "no" THEN "waiting" ELSE r.closer
      /\ t.shutdown = IF r.closer = "no" /\ r.shutdown = "no" THEN "waiting" ELSE r.shutdown
      /\ Kept(r, t, {"aborted", "closed", "closer", "shutdown"})
  BY <1>3, <1>4 DEF Kept, Fields
<1>6. Moves(r, t, svc)
  BY <1>4, <1>5
     DEF Moves, Onward, Good, RouteOf, ClosingOf, SettlingOf, PhaseOf, ToldOf,
         FixtureOf, Kept, Fields, Ended, Preparatory, PortalOnly, JourneyOnly, Services
<1>. QED BY <1>1, <1>3, <1>6 DEF Cancel, Abort, Kept, Fields

\* The coordinator settles a journey that completed.
LEMMA SettlesCompleted ==
    ASSUME NEW svc, NEW r, Good(r, svc), svc = "journeys", r.at = "stopping",
           r.verdict = "completed", ~r.aborted, r.shutdown = "done"
    PROVE  Moves(r, SettleJourney(r), svc)
<1>1. PICK u, t :
          /\ u = Settle(r, "completed")
          /\ t = [u EXCEPT !.at = "settle", !.verdict = "completed"]
  OBVIOUS
<1>2. r \in SessionRecord
  BY DEF Good
<1>3. /\ u \in SessionRecord
      /\ u.settlement = IF r.settlement = "none" THEN "asked" ELSE r.settlement
      /\ u.outcome = IF r.settlement = "none" THEN "completed" ELSE r.outcome
      /\ Kept(r, u, {"settlement", "outcome"})
  BY <1>1, <1>2, SettleIs
<1>4. /\ t \in SessionRecord
      /\ t.at = "settle"
      /\ t.verdict = "completed"
      /\ Kept(u, t, {"at", "verdict"})
  <2>1. "settle" \in Places /\ "completed" \in Answers
    BY DEF Places, Answers
  <2>2. t \in SessionRecord
    BY <1>1, <1>3, <2>1 DEF SessionRecord
  <2>. QED BY <1>1, <1>3, <2>2 DEF SessionRecord, Kept, Fields
<1>5. /\ t.settlement = IF r.settlement = "none" THEN "asked" ELSE r.settlement
      /\ t.outcome = IF r.settlement = "none" THEN "completed" ELSE r.outcome
      /\ t.at = "settle"
      /\ t.verdict = "completed"
      /\ Kept(r, t, {"settlement", "outcome", "at", "verdict"})
  BY <1>3, <1>4 DEF Kept, Fields
<1>6. Moves(r, t, svc)
  BY <1>4, <1>5
     DEF Moves, Onward, Good, RouteOf, ClosingOf, SettlingOf, PhaseOf, ToldOf,
         FixtureOf, Kept, Fields, Ended, Preparatory, PortalOnly, JourneyOnly, Services
<1>. QED BY <1>1, <1>6 DEF SettleJourney

\* The coordinator settles a journey that was stopped or aborted.
LEMMA SettlesFailed ==
    ASSUME NEW svc, NEW r, Good(r, svc), svc = "journeys", r.at = "stopping",
           ~(r.verdict = "completed" /\ ~r.aborted)
    PROVE  Moves(r, SettleJourney(r), svc)
<1>1. PICK u, t :
          /\ u = Settle(r, "failed")
          /\ t = [u EXCEPT !.at = "settle", !.verdict = "journey_failed"]
  OBVIOUS
<1>2. r \in SessionRecord
  BY DEF Good
<1>3. /\ u \in SessionRecord
      /\ u.settlement = IF r.settlement = "none" THEN "asked" ELSE r.settlement
      /\ u.outcome = IF r.settlement = "none" THEN "failed" ELSE r.outcome
      /\ Kept(r, u, {"settlement", "outcome"})
  BY <1>1, <1>2, SettleIs
<1>4. /\ t \in SessionRecord
      /\ t.at = "settle"
      /\ t.verdict = "journey_failed"
      /\ Kept(u, t, {"at", "verdict"})
  <2>1. "settle" \in Places /\ "journey_failed" \in Answers
    BY DEF Places, Answers
  <2>2. t \in SessionRecord
    BY <1>1, <1>3, <2>1 DEF SessionRecord
  <2>. QED BY <1>1, <1>3, <2>2 DEF SessionRecord, Kept, Fields
<1>5. /\ t.settlement = IF r.settlement = "none" THEN "asked" ELSE r.settlement
      /\ t.outcome = IF r.settlement = "none" THEN "failed" ELSE r.outcome
      /\ t.at = "settle"
      /\ t.verdict = "journey_failed"
      /\ Kept(r, t, {"settlement", "outcome", "at", "verdict"})
  BY <1>3, <1>4 DEF Kept, Fields
<1>6. Moves(r, t, svc)
  BY <1>4, <1>5
     DEF Moves, Onward, Good, RouteOf, ClosingOf, SettlingOf, PhaseOf, ToldOf,
         FixtureOf, Kept, Fields, Ended, Preparatory, PortalOnly, JourneyOnly, Services
<1>. QED BY <1>1, <1>6 DEF SettleJourney

\* The coordinator settles a journey whose supervisor did not close cleanly.
LEMMA SettlesThrown ==
    ASSUME NEW svc, NEW r, Good(r, svc), svc = "journeys", r.at = "stopping"
    PROVE  Moves(r, SettleJourney([r EXCEPT !.verdict = "stopped"]), svc)
<1>1. PICK u, v, t :
          /\ u = [r EXCEPT !.verdict = "stopped"]
          /\ v = Settle(u, "failed")
          /\ t = [v EXCEPT !.at = "settle", !.verdict = "journey_failed"]
  OBVIOUS
<1>2. r \in SessionRecord
  BY DEF Good
<1>3. /\ u \in SessionRecord
      /\ u.verdict = "stopped"
      /\ Kept(r, u, {"verdict"})
  <2>1. "stopped" \in Answers
    BY DEF Answers
  <2>2. u \in SessionRecord
    BY <1>1, <1>2, <2>1 DEF SessionRecord
  <2>. QED BY <1>1, <1>2, <2>2 DEF SessionRecord, Kept, Fields
<1>4. /\ v \in SessionRecord
      /\ v.settlement = IF u.settlement = "none" THEN "asked" ELSE u.settlement
      /\ v.outcome = IF u.settlement = "none" THEN "failed" ELSE u.outcome
      /\ Kept(u, v, {"settlement", "outcome"})
  BY <1>1, <1>3, SettleIs
<1>5. /\ t \in SessionRecord
      /\ t.at = "settle"
      /\ t.verdict = "journey_failed"
      /\ Kept(v, t, {"at", "verdict"})
  <2>1. "settle" \in Places /\ "journey_failed" \in Answers
    BY DEF Places, Answers
  <2>2. t \in SessionRecord
    BY <1>1, <1>4, <2>1 DEF SessionRecord
  <2>. QED BY <1>1, <1>4, <2>2 DEF SessionRecord, Kept, Fields
<1>6. /\ t.verdict = "journey_failed"
      /\ t.settlement = IF r.settlement = "none" THEN "asked" ELSE r.settlement
      /\ t.outcome = IF r.settlement = "none" THEN "failed" ELSE r.outcome
      /\ t.at = "settle"
      /\ Kept(r, t, {"verdict", "settlement", "outcome", "at"})
  BY <1>3, <1>4, <1>5 DEF Kept, Fields
<1>7. Moves(r, t, svc)
  BY <1>5, <1>6
     DEF Moves, Onward, Good, RouteOf, ClosingOf, SettlingOf, PhaseOf, ToldOf,
         FixtureOf, Kept, Fields, Ended, Preparatory, PortalOnly, JourneyOnly, Services
<1>. QED BY <1>1, <1>3, <1>7 DEF SettleJourney

\* The coordinator settles an admitted journey that the executor refuses.
LEMMA SettlesRefused ==
    ASSUME NEW svc, NEW r, Good(r, svc), svc = "journeys", r.at = "begin"
    PROVE  Moves(r, SettleJourney([r EXCEPT !.admitted = TRUE]), svc)
<1>1. PICK u, v, t :
          /\ u = [r EXCEPT !.admitted = TRUE]
          /\ v = Settle(u, "failed")
          /\ t = [v EXCEPT !.at = "settle", !.verdict = "journey_failed"]
  OBVIOUS
<1>2. r \in SessionRecord
  BY DEF Good
<1>3. /\ u \in SessionRecord
      /\ Kept(r, u, {})
  BY <1>1, <1>2 DEF SessionRecord, Kept, Fields
<1>4. /\ v \in SessionRecord
      /\ v.settlement = IF u.settlement = "none" THEN "asked" ELSE u.settlement
      /\ v.outcome = IF u.settlement = "none" THEN "failed" ELSE u.outcome
      /\ Kept(u, v, {"settlement", "outcome"})
  BY <1>1, <1>3, SettleIs
<1>5. /\ t \in SessionRecord
      /\ t.at = "settle"
      /\ t.verdict = "journey_failed"
      /\ Kept(v, t, {"at", "verdict"})
  <2>1. "settle" \in Places /\ "journey_failed" \in Answers
    BY DEF Places, Answers
  <2>2. t \in SessionRecord
    BY <1>1, <1>4, <2>1 DEF SessionRecord
  <2>. QED BY <1>1, <1>4, <2>2 DEF SessionRecord, Kept, Fields
<1>6. /\ t.settlement = IF r.settlement = "none" THEN "asked" ELSE r.settlement
      /\ t.outcome = IF r.settlement = "none" THEN "failed" ELSE r.outcome
      /\ t.at = "settle"
      /\ t.verdict = "journey_failed"
      /\ Kept(r, t, {"settlement", "outcome", "at", "verdict"})
  BY <1>3, <1>4, <1>5 DEF Kept, Fields
<1>7. Moves(r, t, svc)
  BY <1>5, <1>6
     DEF Moves, Onward, Good, RouteOf, ClosingOf, SettlingOf, PhaseOf, ToldOf,
         FixtureOf, Kept, Fields, Ended, Preparatory, PortalOnly, JourneyOnly, Services
<1>. QED BY <1>1, <1>3, <1>7 DEF SettleJourney, Good, PhaseOf, Preparatory, Kept, Fields

\* The executor's finally closes the supervisor of a journey.
LEMMA StopCloses ==
    ASSUME NEW svc, NEW r, Good(r, svc), svc = "journeys",
           r.at \in {"mkdir", "launch", "journey"}, r.supervisor = "up",
           NEW verdict \in {"completed", "stopped"},
           verdict = "completed" => r.at = "journey"
    PROVE  Moves(r, Stop(r, verdict), svc)
<1>1. PICK u, t :
          /\ u = [r EXCEPT !.at = "stopping", !.verdict = verdict]
          /\ t = CloseRuntime(u)
  OBVIOUS
<1>2. r \in SessionRecord
  BY DEF Good
<1>3. /\ u \in SessionRecord
      /\ u.at = "stopping"
      /\ u.verdict = verdict
      /\ Kept(r, u, {"at", "verdict"})
  <2>1. "stopping" \in Places /\ verdict \in Answers
    BY DEF Places, Answers
  <2>2. u \in SessionRecord
    BY <1>1, <1>2, <2>1 DEF SessionRecord
  <2>. QED BY <1>1, <1>2, <2>2 DEF SessionRecord, Kept, Fields
<1>4. /\ t \in SessionRecord
      /\ t.shutdown = IF u.shutdown = "no" THEN "waiting" ELSE u.shutdown
      /\ Kept(u, t, {"shutdown"})
  BY <1>1, <1>3, CloseRuntimeIs
<1>5. /\ t.at = "stopping"
      /\ t.verdict = verdict
      /\ t.shutdown = IF r.shutdown = "no" THEN "waiting" ELSE r.shutdown
      /\ Kept(r, t, {"at", "verdict", "shutdown"})
  BY <1>3, <1>4 DEF Kept, Fields
<1>6. Moves(r, t, svc)
  BY <1>4, <1>5
     DEF Moves, Onward, Good, RouteOf, ClosingOf, SettlingOf, PhaseOf, ToldOf,
         FixtureOf, Kept, Fields, Ended, Preparatory, PortalOnly, JourneyOnly, Services
<1>. QED BY <1>1, <1>3, <1>6 DEF Stop, Kept, Fields

\* The executor's finally has no supervisor to close.
LEMMA StopOnly ==
    ASSUME NEW svc, NEW r, Good(r, svc), svc = "journeys",
           r.at \in {"mkdir", "launch", "journey"}, r.supervisor # "up",
           NEW verdict \in {"completed", "stopped"},
           verdict = "completed" => r.at = "journey"
    PROVE  Moves(r, Stop(r, verdict), svc)
<1>1. PICK t : t = [r EXCEPT !.at = "stopping", !.verdict = verdict]
  OBVIOUS
<1>2. r \in SessionRecord
  BY DEF Good
<1>3. /\ t \in SessionRecord
      /\ t.at = "stopping"
      /\ t.verdict = verdict
      /\ Kept(r, t, {"at", "verdict"})
  <2>1. "stopping" \in Places /\ verdict \in Answers
    BY DEF Places, Answers
  <2>2. t \in SessionRecord
    BY <1>1, <1>2, <2>1 DEF SessionRecord
  <2>. QED BY <1>1, <1>2, <2>2 DEF SessionRecord, Kept, Fields
<1>4. Moves(r, t, svc)
  BY <1>3
     DEF Moves, Onward, Good, RouteOf, ClosingOf, SettlingOf, PhaseOf, ToldOf,
         FixtureOf, Kept, Fields, Ended, Preparatory, PortalOnly, JourneyOnly, Services
<1>. QED BY <1>1, <1>3, <1>4 DEF Stop, Kept, Fields

\* The supervisor of a journey does not start.
LEMMA StartStops ==
    ASSUME NEW svc, NEW r, Good(r, svc), svc = "journeys", r.at = "start"
    PROVE  Moves(r, Stop([r EXCEPT !.supervisor = "none"], "stopped"), svc)
<1>1. PICK u, t :
          /\ u = [r EXCEPT !.supervisor = "none"]
          /\ t = [u EXCEPT !.at = "stopping", !.verdict = "stopped"]
  OBVIOUS
<1>2. r \in SessionRecord
  BY DEF Good
<1>3. /\ u \in SessionRecord
      /\ u.supervisor = "none"
      /\ Kept(r, u, {"supervisor"})
  <2>1. "none" \in Supervisors
    BY DEF Supervisors
  <2>2. u \in SessionRecord
    BY <1>1, <1>2, <2>1 DEF SessionRecord
  <2>. QED BY <1>1, <1>2, <2>2 DEF SessionRecord, Kept, Fields
<1>4. /\ t \in SessionRecord
      /\ t.at = "stopping"
      /\ t.verdict = "stopped"
      /\ Kept(u, t, {"at", "verdict"})
  <2>1. "stopping" \in Places /\ "stopped" \in Answers
    BY DEF Places, Answers
  <2>2. t \in SessionRecord
    BY <1>1, <1>3, <2>1 DEF SessionRecord
  <2>. QED BY <1>1, <1>3, <2>2 DEF SessionRecord, Kept, Fields
<1>5. /\ t.supervisor = "none"
      /\ t.at = "stopping"
      /\ t.verdict = "stopped"
      /\ Kept(r, t, {"supervisor", "at", "verdict"})
  BY <1>3, <1>4 DEF Kept, Fields
<1>6. Moves(r, t, svc)
  BY <1>4, <1>5
     DEF Moves, Onward, Good, RouteOf, ClosingOf, SettlingOf, PhaseOf, ToldOf,
         FixtureOf, Kept, Fields, Ended, Preparatory, PortalOnly, JourneyOnly, Services
<1>. QED BY <1>1, <1>3, <1>4, <1>6 DEF Stop, Kept, Fields

\* The supervisor of a journey that was aborted starts, and is closed.
LEMMA StartedStops ==
    ASSUME NEW svc, NEW r, Good(r, svc), svc = "journeys", r.at = "start"
    PROVE  Moves(r, Stop([r EXCEPT !.supervisor = "up"], "stopped"), svc)
<1>1. PICK u, v, t :
          /\ u = [r EXCEPT !.supervisor = "up"]
          /\ v = [u EXCEPT !.at = "stopping", !.verdict = "stopped"]
          /\ t = CloseRuntime(v)
  OBVIOUS
<1>2. r \in SessionRecord
  BY DEF Good
<1>3. /\ u \in SessionRecord
      /\ u.supervisor = "up"
      /\ Kept(r, u, {"supervisor"})
  <2>1. "up" \in Supervisors
    BY DEF Supervisors
  <2>2. u \in SessionRecord
    BY <1>1, <1>2, <2>1 DEF SessionRecord
  <2>. QED BY <1>1, <1>2, <2>2 DEF SessionRecord, Kept, Fields
<1>4. /\ v \in SessionRecord
      /\ v.at = "stopping"
      /\ v.verdict = "stopped"
      /\ Kept(u, v, {"at", "verdict"})
  <2>1. "stopping" \in Places /\ "stopped" \in Answers
    BY DEF Places, Answers
  <2>2. v \in SessionRecord
    BY <1>1, <1>3, <2>1 DEF SessionRecord
  <2>. QED BY <1>1, <1>3, <2>2 DEF SessionRecord, Kept, Fields
<1>5. /\ t \in SessionRecord
      /\ t.shutdown = IF v.shutdown = "no" THEN "waiting" ELSE v.shutdown
      /\ Kept(v, t, {"shutdown"})
  BY <1>1, <1>4, CloseRuntimeIs
<1>6. /\ t.supervisor = "up"
      /\ t.at = "stopping"
      /\ t.verdict = "stopped"
      /\ t.shutdown = IF r.shutdown = "no" THEN "waiting" ELSE r.shutdown
      /\ Kept(r, t, {"supervisor", "at", "verdict", "shutdown"})
  BY <1>3, <1>4, <1>5 DEF Kept, Fields
<1>7. Moves(r, t, svc)
  BY <1>5, <1>6
     DEF Moves, Onward, Good, RouteOf, ClosingOf, SettlingOf, PhaseOf, ToldOf,
         FixtureOf, Kept, Fields, Ended, Preparatory, PortalOnly, JourneyOnly, Services
<1>. QED BY <1>1, <1>3, <1>4, <1>7 DEF Stop, Kept, Fields

\* The executor starts the supervisor of a journey.
LEMMA MkdirGood ==
    ASSUME NEW svc, NEW r, Good(r, svc), svc = "journeys", r.at = "mkdir"
    PROVE  Moves(r, [r EXCEPT !.at = "start", !.supervisor = "starting"], svc)
<1>1. PICK t : t = [r EXCEPT !.at = "start", !.supervisor = "starting"]
  OBVIOUS
<1>2. r \in SessionRecord
  BY DEF Good
<1>3. /\ t \in SessionRecord
      /\ t.at = "start"
      /\ t.supervisor = "starting"
      /\ Kept(r, t, {"at", "supervisor"})
  <2>1. "start" \in Places /\ "starting" \in Supervisors
    BY DEF Places, Supervisors
  <2>2. t \in SessionRecord
    BY <1>1, <1>2, <2>1 DEF SessionRecord
  <2>. QED BY <1>1, <1>2, <2>2 DEF SessionRecord, Kept, Fields
<1>4. Moves(r, t, svc)
  BY <1>3
     DEF Moves, Onward, Good, RouteOf, ClosingOf, SettlingOf, PhaseOf, ToldOf,
         FixtureOf, Kept, Fields, Ended, Preparatory, PortalOnly, JourneyOnly, Services
<1>. QED BY <1>1, <1>4

\* The supervisor of a journey has started.
LEMMA StartGood ==
    ASSUME NEW svc, NEW r, Good(r, svc), svc = "journeys", r.at = "start"
    PROVE  Moves(r, [[r EXCEPT !.supervisor = "up"] EXCEPT !.at = "launch"], svc)
<1>1. PICK u, t :
          /\ u = [r EXCEPT !.supervisor = "up"]
          /\ t = [u EXCEPT !.at = "launch"]
  OBVIOUS
<1>2. r \in SessionRecord
  BY DEF Good
<1>3. /\ u \in SessionRecord
      /\ u.supervisor = "up"
      /\ Kept(r, u, {"supervisor"})
  <2>1. "up" \in Supervisors
    BY DEF Supervisors
  <2>2. u \in SessionRecord
    BY <1>1, <1>2, <2>1 DEF SessionRecord
  <2>. QED BY <1>1, <1>2, <2>2 DEF SessionRecord, Kept, Fields
<1>4. /\ t \in SessionRecord
      /\ t.at = "launch"
      /\ Kept(u, t, {"at"})
  <2>1. "launch" \in Places
    BY DEF Places
  <2>2. t \in SessionRecord
    BY <1>1, <1>3, <2>1 DEF SessionRecord
  <2>. QED BY <1>1, <1>3, <2>2 DEF SessionRecord, Kept, Fields
<1>5. /\ t.supervisor = "up"
      /\ t.at = "launch"
      /\ Kept(r, t, {"supervisor", "at"})
  BY <1>3, <1>4 DEF Kept, Fields
<1>6. Moves(r, t, svc)
  BY <1>4, <1>5
     DEF Moves, Onward, Good, RouteOf, ClosingOf, SettlingOf, PhaseOf, ToldOf,
         FixtureOf, Kept, Fields, Ended, Preparatory, PortalOnly, JourneyOnly, Services
<1>. QED BY <1>1, <1>6

\* The journey is launched.
LEMMA LaunchGood ==
    ASSUME NEW svc, NEW r, Good(r, svc), svc = "journeys", r.at = "launch"
    PROVE  Moves(r, [r EXCEPT !.at = "journey"], svc)
<1>1. PICK t : t = [r EXCEPT !.at = "journey"]
  OBVIOUS
<1>2. r \in SessionRecord
  BY DEF Good
<1>3. /\ t \in SessionRecord
      /\ t.at = "journey"
      /\ Kept(r, t, {"at"})
  <2>1. "journey" \in Places
    BY DEF Places
  <2>2. t \in SessionRecord
    BY <1>1, <1>2, <2>1 DEF SessionRecord
  <2>. QED BY <1>1, <1>2, <2>2 DEF SessionRecord, Kept, Fields
<1>4. Moves(r, t, svc)
  BY <1>3
     DEF Moves, Onward, Good, RouteOf, ClosingOf, SettlingOf, PhaseOf, ToldOf,
         FixtureOf, Kept, Fields, Ended, Preparatory, PortalOnly, JourneyOnly, Services
<1>. QED BY <1>1, <1>4

\* A launch returns or throws.
LEMMA LaunchEndsGood ==
    ASSUME NEW svc, NEW r, Good(r, svc), r.runtime = "launch",
           NEW end \in {"completed", "stopped", "threw"}
    PROVE  Moves(r, CloseRuntime([r EXCEPT !.runtime = "closing", !.result = end]), svc)
<1>1. PICK u, t :
          /\ u = [r EXCEPT !.runtime = "closing", !.result = end]
          /\ t = CloseRuntime(u)
  OBVIOUS
<1>2. r \in SessionRecord
  BY DEF Good
<1>3. /\ u \in SessionRecord
      /\ u.runtime = "closing"
      /\ u.result = end
      /\ Kept(r, u, {"runtime", "result"})
  <2>1. "closing" \in Runs /\ end \in Ends
    BY DEF Runs, Ends
  <2>2. u \in SessionRecord
    BY <1>1, <1>2, <2>1 DEF SessionRecord
  <2>. QED BY <1>1, <1>2, <2>2 DEF SessionRecord, Kept, Fields
<1>4. /\ t \in SessionRecord
      /\ t.shutdown = IF u.shutdown = "no" THEN "waiting" ELSE u.shutdown
      /\ Kept(u, t, {"shutdown"})
  BY <1>1, <1>3, CloseRuntimeIs
<1>5. /\ t.runtime = "closing"
      /\ t.result = end
      /\ t.shutdown = IF r.shutdown = "no" THEN "waiting" ELSE r.shutdown
      /\ Kept(r, t, {"runtime", "result", "shutdown"})
  BY <1>3, <1>4 DEF Kept, Fields
<1>6. Moves(r, t, svc)
  BY <1>4, <1>5
     DEF Moves, Onward, Good, RouteOf, ClosingOf, SettlingOf, PhaseOf, ToldOf,
         FixtureOf, Kept, Fields, Ended, Preparatory, PortalOnly, JourneyOnly, Services
<1>. QED BY <1>1, <1>6

\* The runtime returns once its close has ended.
LEMMA RuntimeGood ==
    ASSUME NEW svc, NEW r, Good(r, svc), r.runtime = "closing",
           NEW end \in {"completed", "stopped", "threw"}
    PROVE  Moves(r, [r EXCEPT !.runtime = end, !.result = "none"], svc)
<1>1. PICK t : t = [r EXCEPT !.runtime = end, !.result = "none"]
  OBVIOUS
<1>2. r \in SessionRecord
  BY DEF Good
<1>3. /\ t \in SessionRecord
      /\ t.runtime = end
      /\ t.result = "none"
      /\ Kept(r, t, {"runtime", "result"})
  <2>1. end \in Runs /\ "none" \in Ends
    BY DEF Runs, Ends
  <2>2. t \in SessionRecord
    BY <1>1, <1>2, <2>1 DEF SessionRecord
  <2>. QED BY <1>1, <1>2, <2>2 DEF SessionRecord, Kept, Fields
<1>4. Moves(r, t, svc)
  BY <1>3
     DEF Moves, Onward, Good, RouteOf, ClosingOf, SettlingOf, PhaseOf, ToldOf,
         FixtureOf, Kept, Fields, Ended, Preparatory, PortalOnly, JourneyOnly, Services
<1>. QED BY <1>1, <1>4

\* The wrapper asks for the settlement of a run that threw.
LEMMA RunFailing ==
    ASSUME NEW svc, NEW r, Good(r, svc), r.run = "launch", r.runtime = "threw"
    PROVE  Moves(r, [Settle(r, "failed") EXCEPT !.run = "failing"], svc)
<1>1. PICK u, t :
          /\ u = Settle(r, "failed")
          /\ t = [u EXCEPT !.run = "failing"]
  OBVIOUS
<1>2. r \in SessionRecord
  BY DEF Good
<1>3. /\ u \in SessionRecord
      /\ u.settlement = IF r.settlement = "none" THEN "asked" ELSE r.settlement
      /\ u.outcome = IF r.settlement = "none" THEN "failed" ELSE r.outcome
      /\ Kept(r, u, {"settlement", "outcome"})
  BY <1>1, <1>2, SettleIs
<1>4. /\ t \in SessionRecord
      /\ t.run = "failing"
      /\ Kept(u, t, {"run"})
  <2>1. "failing" \in Runs
    BY DEF Runs
  <2>2. t \in SessionRecord
    BY <1>1, <1>3, <2>1 DEF SessionRecord
  <2>. QED BY <1>1, <1>3, <2>2 DEF SessionRecord, Kept, Fields
<1>5. /\ t.settlement = IF r.settlement = "none" THEN "asked" ELSE r.settlement
      /\ t.outcome = IF r.settlement = "none" THEN "failed" ELSE r.outcome
      /\ t.run = "failing"
      /\ Kept(r, t, {"settlement", "outcome", "run"})
  BY <1>3, <1>4 DEF Kept, Fields
<1>6. Moves(r, t, svc)
  BY <1>4, <1>5
     DEF Moves, Onward, Good, RouteOf, ClosingOf, SettlingOf, PhaseOf, ToldOf,
         FixtureOf, Kept, Fields, Ended, Preparatory, PortalOnly, JourneyOnly, Services
<1>. QED BY <1>1, <1>6

\* The wrapper asks for the settlement of a run that returned.
LEMMA RunSettling ==
    ASSUME NEW svc, NEW r, Good(r, svc), r.run = "launch",
           r.runtime \in {"completed", "stopped"}, NEW end \in {"completed", "failed"},
           end = "completed" <=> r.runtime = "completed" /\ ~r.aborted
    PROVE  Moves(r, [Settle(r, end) EXCEPT !.run = "settling"], svc)
<1>1. PICK u, t :
          /\ u = Settle(r, end)
          /\ t = [u EXCEPT !.run = "settling"]
  OBVIOUS
<1>2. r \in SessionRecord
  BY DEF Good
<1>3. /\ u \in SessionRecord
      /\ u.settlement = IF r.settlement = "none" THEN "asked" ELSE r.settlement
      /\ u.outcome = IF r.settlement = "none" THEN end ELSE r.outcome
      /\ Kept(r, u, {"settlement", "outcome"})
  BY <1>1, <1>2, SettleIs
<1>4. /\ t \in SessionRecord
      /\ t.run = "settling"
      /\ Kept(u, t, {"run"})
  <2>1. "settling" \in Runs
    BY DEF Runs
  <2>2. t \in SessionRecord
    BY <1>1, <1>3, <2>1 DEF SessionRecord
  <2>. QED BY <1>1, <1>3, <2>2 DEF SessionRecord, Kept, Fields
<1>5. /\ t.settlement = IF r.settlement = "none" THEN "asked" ELSE r.settlement
      /\ t.outcome = IF r.settlement = "none" THEN end ELSE r.outcome
      /\ t.run = "settling"
      /\ Kept(r, t, {"settlement", "outcome", "run"})
  BY <1>3, <1>4 DEF Kept, Fields
<1>6. Moves(r, t, svc)
  BY <1>4, <1>5
     DEF Moves, Onward, Good, RouteOf, ClosingOf, SettlingOf, PhaseOf, ToldOf,
         FixtureOf, Kept, Fields, Ended, Preparatory, PortalOnly, JourneyOnly, Services
<1>. QED BY <1>1, <1>6

\* The wrapper's run ends once the settlement is answered.
LEMMA RunGood ==
    ASSUME NEW svc, NEW r, Good(r, svc), r.run \in {"settling", "failing"},
           NEW end \in {"returned", "threw"}, end = "returned" => r.run = "settling"
    PROVE  Moves(r, [r EXCEPT !.run = end], svc)
<1>1. PICK t : t = [r EXCEPT !.run = end]
  OBVIOUS
<1>2. r \in SessionRecord
  BY DEF Good
<1>3. /\ t \in SessionRecord
      /\ t.run = end
      /\ Kept(r, t, {"run"})
  <2>1. end \in Runs
    BY DEF Runs
  <2>2. t \in SessionRecord
    BY <1>1, <1>2, <2>1 DEF SessionRecord
  <2>. QED BY <1>1, <1>2, <2>2 DEF SessionRecord, Kept, Fields
<1>4. Moves(r, t, svc)
  BY <1>3
     DEF Moves, Onward, Good, RouteOf, ClosingOf, SettlingOf, PhaseOf, ToldOf,
         FixtureOf, Kept, Fields, Ended, Preparatory, PortalOnly, JourneyOnly, Services
<1>. QED BY <1>1, <1>4

\* The wrapper's close asks for the settlement.
LEMMA CloserSettlesGood ==
    ASSUME NEW svc, NEW r, Good(r, svc), r.closer = "waiting", Ended(r.shutdown)
    PROVE  Moves(r, [Settle(r, "failed") EXCEPT !.closer = "settling"], svc)
<1>1. PICK u, t :
          /\ u = Settle(r, "failed")
          /\ t = [u EXCEPT !.closer = "settling"]
  OBVIOUS
<1>2. r \in SessionRecord
  BY DEF Good
<1>3. /\ u \in SessionRecord
      /\ u.settlement = IF r.settlement = "none" THEN "asked" ELSE r.settlement
      /\ u.outcome = IF r.settlement = "none" THEN "failed" ELSE r.outcome
      /\ Kept(r, u, {"settlement", "outcome"})
  BY <1>1, <1>2, SettleIs
<1>4. /\ t \in SessionRecord
      /\ t.closer = "settling"
      /\ Kept(u, t, {"closer"})
  <2>1. "settling" \in Closes
    BY DEF Closes
  <2>2. t \in SessionRecord
    BY <1>1, <1>3, <2>1 DEF SessionRecord
  <2>. QED BY <1>1, <1>3, <2>2 DEF SessionRecord, Kept, Fields
<1>5. /\ t.settlement = IF r.settlement = "none" THEN "asked" ELSE r.settlement
      /\ t.outcome = IF r.settlement = "none" THEN "failed" ELSE r.outcome
      /\ t.closer = "settling"
      /\ Kept(r, t, {"settlement", "outcome", "closer"})
  BY <1>3, <1>4 DEF Kept, Fields
<1>6. Moves(r, t, svc)
  BY <1>4, <1>5
     DEF Moves, Onward, Good, RouteOf, ClosingOf, SettlingOf, PhaseOf, ToldOf,
         FixtureOf, Kept, Fields, Ended, Preparatory, PortalOnly, JourneyOnly, Services
<1>. QED BY <1>1, <1>6

\* The wrapper's close ends.
LEMMA CloserEndsGood ==
    ASSUME NEW svc, NEW r, Good(r, svc), r.closer = "settling",
           NEW end \in {"done", "failed"},
           end = "done" =>
               r.shutdown # "failed" /\ r.settlement \in {"settled", "pending"}
    PROVE  Moves(r, [r EXCEPT !.closer = end], svc)
<1>1. PICK t : t = [r EXCEPT !.closer = end]
  OBVIOUS
<1>2. r \in SessionRecord
  BY DEF Good
<1>3. /\ t \in SessionRecord
      /\ t.closer = end
      /\ Kept(r, t, {"closer"})
  <2>1. end \in Closes
    BY DEF Closes
  <2>2. t \in SessionRecord
    BY <1>1, <1>2, <2>1 DEF SessionRecord
  <2>. QED BY <1>1, <1>2, <2>2 DEF SessionRecord, Kept, Fields
<1>4. Moves(r, t, svc)
  BY <1>3
     DEF Moves, Onward, Good, RouteOf, ClosingOf, SettlingOf, PhaseOf, ToldOf,
         FixtureOf, Kept, Fields, Ended, Preparatory, PortalOnly, JourneyOnly, Services
<1>. QED BY <1>1, <1>4

\* The supervisor's close ends.
LEMMA SupervisorGood ==
    ASSUME NEW svc, NEW r, Good(r, svc), r.shutdown = "waiting", r.supervisor = "up",
           NEW end \in {"done", "failed"}
    PROVE  Moves(r, [r EXCEPT !.shutdown = end, !.supervisor = "down"], svc)
<1>1. PICK t : t = [r EXCEPT !.shutdown = end, !.supervisor = "down"]
  OBVIOUS
<1>2. r \in SessionRecord
  BY DEF Good
<1>3. /\ t \in SessionRecord
      /\ t.shutdown = end
      /\ t.supervisor = "down"
      /\ Kept(r, t, {"shutdown", "supervisor"})
  <2>1. end \in Closes /\ "down" \in Supervisors
    BY DEF Closes, Supervisors
  <2>2. t \in SessionRecord
    BY <1>1, <1>2, <2>1 DEF SessionRecord
  <2>. QED BY <1>1, <1>2, <2>2 DEF SessionRecord, Kept, Fields
<1>4. Moves(r, t, svc)
  BY <1>3
     DEF Moves, Onward, Good, RouteOf, ClosingOf, SettlingOf, PhaseOf, ToldOf,
         FixtureOf, Kept, Fields, Ended, Preparatory, PortalOnly, JourneyOnly, Services
<1>. QED BY <1>1, <1>4

\* The budget service answers, or its answer is lost.
LEMMA SettlementGood ==
    ASSUME NEW svc, NEW r, Good(r, svc), r.settlement = "asked",
           NEW reply \in {"settled", "pending", "rejected"},
           r.outcome = "completed" => reply # "pending"
    PROVE  Moves(r, [r EXCEPT !.settlement = reply], svc)
<1>1. PICK t : t = [r EXCEPT !.settlement = reply]
  OBVIOUS
<1>2. r \in SessionRecord
  BY DEF Good
<1>3. /\ t \in SessionRecord
      /\ t.settlement = reply
      /\ Kept(r, t, {"settlement"})
  <2>1. reply \in Settlements
    BY DEF Settlements
  <2>2. t \in SessionRecord
    BY <1>1, <1>2, <2>1 DEF SessionRecord
  <2>. QED BY <1>1, <1>2, <2>2 DEF SessionRecord, Kept, Fields
<1>4. Moves(r, t, svc)
  BY <1>3
     DEF Moves, Onward, Good, RouteOf, ClosingOf, SettlingOf, PhaseOf, ToldOf,
         FixtureOf, Kept, Fields, Ended, Preparatory, PortalOnly, JourneyOnly, Services
<1>. QED BY <1>1, <1>4

-----------------------------------------------------------------------------
(* From a session's record to the state: what every step does to the other  *)
(* sessions, the fixtures and a closed portal.                              *)

LEMMA MovesKeep ==
    ASSUME PortalInv, NEW s \in Sessions, NEW t, Moves(session[s], t, service), Put(s, t),
           UNCHANGED <<service, portal>>, burned \subseteq burned'
    PROVE  PortalInv'
<1>1. session' = [session EXCEPT ![s] = t] /\ session \in [Sessions -> SessionRecord]
  BY DEF Put, PortalInv
<1>2. Good(t, service) /\ Onward(session[s], t) /\ t.fixture = session[s].fixture
  BY DEF Moves
<1>3. t \in SessionRecord
  BY <1>2 DEF Good
<1>4. session'[s] = t /\ \A x \in Sessions \ {s} : session'[x] = session[x]
  BY <1>1
<1>5. session' \in [Sessions -> SessionRecord]
  BY <1>1, <1>3
<1>6. \A x \in Sessions : Good(session[x], service)' /\ session'[x].fixture = session[x].fixture
  BY <1>2, <1>4 DEF PortalInv
<1>7. ASSUME NEW x \in Sessions, portal' # "open", service' = "portal"
      PROVE  /\ session'[x].at # "pending"
             /\ session'[x].runtime = "launch" => session'[x].shutdown # "no"
  BY <1>2, <1>4, <1>7 DEF PortalInv, Onward
<1>. QED BY <1>5, <1>6, <1>7 DEF PortalInv

LEMMA OffersKeep ==
    ASSUME PortalInv, NEW s \in Sessions, NEW t, Offers(session[s], t, service), Put(s, t),
           portal = "open", UNCHANGED <<service, portal, burned>>
    PROVE  PortalInv'
<1>1. session' = [session EXCEPT ![s] = t] /\ session \in [Sessions -> SessionRecord]
  BY DEF Put, PortalInv
<1>2. Good(t, service) /\ t.fixture = session[s].fixture
  BY DEF Offers
<1>3. t \in SessionRecord
  BY <1>2 DEF Good
<1>4. session'[s] = t /\ \A x \in Sessions \ {s} : session'[x] = session[x]
  BY <1>1
<1>5. session' \in [Sessions -> SessionRecord]
  BY <1>1, <1>3
<1>6. \A x \in Sessions : Good(session[x], service)' /\ session'[x].fixture = session[x].fixture
  BY <1>2, <1>4 DEF PortalInv
<1>. QED BY <1>5, <1>6 DEF PortalInv

LEMMA TakesKeep ==
    ASSUME PortalInv, NEW s \in Sessions, NEW t, NEW f \in Fixtures \ burned,
           Takes(session[s], t, service, f), Put(s, t),
           burned' = burned \cup {f}, UNCHANGED <<service, portal>>
    PROVE  PortalInv'
<1>1. session' = [session EXCEPT ![s] = t] /\ session \in [Sessions -> SessionRecord]
  BY DEF Put, PortalInv
<1>2. Good(t, service) /\ Onward(session[s], t) /\ t.fixture = f
  BY DEF Takes
<1>3. t \in SessionRecord
  BY <1>2 DEF Good
<1>4. session'[s] = t /\ \A x \in Sessions \ {s} : session'[x] = session[x]
  BY <1>1
<1>5. session' \in [Sessions -> SessionRecord]
  BY <1>1, <1>3
<1>6. \A x \in Sessions : Good(session[x], service)'
  BY <1>2, <1>4 DEF PortalInv
<1>7. ASSUME NEW x \in Sessions, portal' # "open", service' = "portal"
      PROVE  /\ session'[x].at # "pending"
             /\ session'[x].runtime = "launch" => session'[x].shutdown # "no"
  BY <1>2, <1>4, <1>7 DEF PortalInv, Onward
<1>8. ASSUME NEW x \in Sessions, session'[x].fixture # NoFixture
      PROVE  /\ session'[x].fixture \in burned'
             /\ \A y \in Sessions \ {x} : session'[y].fixture # session'[x].fixture
  <2>1. \A y \in Sessions \ {s} : session[y].fixture # NoFixture =>
            session[y].fixture \in burned /\ session[y].fixture # f
    BY DEF PortalInv
  <2>2. \A y \in Sessions \ {s} : session'[y].fixture # f
    BY <1>4, <2>1, FixturesAssumption
  <2>3. CASE x = s
    BY <1>2, <1>4, <2>2, <2>3
  <2>4. CASE x # s
    <3>1. session'[x] = session[x] /\ session[x].fixture \in burned /\ session[x].fixture # f
      BY <1>4, <1>8, <2>1, <2>4
    <3>2. \A y \in Sessions \ {x} : session[y].fixture # session[x].fixture
      BY <1>8, <3>1 DEF PortalInv
    <3>. QED BY <1>2, <1>4, <3>1, <3>2
  <2>. QED BY <2>3, <2>4
<1>. QED BY <1>5, <1>6, <1>7, <1>8 DEF PortalInv

\* A call that is refused is answered, whatever its place.
LEMMA RefusedGood ==
    ASSUME NEW svc, NEW r, Good(r, svc), r.at # "running",
           NEW answer \in {"unavailable", "capacity_unavailable", "denied", "service_unavailable"}
    PROVE  Moves(r, Over(r, answer), svc)
<1>1. answer \in Answers /\ answer # "completed"
  BY DEF Answers
<1>. QED BY <1>1, OverGood

-----------------------------------------------------------------------------
(* One lemma per step.                                                      *)

LEMMA DraftKeeps ==
    ASSUME PortalInv, NEW s \in Sessions, Draft(s)  PROVE  PortalInv'
<1>1. PICK r : r = session[s]
  OBVIOUS
<1>2. Good(r, service) /\ r.at = "idle" /\ service = "portal"
  BY <1>1 DEF PortalInv, Draft, Serves
<1>3. \E t : Moves(r, t, service) /\ Put(s, t)
  BY <1>1, <1>2, RefusedGood, DraftGood DEF Draft
<1>. QED BY <1>1, <1>3, MovesKeep DEF Draft, OnlySession

LEMMA DraftScopeKeeps ==
    ASSUME PortalInv, NEW s \in Sessions, DraftScope(s)  PROVE  PortalInv'
<1>1. PICK r : r = session[s]
  OBVIOUS
<1>2. Good(r, service) /\ r.at = "scope" /\ UNCHANGED <<service, portal>>
  BY <1>1 DEF PortalInv, DraftScope, outside
<1>3. CASE /\ \/ \E merges \in BOOLEAN : Put(s, [[r EXCEPT !.at = "begin"] EXCEPT !.merges = merges])
              \/ Put(s, Over(r, "unavailable"))
           /\ UNCHANGED burned
  <2>1. \E t : Moves(r, t, service) /\ Put(s, t)
    BY <1>2, <1>3, RefusedGood, ScopeGood
  <2>. QED BY <1>1, <1>2, <1>3, <2>1, MovesKeep
<1>4. ASSUME NEW f \in Fixtures \ burned, burned' = burned \cup {f},
             \/ Put(s, [[[r EXCEPT !.at = "begin"] EXCEPT !.merges = TRUE] EXCEPT !.fixture = f])
             \/ Put(s, Over(r, "unavailable"))
      PROVE  PortalInv'
  <2>1. CASE Put(s, [[[r EXCEPT !.at = "begin"] EXCEPT !.merges = TRUE] EXCEPT !.fixture = f])
    <3>1. \E t : Takes(r, t, service, f) /\ Put(s, t)
      BY <1>2, <2>1, ScopeTakes
    <3>. QED BY <1>1, <1>2, <1>4, <3>1, TakesKeep
  <2>2. CASE Put(s, Over(r, "unavailable"))
    <3>1. \E t : Moves(r, t, service) /\ Put(s, t)
      BY <1>2, <2>2, RefusedGood
    <3>. QED BY <1>1, <1>2, <1>4, <3>1, MovesKeep
  <2>. QED BY <1>4, <2>1, <2>2
<1>. QED BY <1>1, <1>3, <1>4 DEF DraftScope, Reserve

LEMMA DraftBeginKeeps ==
    ASSUME PortalInv, NEW s \in Sessions, DraftBegin(s)  PROVE  PortalInv'
<1>1. PICK r : r = session[s]
  OBVIOUS
<1>2. Good(r, service) /\ r.at = "begin" /\ service = "portal"
  BY <1>1 DEF PortalInv, DraftBegin
<1>3. \E t : Moves(r, t, service) /\ Put(s, t)
  BY <1>1, <1>2, RefusedGood, BeginGood, BeginUnsettleGood DEF DraftBegin
<1>. QED BY <1>1, <1>3, MovesKeep DEF DraftBegin, OnlySession

LEMMA PrepareRuntimeKeeps ==
    ASSUME PortalInv, NEW s \in Sessions, PrepareRuntime(s)  PROVE  PortalInv'
<1>1. PICK r : r = session[s]
  OBVIOUS
<1>2. Good(r, service) /\ r.at = "prepare" /\ UNCHANGED <<service, portal>>
  BY <1>1 DEF PortalInv, PrepareRuntime, outside
<1>3. CASE /\ r.merges => r.fixture # NoFixture
           /\ Put(s, [r EXCEPT !.at = "start", !.supervisor = "starting"]) /\ UNCHANGED burned
  <2>1. \E t : Moves(r, t, service) /\ Put(s, t)
    BY <1>2, <1>3, PrepareGood
  <2>. QED BY <1>1, <1>2, <1>3, <2>1, MovesKeep
<1>4. ASSUME NEW f \in Fixtures \ burned, burned' = burned \cup {f},
             Put(s, [[r EXCEPT !.at = "start", !.supervisor = "starting"] EXCEPT !.fixture = f])
      PROVE  PortalInv'
  <2>1. \E t : Takes(r, t, service, f) /\ Put(s, t)
    BY <1>2, <1>4, PrepareTakes
  <2>. QED BY <1>1, <1>2, <1>4, <2>1, TakesKeep
<1>5. CASE /\ Put(s, [Settle(r, "failed") EXCEPT !.at = "unsettle"])
           /\ burned \subseteq burned'
  <2>1. service = "portal"
    BY <1>2 DEF Good, RouteOf, PortalOnly
  <2>2. \E t : Moves(r, t, service) /\ Put(s, t)
    BY <1>2, <1>5, <2>1, UnsettleGood
  <2>. QED BY <1>1, <1>2, <1>5, <2>2, MovesKeep
<1>6. \/ /\ r.merges => r.fixture # NoFixture
         /\ Put(s, [r EXCEPT !.at = "start", !.supervisor = "starting"]) /\ UNCHANGED burned
      \/ \E f \in Fixtures \ burned :
            /\ burned' = burned \cup {f}
            /\ Put(s, [[r EXCEPT !.at = "start", !.supervisor = "starting"] EXCEPT !.fixture = f])
      \/ /\ Put(s, [Settle(r, "failed") EXCEPT !.at = "unsettle"])
         /\ burned \subseteq burned'
  BY <1>1, Zenon DEF PrepareRuntime
<1>. QED BY <1>3, <1>4, <1>5, <1>6

LEMMA StartSupervisorKeeps ==
    ASSUME PortalInv, NEW s \in Sessions, StartSupervisor(s)  PROVE  PortalInv'
<1>1. PICK r : r = session[s]
  OBVIOUS
<1>2. Good(r, service) /\ r.at = "start" /\ service = "portal"
  BY <1>1 DEF PortalInv, StartSupervisor
<1>3. UNCHANGED <<service, portal, burned>>
  BY DEF StartSupervisor, OnlySession
<1>4. CASE portal = "open" /\ Put(s, [[r EXCEPT !.supervisor = "up"] EXCEPT !.at = "pending"])
  <2>1. \E t : Offers(r, t, service) /\ Put(s, t)
    BY <1>2, <1>4, StartOffers
  <2>. QED BY <1>1, <1>3, <1>4, <2>1, OffersKeep
<1>5. CASE \/ Put(s, [Settle(r, "failed") EXCEPT !.at = "unsettle", !.supervisor = "none"])
           \/ Put(s, [CloseRuntime([r EXCEPT !.supervisor = "up"]) EXCEPT !.at = "undo"])
           \/ Put(s, [CloseSession([r EXCEPT !.supervisor = "up"]) EXCEPT !.at = "drop"])
  <2>1. \E t : Moves(r, t, service) /\ Put(s, t)
    BY <1>2, <1>5, StartUnsettleGood, StartUndoGood, StartDropGood
  <2>. QED BY <1>1, <1>3, <2>1, MovesKeep
<1>. QED BY <1>1, <1>4, <1>5 DEF StartSupervisor, Prepared

LEMMA DraftFailsKeeps ==
    ASSUME PortalInv, NEW s \in Sessions, DraftFails(s)  PROVE  PortalInv'
<1>1. PICK r : r = session[s]
  OBVIOUS
<1>2. Good(r, service)
  BY <1>1 DEF PortalInv
<1>3. CASE r.at = "undo" /\ Put(s, [Settle(r, "failed") EXCEPT !.at = "unsettle"])
  <2>1. service = "portal"
    BY <1>2, <1>3 DEF Good, RouteOf, PortalOnly
  <2>2. \E t : Moves(r, t, service) /\ Put(s, t)
    BY <1>2, <1>3, <2>1, UnsettleGood
  <2>. QED BY <1>1, <2>2, MovesKeep DEF DraftFails, OnlySession
<1>4. CASE r.at # "running" /\ Put(s, Over(r, "unavailable"))
  <2>1. \E t : Moves(r, t, service) /\ Put(s, t)
    BY <1>2, <1>4, RefusedGood
  <2>. QED BY <1>1, <2>1, MovesKeep DEF DraftFails, OnlySession
<1>. QED BY <1>1, <1>3, <1>4 DEF DraftFails

LEMMA PreviewExpiresKeeps ==
    ASSUME PortalInv, NEW s \in Sessions, PreviewExpires(s)  PROVE  PortalInv'
<1>1. PICK r : r = session[s]
  OBVIOUS
<1>2. Good(r, service) /\ r.at = "pending"
  BY <1>1 DEF PortalInv, PreviewExpires
<1>3. \E t : Moves(r, t, service) /\ Put(s, t)
  BY <1>1, <1>2, DiscardGood DEF PreviewExpires
<1>. QED BY <1>1, <1>3, MovesKeep DEF PreviewExpires, OnlySession

LEMMA ConfirmKeeps ==
    ASSUME PortalInv, NEW s \in Sessions, Confirm(s)  PROVE  PortalInv'
<1>1. PICK r : r = session[s]
  OBVIOUS
<1>2. Good(r, service) /\ r.at = "pending" /\ portal = "open"
  BY <1>1 DEF PortalInv, Confirm
<1>3. UNCHANGED <<service, portal, burned>>
  BY DEF Confirm, OnlySession
<1>4. CASE Put(s, Discard(r, "preview_unavailable"))
  <2>1. \E t : Moves(r, t, service) /\ Put(s, t)
    BY <1>2, <1>4, DiscardGood
  <2>. QED BY <1>1, <1>3, <2>1, MovesKeep
<1>5. CASE Put(s, [ConfirmAndRun(r) EXCEPT !.at = "running"])
  <2>1. \E t : Offers(r, t, service) /\ Put(s, t)
    BY <1>2, <1>5, ConfirmRefused, ConfirmThrows, ConfirmLaunches
  <2>. QED BY <1>1, <1>2, <1>3, <2>1, OffersKeep
<1>. QED BY <1>1, <1>4, <1>5 DEF Confirm

LEMMA DiscardedKeeps ==
    ASSUME PortalInv, NEW s \in Sessions, Discarded(s)  PROVE  PortalInv'
<1>1. PICK r : r = session[s]
  OBVIOUS
<1>2. Good(r, service) /\ r.at = "discard"
  BY <1>1 DEF PortalInv, Discarded
<1>3. r.verdict \in {"none", "preview_unavailable"}
  BY <1>2 DEF Good, PhaseOf
<1>4. r.verdict \in Answers /\ r.verdict # "completed"
  BY <1>3 DEF Answers
<1>5. \E t : Moves(r, t, service) /\ Put(s, t)
  BY <1>1, <1>2, <1>4, OverGood DEF Discarded
<1>. QED BY <1>1, <1>5, MovesKeep DEF Discarded, OnlySession

LEMMA CancelGood ==
    ASSUME NEW svc, NEW r, Good(r, svc), r.at = "running"
    PROVE  Moves(r, Cancel(r), svc)
BY CancelLaunched, CancelOther

LEMMA CancelRunKeeps ==
    ASSUME PortalInv, NEW s \in Sessions, CancelRun(s)  PROVE  PortalInv'
<1>1. PICK r : r = session[s]
  OBVIOUS
<1>2. Good(r, service) /\ r.at = "running"
  BY <1>1 DEF PortalInv, CancelRun
<1>3. \E t : Moves(r, t, service) /\ Put(s, t)
  BY <1>1, <1>2, CancelGood DEF CancelRun
<1>. QED BY <1>1, <1>3, MovesKeep DEF CancelRun, OnlySession

LEMMA RunEndsKeeps ==
    ASSUME PortalInv, NEW s \in Sessions, RunEnds(s)  PROVE  PortalInv'
<1>1. PICK r : r = session[s]
  OBVIOUS
<1>2. Good(r, service) /\ r.at = "running"
  BY <1>1 DEF PortalInv, RunEnds
<1>3. PICK verdict : verdict = IF r.run = "returned" /\ ~r.aborted THEN r.runtime ELSE "unavailable"
  OBVIOUS
<1>4. r.run = "returned" => r.runtime \in {"completed", "stopped"}
  BY <1>2 DEF Good, PhaseOf
<1>5. verdict \in Answers
  BY <1>3, <1>4 DEF Answers
<1>6. verdict = "completed" => r.run = "returned" /\ ~r.aborted /\ r.runtime = "completed"
  BY <1>3
<1>7. Put(s, [CloseSession(r) EXCEPT !.at = "leaving", !.verdict = verdict])
  BY <1>1, <1>3 DEF RunEnds
<1>8. \E t : Moves(r, t, service) /\ Put(s, t)
  BY <1>2, <1>5, <1>6, <1>7, LeaveGood
<1>. QED BY <1>1, <1>8, MovesKeep DEF RunEnds, OnlySession

LEMMA LeaveKeeps ==
    ASSUME PortalInv, NEW s \in Sessions, Leave(s)  PROVE  PortalInv'
<1>1. PICK r : r = session[s]
  OBVIOUS
<1>2. Good(r, service) /\ r.at = "leaving" /\ Ended(r.closer)
  BY <1>1 DEF PortalInv, Leave
<1>3. PICK answer : answer = IF r.closer = "failed" THEN "unavailable" ELSE r.verdict
  OBVIOUS
<1>4. answer \in Answers
  BY <1>2, <1>3 DEF Good, SessionRecord, Answers
<1>5. answer = "completed" =>
        /\ r.outcome = "completed" /\ r.settlement = "settled"
        /\ r.supervisor = "down" /\ r.shutdown = "done"
        /\ service = "portal" => ~r.aborted
  BY <1>2, <1>3 DEF Good, ClosingOf, SettlingOf, PhaseOf, Ended
<1>6. \E t : Moves(r, t, service) /\ Put(s, t)
  BY <1>1, <1>2, <1>3, <1>4, <1>5, OverGood DEF Leave
<1>. QED BY <1>1, <1>6, MovesKeep DEF Leave, OnlySession

LEMMA JourneyKeeps ==
    ASSUME PortalInv, NEW s \in Sessions, Journey(s)  PROVE  PortalInv'
<1>1. PICK r : r = session[s]
  OBVIOUS
<1>2. Good(r, service) /\ r.at = "idle" /\ service = "journeys"
  BY <1>1 DEF PortalInv, Journey, Serves
<1>3. \E t : Moves(r, t, service) /\ Put(s, t)
  BY <1>1, <1>2, JourneyGood DEF Journey
<1>. QED BY <1>1, <1>3, MovesKeep DEF Journey, OnlySession

LEMMA JourneyAbortsKeeps ==
    ASSUME PortalInv, NEW s \in Sessions, JourneyAborts(s)  PROVE  PortalInv'
<1>1. PICK r, t : r = session[s] /\ t = [r EXCEPT !.aborted = TRUE]
  OBVIOUS
<1>2. Good(r, service) /\ service = "journeys"
  BY <1>1 DEF PortalInv, JourneyAborts
<1>3. Moves(r, t, service) /\ Good(t, service)
  BY <1>1, <1>2, JourneyAbortGood DEF Moves
<1>4. CASE Put(s, t)
  BY <1>1, <1>3, <1>4, MovesKeep DEF JourneyAborts, OnlySession
<1>5. CASE t.supervisor = "up" /\ Put(s, CloseRuntime(t))
  <2>1. Moves(t, CloseRuntime(t), service)
    BY <1>2, <1>3, <1>5, ExecutorAbortsGood
  <2>2. Moves(r, CloseRuntime(t), service)
    BY <1>3, <2>1 DEF Moves, Onward
  <2>. QED BY <1>1, <1>5, <2>2, MovesKeep DEF JourneyAborts, OnlySession
<1>. QED BY <1>1, <1>4, <1>5 DEF JourneyAborts, ExecutorAborts

LEMMA JourneyBeginKeeps ==
    ASSUME PortalInv, NEW s \in Sessions, JourneyBegin(s)  PROVE  PortalInv'
<1>1. PICK r : r = session[s]
  OBVIOUS
<1>2. Good(r, service) /\ r.at = "begin" /\ service = "journeys"
  BY <1>1 DEF PortalInv, JourneyBegin
<1>3. \E t : Moves(r, t, service) /\ Put(s, t)
  BY <1>1, <1>2, RefusedGood, SettlesRefused, JourneyAdmitted DEF JourneyBegin
<1>. QED BY <1>1, <1>3, MovesKeep DEF JourneyBegin

LEMMA StopGood ==
    ASSUME NEW svc, NEW r, Good(r, svc), svc = "journeys",
           r.at \in {"mkdir", "launch", "journey"},
           NEW verdict \in {"completed", "stopped"}, verdict = "completed" => r.at = "journey"
    PROVE  Moves(r, Stop(r, verdict), svc)
BY StopCloses, StopOnly

LEMMA JourneyStartsKeeps ==
    ASSUME PortalInv, NEW s \in Sessions, JourneyStarts(s)  PROVE  PortalInv'
<1>1. PICK r : r = session[s]
  OBVIOUS
<1>2. Good(r, service) /\ r.at \in {"mkdir", "start"}
  BY <1>1 DEF PortalInv, JourneyStarts
<1>3. service = "journeys"
  BY <1>1, <1>2 DEF JourneyStarts, Good, RouteOf, JourneyOnly
<1>4. CASE /\ r.at = "mkdir"
           /\ \/ Put(s, Stop(r, "stopped"))
              \/ Put(s, [r EXCEPT !.at = "start", !.supervisor = "starting"])
  <2>1. \E t : Moves(r, t, service) /\ Put(s, t)
    BY <1>2, <1>3, <1>4, StopGood, MkdirGood
  <2>. QED BY <1>1, <2>1, MovesKeep DEF JourneyStarts, OnlySession
<1>5. CASE /\ r.at = "start"
           /\ \/ Put(s, Stop([r EXCEPT !.supervisor = "none"], "stopped"))
              \/ Put(s, Stop([r EXCEPT !.supervisor = "up"], "stopped"))
              \/ Put(s, [[r EXCEPT !.supervisor = "up"] EXCEPT !.at = "launch"])
  <2>1. \E t : Moves(r, t, service) /\ Put(s, t)
    BY <1>2, <1>3, <1>5, StartStops, StartedStops, StartGood
  <2>. QED BY <1>1, <2>1, MovesKeep DEF JourneyStarts, OnlySession
<1>. QED BY <1>1, <1>4, <1>5 DEF JourneyStarts

LEMMA JourneyRunsKeeps ==
    ASSUME PortalInv, NEW s \in Sessions, JourneyRuns(s)  PROVE  PortalInv'
<1>1. PICK r : r = session[s]
  OBVIOUS
<1>2. Good(r, service) /\ r.at \in {"launch", "journey"}
  BY <1>1 DEF PortalInv, JourneyRuns
<1>3. service = "journeys"
  BY <1>2 DEF Good, RouteOf, JourneyOnly
<1>4. \E t : Moves(r, t, service) /\ Put(s, t)
  BY <1>1, <1>2, <1>3, StopGood, LaunchGood DEF JourneyRuns
<1>. QED BY <1>1, <1>4, MovesKeep DEF JourneyRuns, OnlySession

LEMMA JourneyStopsKeeps ==
    ASSUME PortalInv, NEW s \in Sessions, JourneyStops(s)  PROVE  PortalInv'
<1>1. PICK r : r = session[s]
  OBVIOUS
<1>2. /\ Good(r, service) /\ r.at = "stopping"
      /\ r.supervisor = "none" \/ Ended(r.shutdown)
  BY <1>1 DEF PortalInv, JourneyStops
<1>3. service = "journeys"
  BY <1>2 DEF Good, RouteOf, JourneyOnly
<1>4. r.verdict = "completed" /\ r.shutdown # "failed" => r.shutdown = "done"
  BY <1>2 DEF Good, PhaseOf, Ended
<1>5. CASE r.shutdown = "failed" /\ Put(s, SettleJourney([r EXCEPT !.verdict = "stopped"]))
  <2>1. \E t : Moves(r, t, service) /\ Put(s, t)
    BY <1>2, <1>3, <1>5, SettlesThrown
  <2>. QED BY <1>1, <2>1, MovesKeep DEF JourneyStops
<1>6. CASE r.shutdown # "failed" /\ Put(s, SettleJourney(r))
  <2>1. \E t : Moves(r, t, service) /\ Put(s, t)
    BY <1>2, <1>3, <1>4, <1>6, SettlesCompleted, SettlesFailed
  <2>. QED BY <1>1, <2>1, MovesKeep DEF JourneyStops
<1>. QED BY <1>1, <1>5, <1>6 DEF JourneyStops

LEMMA JourneyEndsKeeps ==
    ASSUME PortalInv, NEW s \in Sessions, JourneyEnds(s)  PROVE  PortalInv'
<1>1. PICK r : r = session[s]
  OBVIOUS
<1>2. Good(r, service) /\ r.at = "settle" /\ Answered(r)
  BY <1>1 DEF PortalInv, JourneyEnds
<1>3. PICK answer :
          answer = IF r.settlement = "rejected" THEN "service_unavailable" ELSE r.verdict
  OBVIOUS
<1>4. answer \in Answers
  BY <1>2, <1>3 DEF Good, SessionRecord, Answers
<1>5. answer = "completed" =>
        /\ r.outcome = "completed" /\ r.settlement = "settled"
        /\ r.supervisor = "down" /\ r.shutdown = "done"
        /\ service = "portal" => ~r.aborted
  BY <1>2, <1>3
     DEF Good, RouteOf, ClosingOf, SettlingOf, PhaseOf, Ended, Answered, JourneyOnly
<1>6. \E t : Moves(r, t, service) /\ Put(s, t)
  BY <1>1, <1>2, <1>3, <1>4, <1>5, OverGood DEF JourneyEnds
<1>. QED BY <1>1, <1>6, MovesKeep DEF JourneyEnds, OnlySession

\* The steps that the session objects, the supervisors and the budget service
\* take by themselves.
LEMMA LaunchEndsKeeps ==
    ASSUME PortalInv, NEW s \in Sessions, LaunchEnds(s)  PROVE  PortalInv'
<1>1. PICK r : r = session[s]
  OBVIOUS
<1>2. Good(r, service) /\ r.runtime = "launch"
  BY <1>1 DEF PortalInv, LaunchEnds
<1>3. PICK end \in {"completed", "stopped", "threw"} : Put(s, Launched(r, end))
  BY <1>1 DEF LaunchEnds
<1>4. PICK last \in {"completed", "stopped", "threw"} :
          last = IF end = "completed" /\ (r.shutdown # "no" \/ r.aborted) THEN "stopped" ELSE end
  OBVIOUS
<1>5. Put(s, CloseRuntime([r EXCEPT !.runtime = "closing", !.result = last]))
  BY <1>3, <1>4 DEF Launched
<1>6. \E t : Moves(r, t, service) /\ Put(s, t)
  BY <1>2, <1>5, LaunchEndsGood
<1>. QED BY <1>1, <1>6, MovesKeep DEF LaunchEnds, OnlySession

LEMMA RuntimeReturnsKeeps ==
    ASSUME PortalInv, NEW s \in Sessions, RuntimeReturns(s)  PROVE  PortalInv'
<1>1. PICK r : r = session[s]
  OBVIOUS
<1>2. Good(r, service) /\ r.runtime = "closing"
  BY <1>1 DEF PortalInv, RuntimeReturns
<1>3. r.result \in {"completed", "stopped", "threw"}
  BY <1>2 DEF Good, PhaseOf
<1>4. PICK end \in {"completed", "stopped", "threw"} :
          end = IF r.shutdown = "failed" THEN "threw" ELSE r.result
  BY <1>3
<1>5. Put(s, [r EXCEPT !.runtime = end, !.result = "none"])
  BY <1>1, <1>4 DEF RuntimeReturns, RuntimeReturned
<1>6. \E t : Moves(r, t, service) /\ Put(s, t)
  BY <1>2, <1>5, RuntimeGood
<1>. QED BY <1>1, <1>6, MovesKeep DEF RuntimeReturns, OnlySession

LEMMA RunSettlesKeeps ==
    ASSUME PortalInv, NEW s \in Sessions, RunSettles(s)  PROVE  PortalInv'
<1>1. PICK r : r = session[s]
  OBVIOUS
<1>2. Good(r, service) /\ r.run = "launch" /\ r.runtime \in {"completed", "stopped", "threw"}
  BY <1>1 DEF PortalInv, RunSettles
<1>3. CASE r.runtime = "threw" /\ Put(s, [Settle(r, "failed") EXCEPT !.run = "failing"])
  <2>1. \E t : Moves(r, t, service) /\ Put(s, t)
    BY <1>2, <1>3, RunFailing
  <2>. QED BY <1>1, <2>1, MovesKeep DEF RunSettles, OnlySession
<1>4. CASE r.runtime \in {"completed", "stopped"} /\ Put(s, RunSettled(r))
  <2>1. PICK end \in {"completed", "failed"} :
            end = IF r.runtime = "completed" /\ ~r.aborted THEN "completed" ELSE "failed"
    OBVIOUS
  <2>2. Put(s, [Settle(r, end) EXCEPT !.run = "settling"])
    BY <1>4, <2>1 DEF RunSettled
  <2>3. end = "completed" <=> r.runtime = "completed" /\ ~r.aborted
    BY <2>1
  <2>4. \E t : Moves(r, t, service) /\ Put(s, t)
    BY <1>2, <1>4, <2>2, <2>3, RunSettling
  <2>. QED BY <1>1, <2>4, MovesKeep DEF RunSettles, OnlySession
<1>. QED BY <1>1, <1>2, <1>3, <1>4 DEF RunSettles, RunSettled

LEMMA RunReturnsKeeps ==
    ASSUME PortalInv, NEW s \in Sessions, RunReturns(s)  PROVE  PortalInv'
<1>1. PICK r : r = session[s]
  OBVIOUS
<1>2. Good(r, service) /\ r.run \in {"settling", "failing"}
  BY <1>1 DEF PortalInv, RunReturns
<1>3. PICK end \in {"returned", "threw"} :
          end = IF r.run = "failing" \/ r.settlement = "rejected" \/ r.aborted \/ r.closed
                THEN "threw" ELSE "returned"
  OBVIOUS
<1>4. Put(s, [r EXCEPT !.run = end]) /\ (end = "returned" => r.run = "settling")
  BY <1>1, <1>2, <1>3 DEF RunReturns, RunReturned
<1>5. \E t : Moves(r, t, service) /\ Put(s, t)
  BY <1>2, <1>4, RunGood
<1>. QED BY <1>1, <1>5, MovesKeep DEF RunReturns, OnlySession

LEMMA CloserSettlesKeeps ==
    ASSUME PortalInv, NEW s \in Sessions, CloserSettles(s)  PROVE  PortalInv'
<1>1. PICK r : r = session[s]
  OBVIOUS
<1>2. Good(r, service) /\ r.closer = "waiting" /\ Ended(r.shutdown)
  BY <1>1 DEF PortalInv, CloserSettles
<1>3. \E t : Moves(r, t, service) /\ Put(s, t)
  BY <1>1, <1>2, CloserSettlesGood DEF CloserSettles, CloserSettled
<1>. QED BY <1>1, <1>3, MovesKeep DEF CloserSettles, OnlySession

LEMMA CloserEndsKeeps ==
    ASSUME PortalInv, NEW s \in Sessions, CloserEnds(s)  PROVE  PortalInv'
<1>1. PICK r : r = session[s]
  OBVIOUS
<1>2. Good(r, service) /\ r.closer = "settling" /\ Answered(r)
  BY <1>1 DEF PortalInv, CloserEnds
<1>3. PICK end \in {"done", "failed"} :
          end = IF r.shutdown = "failed" \/ r.settlement = "rejected" THEN "failed" ELSE "done"
  OBVIOUS
<1>4. Put(s, [r EXCEPT !.closer = end])
  BY <1>1, <1>3 DEF CloserEnds, CloserEnded
<1>5. end = "done" => r.shutdown # "failed" /\ r.settlement \in {"settled", "pending"}
  BY <1>2, <1>3 DEF Answered
<1>6. \E t : Moves(r, t, service) /\ Put(s, t)
  BY <1>2, <1>4, <1>5, CloserEndsGood
<1>. QED BY <1>1, <1>6, MovesKeep DEF CloserEnds, OnlySession

LEMMA SupervisorClosesKeeps ==
    ASSUME PortalInv, NEW s \in Sessions, SupervisorCloses(s)  PROVE  PortalInv'
<1>1. PICK r : r = session[s]
  OBVIOUS
<1>2. Good(r, service) /\ r.shutdown = "waiting" /\ r.supervisor = "up"
  BY <1>1 DEF PortalInv, SupervisorCloses
<1>3. \E t : Moves(r, t, service) /\ Put(s, t)
  BY <1>1, <1>2, SupervisorGood DEF SupervisorCloses
<1>. QED BY <1>1, <1>3, MovesKeep DEF SupervisorCloses, OnlySession

LEMMA SettlementAnswersKeeps ==
    ASSUME PortalInv, NEW s \in Sessions, SettlementAnswers(s)  PROVE  PortalInv'
<1>1. PICK r : r = session[s]
  OBVIOUS
<1>2. Good(r, service) /\ r.settlement = "asked"
  BY <1>1 DEF PortalInv, SettlementAnswers
<1>3. PICK lost \in {"settled", "pending", "lost"} :
          Put(s, [r EXCEPT !.settlement = SettlementPromise(r, lost)])
  BY <1>1 DEF SettlementAnswers
<1>4. PICK reply \in {"settled", "pending", "rejected"} : reply = SettlementPromise(r, lost)
  BY DEF SettlementPromise
<1>5. r.outcome = "completed" => reply # "pending"
  BY <1>4 DEF SettlementPromise
<1>6. \E t : Moves(r, t, service) /\ Put(s, t)
  BY <1>2, <1>3, <1>4, <1>5, SettlementGood
<1>. QED BY <1>1, <1>6, MovesKeep DEF SettlementAnswers, OnlySession

-----------------------------------------------------------------------------
(* The app's close, and the host's steps.                                   *)

\* What the close does with one session of the portal: a preview is discarded,
\* a run cancelled, and a session that runs has its supervisor closed.
LEMMA PortalClosedGood ==
    ASSUME NEW svc, NEW r, Good(r, svc)
    PROVE  /\ Moves(r, PortalClosed(r), svc)
           /\ PortalClosed(r).at # "pending"
           /\ PortalClosed(r).runtime = "launch" => PortalClosed(r).shutdown # "no"
<1>1. Good(r, svc) => Moves(r, r, svc)
  BY DEF Moves, Onward
<1>2. CASE r.at = "pending"
  <2>1. Moves(r, Discard(r, "none"), svc)
    BY <1>2, DiscardGood
  <2>2. PICK u : u = CloseSession(r)
    OBVIOUS
  <2>3. u \in SessionRecord
    BY <2>2, CloseSessionIs DEF Good
  <2>4. PICK t : t = [u EXCEPT !.at = "discard", !.verdict = "none"]
    OBVIOUS
  <2>5. t = Discard(r, "none") /\ t.at = "discard"
    BY <2>2, <2>3, <2>4 DEF Discard, SessionRecord
  <2>6. t = PortalClosed(r)
    BY <1>2, <2>5 DEF PortalClosed
  <2>7. Good(t, svc)
    BY <2>1, <2>5 DEF Moves
  <2>8. t.runtime # "launch" \/ t.shutdown # "no"
    BY <2>5, <2>7 DEF Good, ClosingOf
  <2>. QED BY <2>1, <2>5, <2>6, <2>8
<1>3. CASE r.at = "running"
  <2>1. PICK t : t = PortalClosed(r)
    OBVIOUS
  <2>2. t = Cancel(r)
    BY <1>3, <2>1 DEF PortalClosed
  <2>3. Moves(r, t, svc)
    BY <1>3, <2>2, CancelGood
  <2>4. t.closed
    <3>1. PICK u : u = Abort(r)
      OBVIOUS
    <3>2. PICK v : v = [r EXCEPT !.aborted = TRUE]
      OBVIOUS
    <3>3. r \in SessionRecord /\ v \in SessionRecord
      BY <3>2 DEF Good, SessionRecord
    <3>4. u = v \/ u = CloseRuntime(v)
      BY <3>1, <3>2 DEF Abort
    <3>5. u \in SessionRecord
      BY <3>3, <3>4, CloseRuntimeIs
    <3>. QED BY <2>2, <3>1, <3>5, CloseSessionIs DEF Cancel
  <2>5. t.shutdown # "no"
    BY <2>3, <2>4 DEF Moves, Good, ClosingOf
  <2>6. t.at # "pending"
    BY <1>3, <2>3 DEF Moves, Onward
  <2>. QED BY <2>1, <2>3, <2>5, <2>6
<1>4. CASE r.at \notin {"pending", "running"}
  <2>1. PortalClosed(r) = r
    BY <1>4 DEF PortalClosed
  <2>. QED BY <1>1, <1>4, <2>1 DEF Good, ClosingOf
<1>. QED BY <1>2, <1>3, <1>4

LEMMA AppClosesKeeps ==
    ASSUME PortalInv, AppCloses  PROVE  PortalInv'
<1>1. /\ session \in [Sessions -> SessionRecord]
      /\ UNCHANGED <<service, burned>>
  BY DEF PortalInv, AppCloses
<1>2. ASSUME NEW s \in Sessions
      PROVE  /\ Moves(session[s], session'[s], service)
             /\ service = "portal" =>
                  /\ session'[s].at # "pending"
                  /\ session'[s].runtime = "launch" => session'[s].shutdown # "no"
  <2>1. PICK r : r = session[s]
    OBVIOUS
  <2>2. Good(r, service)
    BY <2>1 DEF PortalInv
  <2>3. service \in {"portal", "journeys"}
    BY <2>2 DEF Good, RouteOf, Services
  <2>4. CASE service = "portal"
    <3>1. session'[s] = PortalClosed(r)
      BY <2>1, <2>4 DEF AppCloses
    <3>. QED BY <2>1, <2>2, <3>1, PortalClosedGood
  <2>5. CASE service = "journeys"
    <3>1. session'[s] = r \/ (r.supervisor = "up" /\ session'[s] = CloseRuntime(r))
      BY <2>1, <2>5 DEF AppCloses, ExecutorAborts
    <3>2. Moves(r, r, service)
      BY <2>2 DEF Moves, Onward
    <3>3. Moves(r, session'[s], service)
      BY <2>2, <2>5, <3>1, <3>2, ExecutorAbortsGood
    <3>. QED BY <2>1, <2>5, <3>3
  <2>. QED BY <2>3, <2>4, <2>5
<1>3. \A s \in Sessions : Good(session[s], service)' /\ session'[s].fixture = session[s].fixture
  BY <1>1, <1>2 DEF Moves
<1>4. session' \in [Sessions -> SessionRecord]
  <2>1. session' = [s \in Sessions |-> session'[s]]
    BY DEF AppCloses
  <2>. QED BY <1>3, <2>1 DEF Good
<1>. QED BY <1>1, <1>2, <1>3, <1>4 DEF PortalInv

LEMMA HostKeeps ==
    ASSUME PortalInv,
           HostSecrets \/ BudgetStarts \/ Listen \/ HostClose \/ ChildExits \/ ChildClosed
             \/ HostCloses
    PROVE  PortalInv'
<1>1. UNCHANGED <<service, session, portal, burned>>
  BY DEF HostSecrets, BudgetStarts, Listen, HostClose, ChildExits, ChildClosed, HostCloses,
         UnchangedHost
<1>. QED BY <1>1 DEF PortalInv

LEMMA PortalClosesKeeps ==
    ASSUME PortalInv, PortalCloses  PROVE  PortalInv'
<1>1. UNCHANGED <<service, session, burned>> /\ portal = "closing"
  BY DEF PortalCloses
<1>. QED BY <1>1 DEF PortalInv

-----------------------------------------------------------------------------
(* The invariant.                                                           *)

LEMMA InitGood ==
    ASSUME NEW svc \in Services  PROVE  Good(NewSession, svc)
<1>1. PICK r : r = NewSession
  OBVIOUS
<1>2. /\ r.at = "idle" /\ r.told = "none" /\ r.verdict = "none" /\ r.run = "no"
      /\ r.closer = "no" /\ r.runtime = "no" /\ r.shutdown = "no" /\ r.supervisor = "none"
      /\ r.outcome = "none" /\ r.settlement = "none"
      /\ ~r.aborted /\ ~r.closed /\ ~r.merges
  BY <1>1 DEF NewSession
<1>3. /\ "idle" \in Places /\ "none" \in Answers /\ "no" \in Runs /\ "no" \in Closes
      /\ "none" \in Ends /\ "none" \in Supervisors /\ "none" \in Outcomes
      /\ "none" \in Settlements
  BY DEF Places, Answers, Runs, Closes, Ends, Supervisors, Outcomes, Settlements
<1>4. r \in SessionRecord
  BY <1>1, <1>3 DEF NewSession, SessionRecord
<1>5. Good(r, svc)
  BY <1>2, <1>4
     DEF Good, RouteOf, ClosingOf, SettlingOf, PhaseOf, ToldOf, FixtureOf, Ended,
         Preparatory, PortalOnly, JourneyOnly
<1>. QED BY <1>1, <1>5

LEMMA InitInv == Init => PortalInv
<1>1. HAVE Init
<1>2. PICK r : r = NewSession
  OBVIOUS
<1>3. Good(r, service)
  BY <1>1, <1>2, InitGood DEF Init
<1>4. r.fixture = NoFixture /\ r \in SessionRecord
  BY <1>2, <1>3 DEF NewSession, Good
<1>5. session = [s \in Sessions |-> r] /\ portal = "open"
  BY <1>1, <1>2 DEF Init
<1>. QED BY <1>3, <1>4, <1>5 DEF PortalInv

LEMMA NextKeeps == PortalInv /\ [Next]_vars => PortalInv'
<1>1. HAVE PortalInv /\ [Next]_vars
<1>2. ASSUME NEW s \in Sessions,
             ClientStep(s) \/ PortalStep(s) \/ JourneyStep(s) \/ SessionStep(s)
               \/ SupervisorCloses(s) \/ SettlementAnswers(s)
      PROVE  PortalInv'
  <2>1. CASE ClientStep(s)
    BY <1>1, <2>1, DraftKeeps, ConfirmKeeps, JourneyKeeps, JourneyAbortsKeeps, LaunchEndsKeeps
       DEF ClientStep
  <2>2. CASE PortalStep(s)
    BY <1>1, <2>2, DraftScopeKeeps, DraftBeginKeeps, PrepareRuntimeKeeps, StartSupervisorKeeps,
       DraftFailsKeeps, PreviewExpiresKeeps, DiscardedKeeps, CancelRunKeeps, RunEndsKeeps,
       LeaveKeeps
       DEF PortalStep
  <2>3. CASE JourneyStep(s)
    BY <1>1, <2>3, JourneyBeginKeeps, JourneyStartsKeeps, JourneyRunsKeeps, JourneyStopsKeeps,
       JourneyEndsKeeps
       DEF JourneyStep
  <2>4. CASE SessionStep(s)
    BY <1>1, <2>4, RuntimeReturnsKeeps, RunSettlesKeeps, RunReturnsKeeps, CloserSettlesKeeps,
       CloserEndsKeeps
       DEF SessionStep
  <2>. QED BY <1>1, <1>2, <2>1, <2>2, <2>3, <2>4, SupervisorClosesKeeps, SettlementAnswersKeeps
<1>3. CASE HostStep
  BY <1>1, <1>3, HostKeeps, AppClosesKeeps, PortalClosesKeeps DEF HostStep
<1>4. CASE UNCHANGED vars
  BY <1>1, <1>4 DEF vars, PortalInv
<1>. QED BY <1>1, <1>2, <1>3, <1>4 DEF Next

\* What the calls of portal, wrapper and runtime agree on about a session, with
\* each fixture burned for one session (judge-portal's JudgePortal and the
\* budgeted backend's memoised promises), holds whatever the order of the awaits.
THEOREM PortalInvariant == Spec => []PortalInv
<1>1. Spec => Init /\ [][Next]_vars
  BY DEF Spec
<1>. QED BY <1>1, InitInv, NextKeeps, PTL

\* A caller that is told "completed" (confirm of the portal, or the coordinator's
\* answer) had its journey settled as completed by the budget service and its
\* supervisor closed cleanly, with no cancel before.
THEOREM CompletedSettles == Spec => []CompletedIsSettled
<1>1. PortalInv => CompletedIsSettled
  BY DEF PortalInv, Good, ToldOf, CompletedIsSettled
<1>. QED BY <1>1, PortalInvariant, PTL

\* A fixture reserved by JudgeMutationFixturePool belongs to one session, and no
\* session that merges is previewed or run without one.
THEOREM FixturesAreUsedOnce == Spec => []FixturesUsedOnce
<1>1. PortalInv => FixturesUsedOnce
  BY DEF PortalInv, Good, RouteOf, PortalOnly, FixtureOf, FixturesUsedOnce
<1>. QED BY <1>1, PortalInvariant, PTL

\* After close() of the portal, in the app's onClose hook, nothing is left to
\* confirm and every open launch has its supervisor's close under way.
THEOREM CloseLeavesNothing == Spec => []ClosedPortalRunsNothing
<1>1. PortalInv => ClosedPortalRunsNothing
  BY DEF PortalInv, ClosedPortalRunsNothing
<1>. QED BY <1>1, PortalInvariant, PTL
=============================================================================
