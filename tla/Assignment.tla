----------------------------- MODULE Assignment -----------------------------
(***************************************************************************)
(* Admission of one assignment (schemas/ai_employee/assignment.py): an     *)
(* authority grant, a short-lived status of the grant, and the assignment  *)
(* that pins both by digest.                                               *)
(*                                                                         *)
(* A digest is the record it is taken of: two records have one digest only *)
(* when they are equal.  The parties are external: an issuer that grants   *)
(* and revokes, a checker that observes the revocation at the time it      *)
(* states, a caller that asks for admission; the code is the constructors  *)
(* and the validations.                                                    *)
(***************************************************************************)
EXTENDS Integers, FiniteSets

CONSTANTS Works,      \* whose work it is and what for: employee, tenant, principal,
                      \* context class, purpose and data class
          Scopes,     \* what grants enumerate: their work, kind, references, classes
          Places,     \* workspaces and systems
          Bans,       \* sets of action classes an assignment prohibits
          StatusId,   \* artifact_id of the status among the inputs
          None,
          StatusLife, \* longest life the checker gives a status
          MaxNow      \* bound: last tick of the clock

\* What the constants are; the theorems assume it.
Assumption ==
  /\ StatusLife \in Nat
  /\ MaxNow \in Nat
  /\ None \notin Nat

VARIABLES now,       \* datetime.now(), to the tick
          revoked,   \* when the issuer revoked the grant, or None
          grant,     \* the grant in force, or None
          statuses,  \* statuses the checker has written
          assigned   \* the assignment under way, or None

vars == << now, revoked, grant, statuses, assigned >>

Moments == 0..MaxNow

-----------------------------------------------------------------------------
\* The constructors, which a record read back (from_dict) passes as well.
\* _check_window: a record expires after it is issued.
Window(from, to) == from < to

\* AuthorityGrant.__post_init__: something is granted, approvals are among the
\* allowed classes, and no class is both allowed and prohibited.
GrantOK(g) ==
  /\ g.reads \cup g.writes # {}
  /\ g.allowed # {}
  /\ g.approvals \subseteq g.allowed
  /\ g.allowed \cap g.prohibited = {}
  /\ Window(g.issued, g.expires)

\* AssignmentInputReference.__post_init__: it may expire as it is observed.
InputOK(i) == i.observed <= i.expires

\* AuthorityStatus.__post_init__; the receipt of a revocation goes with it.
StatusOK(s) == Window(s.checked, s.expires)

\* AssignmentEnvelope.__post_init__: every input is for this work, was observed
\* before the assignment was issued and outlives it; no artifact comes twice.
AssignmentOK(a) ==
  /\ Window(a.issued, a.expires)
  /\ a.inputs # {}
  /\ \A i, j \in a.inputs : i.artifact = j.artifact => i = j
  /\ \A i \in a.inputs : /\ InputOK(i)
                         /\ i.work = a.work
                         /\ i.observed <= a.issued
                         /\ a.expires <= i.expires
  /\ a.workspaces # {} /\ a.systems # {} /\ a.prohibited # {}

\* validate_active and is_expired: the deadline is exclusive.
Active(a, t) == a.issued <= t /\ t < a.expires

IsExpired(a, t) == t >= a.issued /\ t >= a.expires

\* validate_authority_grant: the grant is the pinned one, made for this
\* assignment and its work, and the assignment asks for nothing beyond it.
WithinGrant(a, g) ==
  /\ a.grantDigest = g
  /\ g.kind = "assignment"
  /\ g.work = a.work
  /\ { i.artifact : i \in a.inputs } \subseteq g.reads
  /\ a.workspaces \subseteq g.writes
  /\ a.systems \subseteq g.reads \cup g.writes
  /\ g.prohibited \subseteq a.prohibited
  /\ g.allowed # {}
  /\ g.issued <= a.issued
  /\ a.expires <= g.expires

\* Bug: a status holds for good once it was checked.
CheckedOnce(s, g, t) == g.issued <= s.checked /\ s.checked <= t

\* The status is not older than the grant, not from the future and not over.
Current(s, g, t) ==
  /\ g.issued <= s.checked
  /\ s.checked <= t
  /\ t < s.expires

\* validate_authority_status, in which the status is an input of the assignment.
Admits(a, g, s, t) ==
  /\ { i \in a.inputs : i.artifact = StatusId } # {}
  /\ \A i \in a.inputs : i.artifact = StatusId => i.digest = s
  /\ Active(a, t)
  /\ WithinGrant(a, g)
  /\ s.grantDigest = a.grantDigest
  /\ Current(s, g, t)
  /\ ~s.revoked

-----------------------------------------------------------------------------
Init ==
  /\ now = 0
  /\ revoked = None
  /\ grant = None
  /\ statuses = {}
  /\ assigned = None

Tick ==
  /\ now < MaxNow
  /\ now' = now + 1
  /\ UNCHANGED << revoked, grant, statuses, assigned >>

\* External: the issuer writes the grant, which may start later.
Grant ==
  /\ grant = None
  /\ \E issued, expires \in Moments, scope \in Scopes :
       /\ issued >= now
       /\ grant' = [work |-> scope.work, kind |-> scope.kind, reads |-> scope.reads,
                    writes |-> scope.writes,
                    allowed |-> scope.allowed, approvals |-> scope.approvals,
                    prohibited |-> scope.prohibited,
                    issued |-> issued, expires |-> expires]
       /\ GrantOK(grant')
  /\ UNCHANGED << now, revoked, statuses, assigned >>

\* External: the issuer withdraws the grant at its revocation_ref.
Revoke ==
  /\ grant # None
  /\ revoked = None
  /\ revoked' = now
  /\ UNCHANGED << now, grant, statuses, assigned >>

\* External: the checker observes the grant as it is now.  Bound: two statuses.
Observe ==
  /\ grant # None
  /\ Cardinality(statuses) < 2
  /\ \E expires \in now + 1..now + StatusLife :
       LET s == [grantDigest |-> grant, checked |-> now, expires |-> expires,
                 revoked |-> revoked # None]
       IN  StatusOK(s) /\ statuses' = statuses \cup {s}
  /\ UNCHANGED << now, revoked, grant, assigned >>

\* External: the operator writes an assignment that pins a grant and a status.
Assign ==
  /\ assigned = None
  /\ \E s \in statuses, issued, expires \in Moments, last \in {now, MaxNow},
        workspaces, systems \in SUBSET Places, ban \in Bans, work \in Works :
       /\ assigned' =
            [work |-> work, grantDigest |-> grant, issued |-> issued, expires |-> expires,
             inputs |-> {[artifact |-> StatusId, digest |-> s, work |-> work,
                          observed |-> s.checked, expires |-> last]},
             workspaces |-> workspaces, systems |-> systems, prohibited |-> ban]
       /\ AssignmentOK(assigned')
  /\ UNCHANGED << now, revoked, grant, statuses >>

Next == Tick \/ Grant \/ Revoke \/ Observe \/ Assign

Spec == Init /\ [][Next]_vars

-----------------------------------------------------------------------------
\* Work is admitted now under some status.
Admitted ==
  /\ assigned # None
  /\ \E s \in statuses : Admits(assigned, grant, s, now)

\* Work never outlasts its authority: it is admitted only inside the window of
\* the grant, and no later than one life of a status after the grant was
\* revoked, although the assignment pins a status written before the revocation
\* and can never take up a newer one (validate_authority_status).
WorkEndsWithItsAuthority ==
  Admitted =>
    /\ assigned.work = grant.work
    /\ grant.issued <= now /\ now < grant.expires
    /\ revoked # None => now < revoked + StatusLife
    /\ ~IsExpired(assigned, now)
=============================================================================
