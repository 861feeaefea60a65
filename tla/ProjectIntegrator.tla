-------------------------- MODULE ProjectIntegrator -------------------------
(***************************************************************************)
(* The single writer of a project's target branch                           *)
(* (scripts/server_git_integrator.py): proposals bind a candidate commit to *)
(* the base it was validated on and to a review decision; apply_local fast- *)
(* forwards the branch to an approved candidate and push publishes the      *)
(* branch, each under a file lock and each as a git step followed by the    *)
(* write of the proposal.  An integrator may die between any two steps, and *)
(* people commit to the branch and to its origin without the lock.          *)
(***************************************************************************)
EXTENDS Naturals, FiniteSets

CONSTANTS
    Commits,        \* the commits that may come to exist
    RootCommit,     \* the commit both branches start from
    ParentOf,       \* the parent of every other commit
    Reviews,        \* review decisions, "approve" among them
    ByHand,         \* the commits people make on the branch or its origin
    Integrators     \* processes that run the integrator

\* A commit is made after its parent, and nobody makes the first one again.
ASSUME CommitAssumption ==
    /\ RootCommit \in Commits /\ IsFiniteSet(Commits)
    /\ ParentOf \in [Commits \ {RootCommit} -> Commits]
    /\ \E made \in [Commits -> 0..Cardinality(Commits)] :
          \A c \in Commits \ {RootCommit} : made[ParentOf[c]] < made[c]
    /\ ByHand \subseteq Commits \ {RootCommit}

VARIABLES
    local,      \* the head of the target branch
    origin,     \* the head of its remote
    proposal,   \* the status in each proposal's file
    call        \* what an integrator is doing, and to which proposal

integratorVars == <<local, origin, proposal, call>>

Lineage[c \in Commits] ==
    {c} \cup (IF c = RootCommit THEN {} ELSE Lineage[ParentOf[c]])

IsAncestor(a, b) == a \in Lineage[b]

\* A proposal's file is named by what must not change, its review included.
Proposals == [base : Commits, candidate : Commits \ ByHand,
              review : Reviews]

NoCall == [at |-> "idle"]

IntegratorInit ==
    /\ local = RootCommit
    /\ origin = RootCommit
    /\ proposal = [p \in Proposals |-> "none"]
    /\ call = [i \in Integrators |-> NoCall]

\* flock: from the first check of apply_local and push to the last write.
LockFree == \A i \in Integrators : call[i].at \in {"idle", "propose"}

Enter(i, place, p) ==
    /\ call[i] = NoCall
    /\ call' = [call EXCEPT ![i] = [at |-> place, of |-> p]]

GoTo(i, place) == call' = [call EXCEPT ![i].at = place]
Leave(i) == call' = [call EXCEPT ![i] = NoCall]

Of(i) == call[i].of

-----------------------------------------------------------------------------
\* propose: the base must be the head, which is read before the lock is taken.
Propose(i, p) ==
    /\ p.base = local
    /\ p.candidate # p.base
    /\ IsAncestor(p.base, p.candidate)
    /\ Enter(i, "propose", p)
    /\ UNCHANGED <<local, origin, proposal>>

\* Proposing again keeps the file as it is.
WriteProposal(i) ==
    /\ call[i].at = "propose" /\ LockFree
    /\ proposal' = [proposal EXCEPT ![Of(i)] = IF @ = "none" THEN "proposed" ELSE @]
    /\ Leave(i)
    /\ UNCHANGED <<local, origin>>

\* apply_local, up to the merge; a dirty worktree keeps it from being called.
MutApplyLocal(i, p) ==
    /\ LockFree
    /\ proposal[p] = "proposed"
    /\ local = p.base
    /\ Enter(i, "merge", p)
    /\ UNCHANGED <<local, origin, proposal>>

ApplyLocal(i, p) ==
    /\ LockFree
    /\ proposal[p] = "proposed"
    /\ p.review = "approve"
    /\ local = p.base
    /\ Enter(i, "merge", p)
    /\ UNCHANGED <<local, origin, proposal>>

\* git merge --ff-only: the branch may have moved since it was checked.
Merge(i) ==
    /\ call[i].at = "merge"
    /\ \/ /\ IsAncestor(local, Of(i).candidate)
          /\ local' = Of(i).candidate
          /\ GoTo(i, "merged")
       \/ /\ IsAncestor(Of(i).candidate, local) /\ local # Of(i).candidate
          /\ UNCHANGED local
          /\ GoTo(i, "merged")
       \/ /\ ~IsAncestor(local, Of(i).candidate) /\ ~IsAncestor(Of(i).candidate, local)
          /\ UNCHANGED local
          /\ Leave(i)
    /\ UNCHANGED <<origin, proposal>>

\* The head must be the candidate by now.
RecordApplied(i) ==
    /\ call[i].at = "merged"
    /\ proposal' = IF local = Of(i).candidate
                   THEN [proposal EXCEPT ![Of(i)] = "applied"]
                   ELSE proposal
    /\ Leave(i)
    /\ UNCHANGED <<local, origin>>

\* push, up to git's own: approved, applied, and the head still the applied commit.
Push(i, p) ==
    /\ LockFree
    /\ proposal[p] = "applied"
    /\ local = p.candidate
    /\ Enter(i, "push", p)
    /\ UNCHANGED <<local, origin, proposal>>

\* git push: the branch as it is now, if that is a fast-forward of the remote.
GitPush(i) ==
    /\ call[i].at = "push"
    /\ IF IsAncestor(origin, local)
       THEN origin' = local /\ GoTo(i, "pushed")
       ELSE UNCHANGED origin /\ Leave(i)
    /\ UNCHANGED <<local, proposal>>

\* The remote is out of reach, or its answer is lost.
GitPushFails(i) ==
    /\ call[i].at = "push"
    /\ \/ UNCHANGED origin
       \/ IsAncestor(origin, local) /\ origin' = local
    /\ Leave(i)
    /\ UNCHANGED <<local, proposal>>

RecordPushed(i) ==
    /\ call[i].at = "pushed"
    /\ proposal' = [proposal EXCEPT ![Of(i)] = "pushed"]
    /\ Leave(i)
    /\ UNCHANGED <<local, origin>>

IntegratorDies(i) ==
    /\ call[i] # NoCall
    /\ Leave(i)
    /\ UNCHANGED <<local, origin, proposal>>

\* People: a commit on the branch, or a commit pushed by someone else.
CommitByHand(c) ==
    /\ ParentOf[c] = local
    /\ local' = c
    /\ UNCHANGED <<origin, proposal, call>>

UpstreamByHand(c) ==
    /\ ParentOf[c] = origin
    /\ origin' = c
    /\ UNCHANGED <<local, proposal, call>>

IntegratorNext ==
    \/ \E c \in ByHand : CommitByHand(c) \/ UpstreamByHand(c)
    \/ \E i \in Integrators :
         \/ \E p \in Proposals : Propose(i, p) \/ ApplyLocal(i, p) \/ Push(i, p)
         \/ WriteProposal(i) \/ Merge(i) \/ RecordApplied(i)
         \/ GitPush(i) \/ GitPushFails(i) \/ RecordPushed(i) \/ IntegratorDies(i)

IntegratorSpec == IntegratorInit /\ [][IntegratorNext]_integratorVars

-----------------------------------------------------------------------------
\* A worker's commit is reviewed as part of a proposal that was written, with
\* the branch where the proposal says it was.
Reviewed(c) ==
    \E p \in Proposals : /\ proposal[p] # "none" /\ p.review = "approve"
                         /\ c \in Lineage[p.candidate] \ Lineage[p.base]

\* Whatever integrators race or die and whoever commits beside them, the
\* remote's history holds only reviewed commits and those people made, and a
\* proposal's file never claims more than git did.
OriginIsReviewed ==
    /\ \A c \in Lineage[origin] \ (ByHand \cup {RootCommit}) : Reviewed(c)
    /\ \A p \in Proposals :
         /\ proposal[p] = "applied" => IsAncestor(p.candidate, local)
         /\ proposal[p] = "pushed" => IsAncestor(p.candidate, origin)
=============================================================================
