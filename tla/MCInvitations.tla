---------------------------- MODULE MCInvitations ----------------------------
(* Model values, symmetry and view for InvitationPages. *)
EXTENDS InvitationPages

CONSTANTS i1, i2, g1, g2, owner

Symmetry == Permutations({i1, i2}) \cup Permutations({g1, g2})

\* Counts that are wrong already are the same state whatever they are: only
\* counting again ends that, and it overwrites them.  So are the counts seen by
\* a handler that does not have them for itself, which never ends it.
CountsHidden(i) ==
  LET counts == invitation[i].counts
  IN  [guests |-> IF <<i, "guests">> \in drift THEN 0 ELSE counts.guests,
       opens |-> IF <<i, "stats">> \in drift THEN 0 ELSE counts.opens,
       responses |-> IF <<i, "stats">> \in drift THEN NoCounts.responses ELSE counts.responses]

View ==
  <<[i \in Invites |-> [invitation[i] EXCEPT !.counts = CountsHidden(i)]], recipient, object, drift,
    [c \in Callers |-> [call[c] EXCEPT !.seen = IF call[c].alone THEN @ ELSE NoCounts]], scope, tab>>
=============================================================================
