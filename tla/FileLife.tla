-------------------------------- MODULE FileLife --------------------------------
(***************************************************************************)
(* FileLife: what storing pictures promises.  A file is written under a    *)
(* name nobody has used, may then be named by rows of the database, and is *)
(* removed only when no row names it; a removed file never comes back.  It *)
(* promises nothing more of a file whose path an operator has typed.       *)
(***************************************************************************)
CONSTANT Files  \* the names a file may get

VARIABLE life   \* life[f]: where file f is in its life

\* "loose": on disk, and no row names it.
\* "typed": an operator has typed its path into an order.
Life == {"unused", "loose", "named", "removed", "typed"}

Init == life = [f \in Files |-> "unused"]

\* The steps of one file; the request that drops a file may name another with
\* the same statement.
LifeSteps == {<<"unused", "loose">>, <<"loose", "named">>, <<"named", "loose">>,
              <<"loose", "removed">>}
             \cup {"loose", "named", "removed"} \X {"typed"}

Next ==
  /\ life' \in [Files -> Life]
  /\ \A f \in Files : life'[f] = life[f] \/ <<life[f], life'[f]>> \in LifeSteps

Spec == Init /\ [][Next]_life
=============================================================================
