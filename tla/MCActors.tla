------------------------------ MODULE MCActors ------------------------------
EXTENDS Actors, TLC

One == CHOOSE c \in Callers : TRUE

(* One caller has the others' commands in Env's box to meet with its calls. *)
Mixed == [c \in Callers |->
  IF c = One THEN {<<"exec", Agent>>, <<"wake", Env>>, <<"sleep", Env>>,
                   <<"create", Env>>, <<"delete", Env>>, <<"restore", Env>>}
             ELSE {<<"exec", Env>>, <<"job", Env>>}]
(* A job in Env's box, meeting restores, which stop it, and commands in the *)
(* agent box, which a restore stops too.                                    *)
Meeting == [c \in Callers |->
  IF c = One THEN {<<"job", Env>>} ELSE {<<"restore", Env>>, <<"exec", Agent>>}]

Symmetry == Permutations(Actors)
=============================================================================
