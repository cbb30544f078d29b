-------------------------- MODULE ScopedEnvironment --------------------------
(***************************************************************************)
(* What the local variables of a schema promise: a stack of environments,  *)
(* one per open for-loop, each a mapping of its own.  A name denotes its   *)
(* binding in the innermost environment that has one; leaving a loop       *)
(* forgets that loop's environment and nothing else.  A name may be        *)
(* declared only while no open loop has it.                                *)
(***************************************************************************)
EXTENDS Resolution, Sequences

VARIABLES
    env,     \* the open environments, outermost first
    outcome  \* the result of the last operation

envVars == <<tree, parent, env, outcome>>

Visible(n) == \E i \in DOMAIN env : n \in DOMAIN env[i]

(* The innermost open environment that binds n. *)
Innermost(n) ==
    CHOOSE i \in DOMAIN env :
        /\ n \in DOMAIN env[i]
        /\ \A j \in DOMAIN env : j > i => n \notin DOMAIN env[j]

Bind(f, n, v) == [m \in DOMAIN f \cup {n} |-> IF m = n THEN v ELSE f[m]]

Init ==
    /\ TreeInit
    /\ env = <<>>
    /\ outcome = Done

Enter ==
    /\ env' = Append(env, [n \in {} |-> 0])
    /\ outcome' = Done
    /\ UNCHANGED <<tree, parent>>

Leave ==
    /\ env # <<>>
    /\ env' = SubSeq(env, 1, Len(env) - 1)
    /\ outcome' = Done
    /\ UNCHANGED <<tree, parent>>

Declare(n, v) ==
    /\ env # <<>>
    /\ IF n \in Dotted \/ Visible(n)
         THEN outcome' = Threw /\ UNCHANGED env
         ELSE /\ env' = [env EXCEPT ![Len(env)] = Bind(@, n, v)]
              /\ outcome' = Done
    /\ UNCHANGED <<tree, parent>>

Assign(n, v) ==
    /\ IF n \in Dotted \/ ~Visible(n)
         THEN outcome' = Threw /\ UNCHANGED env
         ELSE /\ env' = [env EXCEPT ![Innermost(n)] = Bind(@, n, v)]
              /\ outcome' = Done
    /\ UNCHANGED <<tree, parent>>

Read(n) ==
    /\ outcome' = CASE n \in EnumRefs -> EnumeratorValue(n)
                    [] n \notin EnumRefs /\ Visible(n) -> Value(env[Innermost(n)][n])
                    [] OTHER -> External(n)
    /\ UNCHANGED <<tree, parent, env>>

Surroundings ==
    /\ \/ \E n \in TreeNames, d \in Data : AddNode(n, d)
       \/ \E p \in Nodes : SetParent(p)
    /\ outcome' = Done
    /\ UNCHANGED env

Next ==
    \/ Enter
    \/ Leave
    \/ \E n \in Declarable, v \in Values : Declare(n, v) \/ Assign(n, v)
    \/ \E n \in Names : Read(n)
    \/ Surroundings

Spec == Init /\ [][Next]_envVars
=============================================================================
