----------------------------- MODULE MCBooster -----------------------------
(***************************************************************************)
(* Booster for TLC.  The setups are the ways to use a booster for which    *)
(* the code keeps what it promises; the README says what goes wrong beyond *)
(* them.                                                                   *)
(***************************************************************************)
EXTENDS Booster

CONSTANTS t1, t2, t3, f1

Do(op) == [op |-> op, type |-> "normal", start |-> 0, num |-> -1, handle |-> f1]
Of(type, op) == [Do(op) EXCEPT !.type = type]
Ranged(s, n, op) == [Do(op) EXCEPT !.start = s, !.num = n]

Setup(rounds, most, c1, c2, c3) ==
  [rounds |-> rounds, most  |-> (t1 :> most[1]) @@ (t2 :> most[2]) @@ (t3 :> most[3]),
   calls |-> (t1 :> c1) @@ (t2 :> c2) @@ (t3 :> c3)]

Ranges(op) == {Ranged(s, n, op) : s \in {-1, 0, 1, 3}, n \in {-1, 1, 2}}
Fewer(op)  == {Ranged(1, 1, op), Ranged(0, 1, op), Ranged(1, 2, op)}

\* Batches over the whole model while others change it in every way.
Batches == Setup(1, <<1, 2, 1>>, {Do("predict"), Of("leaf", "predict")},
                    {Do(op) : op \in Changes}, {Do("predict"), Do("train"), Do("rollback")})

\* Single rows over the whole model while another thread trains.
Growing == Setup(1, <<2, 2, 1>>, {Do("single")}, {Do("train"), Do("predict")}, {Do("single"), Do("predict")})

\* Single rows over the whole model while its leaves or their order change.
Steady == Setup(2, <<2, 1, 1>>, {Do("single"), Of("leaf", "single")},
                   {Do(op) : op \in {"shuffle", "set leaf", "refit"}}, {Do("predict")})

\* Every kind of prediction of a model that is ready.
Serving == Setup(2, <<2, 1, 1>>, {Do("fast init"), Do("fast"), Do("save")},
                    {Of(y, "predict") : y \in Types} \cup {Do("fast")},
                    {Of(y, "single") : y \in Types} \cup {Do("fast")})

\* One thread: any range, any change, one call after another.
Alone == Setup(2, <<4, 0, 0>>, Ranges("predict") \cup Fewer("save") \cup {Do(op) : op \in Changes}
                   \cup {Ranged(1, -1, "shuffle")}
                   \cup {Of("leaf", "predict"), [Ranged(1, 1, "predict") EXCEPT !.type = "leaf"]},
                  {}, {})

Usual == {Batches, Growing, Steady, Serving, Alone}
=============================================================================
