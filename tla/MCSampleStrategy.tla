-------------------------- MODULE MCSampleStrategy --------------------------
(* Four rows; parameters that are reset among all, plain and balanced bags, *)
(* with a pointer to the bag and with a copy of its rows, and GOSS.         *)
EXTENDS SampleStrategy

Config(choose, cnt, freq, start) ==
  [choose |-> choose, cnt |-> cnt, freq |-> freq, start |-> start]
All      == Config("all", NumData, 0, 0)
Plain(cnt, freq)    == Config("plain", cnt, freq, 0)
Balanced(cnt, freq) == Config("balanced", cnt, freq, 0)
Sampled(cnt, start) == Config("goss", cnt, 0, start)

Setup(strategy, narrow, byQuery, configs) ==
  [strategy |-> strategy, narrow |-> narrow, byQuery |-> byQuery, configs |-> configs]

\* By query, each row is a query of its own.
MCSetups ==
  {Setup("bagging", TRUE, FALSE, {All, Plain(2, 1), Plain(2, 2), Balanced(2, 2)}),
   Setup("bagging", TRUE, FALSE, {All, Plain(3, 1), Plain(2, 1)}),
   Setup("bagging", FALSE, FALSE, {All, Plain(3, 2), Balanced(2, 2)}),
   Setup("bagging", TRUE, TRUE, {Plain(2, 1), Plain(3, 1)}),
   Setup("goss", TRUE, FALSE, {Sampled(3, 0), Sampled(3, 2)}),
   Setup("goss", TRUE, FALSE, {Sampled(2, 0), Sampled(2, 2)})}
=============================================================================
