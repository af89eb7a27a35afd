------------------------------- MODULE MCBatch -------------------------------
(* One account of its own ("S") and one that the batch creates ("A").       *)
EXTENDS Batch

MCPositionalIds == <<"op_0", "op_1", "op_2", "op_3">>

\* The ids are trimmed but for "pay ".
MCTrim(id) == IF id = "pay " THEN "pay" ELSE id

Op(id, deps, type, src, dst, asset) ==
  [id |-> id, deps |-> deps, type |-> type, src |-> src, dst |-> dst, asset |-> asset, fits |-> TRUE]

\* Creating, trusting, paying and merging A, with and without ids, and one
\* operation with a value out of bounds that names another by its position.
MCOpSpecs ==
  {Op("pay ", {}, "payment", "", "S", "XLM"),
   Op("create", {}, "createAccount", "", "A", "XLM"),
   Op("trust", {}, "changeTrust", "A", "", "USD"),
   Op("pay", {}, "payment", "", "A", "USD"),
   Op(Unset, {"pay"}, "payment", "A", "S", "XLM"),
   Op("merge", {}, "accountMerge", "A", "S", ""),
   Op("data", {"merge"}, "manageData", "", "", ""),
   [Op("back", {"op_0"}, "payment", "A", "B", "XLM") EXCEPT !.fits = FALSE]}
==============================================================================
