---------------------------- MODULE MCKernelNet ----------------------------
(* Instances of KernelNet for TLC: kernels a, b, c and a customer x of a.  *)
EXTENDS KernelNet, TLC

CONSTANTS a, b, c, x

NetEnds ==
  ("ab" :> {a, b}) @@ ("ab2" :> {a, b}) @@ ("bc" :> {b, c}) @@ ("ac" :> {a, c})
  @@ ("ax" :> {a, x})

World(links, breakable, threads, destinations, silent) ==
  [links |-> links, breakable |-> breakable, threads |-> threads,
   destinations |-> destinations, silent |-> silent]

(* Two kernels and a customer, all links may break, with one thread and    *)
(* with two; three kernels in a row; two kernels with two links.           *)
NetWorlds ==
  {World({"ab", "ax"}, {"ab", "ax"}, 1, {x}, {c}),
   World({"ab", "ax"}, {"ab", "ax"}, 2, {}, {c}),
   World({"ab", "bc", "ax"}, {}, 1, {}, {}),
   World({"ab", "ab2"}, {}, 1, {}, {c})}

(* Two kernels with two links; a third connects to one of them and goes.   *)
StormWorlds == {World({"ab", "ab2", "ac"}, {"ac"}, 1, {}, {c})}

=============================================================================
