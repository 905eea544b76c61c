---------------------------- MODULE MCRunConsole ----------------------------
(* Four small instances side by side: two watchers of a run and its registry      *)
(* alone, with a restart; a console that moves between two runs, with one lost    *)
(* connection; one that stays with a run through two; and the inventory page,     *)
(* which meets none of them.  Streams are alike, so a console opens them in one   *)
(* order, in place of a SYMMETRY.                                                 *)
EXTENDS RunConsole, InventoryPage

CONSTANTS r1, r2, w1, w2, w3, ok

VARIABLE part
mcVars == <<allVars, inventoryVars, part>>

MCInit ==
  /\ ConsoleInit /\ runOf = [w \in Watch |-> r1]
  /\ InventoryPageInit
  /\ \/ part \in {"watchers", "moves", "drops"} /\ stored.deviceGroups = [p \in Pair |-> 0]
     \/ part = "inventory"

InOrder ==
  /\ conn[w2] # "unused" => conn[w1] # "unused"
  /\ conn[w3] # "unused" => conn[w2] # "unused"

Watchers == Next /\ UNCHANGED consoleVars /\ watch'[w3] = "free"

Console ==
  /\ ConsoleNext /\ InOrder'
  /\ crashes' = 0
  /\ \A r \in Run : Len(collected'[r]) <= 1 /\ result'[r] \in {ok, None}

Runs ==
  /\ IF part = "watchers" THEN Watchers ELSE Console
  /\ part = "moves" => conn'[w3] = "unused" /\ drops' <= 1
  /\ part # "moves" => /\ exec'[r2] = "idle"
                      /\ \A w \in Watch : runOf'[w] = r1

MCNext ==
  /\ UNCHANGED part
  /\ \/ part # "inventory" /\ Runs /\ UNCHANGED inventoryVars
     \/ part = "inventory" /\ InventoryPageNext /\ UNCHANGED allVars

MCSpec == MCInit /\ [][MCNext]_mcVars
=============================================================================
