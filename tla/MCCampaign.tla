------------------------------ MODULE MCCampaign ------------------------------
(***************************************************************************)
(* A lure whose source may name a group, a sibling that carries the same   *)
(* loader and is found only through it, and a changed fork of a red-team   *)
(* tool whose own scripts open a shell and fetch from the lure's host, and *)
(* which publishes a package of the incident manifest.                     *)
(***************************************************************************)
EXTENDS Campaign

At(file, rule, hosts, marks, stub) ==
  [file |-> file, rule |-> rule, hosts |-> hosts, marks |-> marks,
   pkg |-> "none", stub |-> stub]

Autorun == At("tasks.json", <<"install_hook", "vscode-autorun">>, {"c2"}, {}, "none")
Loader  == At("config.js", <<"obfuscation", "eval-decoded">>, {}, {"hidden"}, "loader")
Shell   == At("tool.sh", <<"reverse_shell", "nc-exec">>, {}, {}, "none")
Fetch   == At("setup.sh", <<"download_exec", "curl-pipe-shell">>, {"c2"}, {}, "none")

MCFiles == {"tasks.json", "config.js", "tool.sh", "setup.sh", "vendor.js"}
MCReadBy == [f \in MCFiles |->
  CASE f = "tasks.json" -> {"manifest"}
    [] f = "config.js"  -> {"content"}
    [] f = "vendor.js"  -> {"content"}
    [] OTHER            -> {"bash"}]
MCHostClass == [h \in {"c2"} |-> "throwaway"]

MCRepos == {"lure", "sibling", "fork"}
MCLines == [r \in MCRepos |->
  IF r = "fork" THEN {Shell, Fetch} ELSE {Autorun, Loader}]
MCMentions == [r \in MCRepos |-> {"c2"}]
MCPublishes == [r \in MCRepos |-> IF r = "fork" THEN {"pkg"} ELSE {}]
MCRelation == [r \in MCRepos |-> IF r = "fork" THEN "fork" ELSE "none"]
MCAdded == [r \in MCRepos |-> IF r = "fork" THEN {"config.js"} ELSE {}]
MCNamed == [r \in MCRepos |-> IF r = "lure" THEN {"lazarus group"} ELSE {"none"}]
CONSTANTS h1, h2
MCSandboxed == [h \in Hunts |-> IF h = h1 THEN {TRUE, FALSE} ELSE {FALSE}]
MCFed == [h \in Hunts |-> IF h = h1 THEN {"lure", "fork"} ELSE {"lure"}]
MCOrigin == [a \in {"lazarus group"} |-> "North Korea"]

=============================================================================
