-------------------------- MODULE MCRuntimePolicy --------------------------
(***************************************************************************)
(* Policy files for TLC: two documents that pause, one that asks for the   *)
(* sticky pool, one that names a scope twice (first paused, then not), one *)
(* with an unknown scope type, a broken, an undecodable and a missing file.*)
(***************************************************************************)
EXTENDS RuntimePolicy

MCContent == {"settings", "hostPaused", "allPaused", "twice", "badType",
              "sticky", "invalid", "undecodable", "absent"}
MCForm == [c \in MCContent |->
    IF c \in {"invalid", "undecodable", "absent"} THEN c ELSE "document"]

Open == [enabled |-> TRUE, paused |-> FALSE]
Pause == [paused |-> TRUE]
Resume == [paused |-> FALSE]
Entry(type, id, policy) == [type |-> type, id |-> id, policy |-> policy]

MCDefault == [c \in MCContent |->
    CASE c = "allPaused" -> [enabled |-> FALSE, paused |-> FALSE]
      [] c = "sticky"    -> [strategy |-> "STICKY_POOL"] @@ Open
      [] OTHER           -> Open]

MCScopes == [c \in MCContent |->
    CASE c = "hostPaused" ->
            <<Entry("tier", "t", Resume), Entry("host_id", "h", Pause)>>
      [] c = "twice" ->
            <<Entry("host_id", "h", Pause), Entry("host_id", "h", Resume)>>
      [] c = "badType" -> <<Entry("url", "u", Resume)>>
      [] OTHER -> <<>>]

(* A command of the host and one of its tier only. *)
MCCommand == {[host_id |-> "h", tier |-> "t"], [tier |-> "t"]}
=============================================================================
