----------------------------- MODULE MCServerSync ---------------------------
(***************************************************************************)
(* Small instances of ServerSync, of two kinds that share no state: one of *)
(* a server the app manages for DNS records and upstreams, and one of a    *)
(* server it manages for filter lists and blocked services, with fewer     *)
(* faults and the periodic pass only.  Two values of a kind are enough for *)
(* the box to have one the plan wants and one it does not.  A server of the*)
(* first kind may be on a host with an agent, with one fault or a manual   *)
(* pass then.                                                              *)
(***************************************************************************)
EXTENDS ServerSync

VARIABLE manages   \* the kind of the instance, "dns" or "filtering"

Managed ==
  IF manages = "dns"
    THEN /\ "filtering" \notin wanted.flags
         /\ wanted.filters = Nothing.filters /\ wanted.services = {}
         /\ box.filters = Unseen.filters /\ box.services = {} /\ ~box.engine
         /\ row.role # "none" => requests + faults <= 1
    ELSE /\ "upstreams" \notin wanted.flags
         /\ wanted.rewrites = {} /\ wanted.lists = Nothing.lists
         /\ box.rewrites = {} /\ box.lists = Unseen.lists
         /\ requests = 0 /\ faults <= 1
         /\ row.role = "none"

MCInit == Init /\ manages \in {"dns", "filtering"} /\ Managed
MCNext == Next /\ UNCHANGED manages /\ Managed'
MCSpec == MCInit /\ [][MCNext]_<<vars, manages>> /\ Fairness
=============================================================================
