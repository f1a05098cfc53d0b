--------------------------- MODULE MCHandleCalls ---------------------------
(* The platform's threads for the instance of HandleCalls that TLC checks: *)
(* one for the activity and its screens, one for the radios' callbacks and *)
(* one worker. Every call of the module is made by at least one of them.   *)
EXTENDS HandleCalls

ThreadSet == {"ui", "radio", "worker"}
NearbyIds == {"bob"}

CallsOf == [t \in ThreadSet |->
    CASE t = "ui" -> {"suspend", "resume", "shutdown", "enroll", "attach_nan",
                      "attach_ble", "discover", "infra_addr", "set_strategy",
                      "open_board", "offers", "fetch_to_fd", "client_hinted"}
      [] t = "radio" -> {"nan_deliver", "nan_match", "ble_deliver", "bob", "self",
                         "infra_addr", "infra_socket", "discover", "attach_nan",
                         "detach"}
      [] t = "worker" -> {"fetch", "fetch_hinted", "fetch_to_fd", "serve",
                          "subscribe", "offers", "bulk_face", "relay", "client_fetch",
                          "client_hinted", "client_to_fd", "client_serve",
                          "client_offers", "console"}]
=============================================================================
