---------------------------- MODULE MCDeployment ----------------------------
(***************************************************************************)
(* A server, two migration runners and two migrations.  The configurations *)
(* are the default with every combination of TLS settings, every Redis     *)
(* topology with and without a master name, and one setting at a time at   *)
(* or over the edge of what is accepted.                                   *)
(***************************************************************************)
EXTENDS Deployment

Edges ==
    [log |-> {"trace"}, addr |-> {FALSE}, url |-> {"empty", "bad", "odd"},
     read |-> {0}, write |-> {0}, idle |-> {0}, shutdown |-> {0}, request |-> {0},
     proxies |-> {{"cidr", ""}, {"malformed"}},
     mode |-> {"other"}, nodes |-> {0, 2}, nodesOk |-> {FALSE},
     cost |-> {3, 32}, sessionIdle |-> {0, 43201}, sessionAbsolute |-> {0},
     sessionCookie |-> {"", "devopsbin_csrf"}, csrfCookie |-> {""},
     resetTTL |-> {0}, loginWindow |-> {0}, maxAttempts |-> {0}, lockTTL |-> {0},
     limit |-> {0}, window |-> {0}]

MCConfigs ==
    {[Default EXCEPT !.cert = a, !.key = b, !.ca = d] : a, b, d \in BOOLEAN}
    \cup {[Default EXCEPT !.mode = m, !.master = b, !.nodes = n] :
            m \in {"standalone", "cluster", "sentinel"}, b \in BOOLEAN, n \in {1, 2}}
    \cup {[Default EXCEPT !.mode = "cluster", !.db = 1]}
    \cup UNION {{[Default EXCEPT ![f] = v] : v \in Edges[f]} : f \in DOMAIN Edges}
=============================================================================
