----------------------------- MODULE MCStartup -----------------------------
(* Files of up to three lines, out of valid and invalid items for every    *)
(* key; the four items of a cluster client in every order; and the command *)
(* lines that take different ways through main().                          *)
EXTENDS Startup

Item(k, v, nl) == [kind |-> "item", key |-> k, value |-> v, newline |-> nl]

MCLines ==
    {[kind |-> k] : k \in {"comment", "blank", "bad"}}
    \cup {Item("local_sequence_number", n, TRUE) : n \in {0, 6, 12}}
    \cup {Item("client_scale", n, TRUE) : n \in {1, 12}}
    \cup {Item("server_port_base", n, TRUE) : n \in {65534, 65536}}
    \cup {Item("cluster_mode", w, TRUE) : w \in {"client", "server", "slave"}}
    \cup {Item("daemon_mode", w, TRUE) : w \in {"on", "off"}}
    \cup {Item("working_mode", "webserver", TRUE),
          Item("pid_file", "file", TRUE), Item("unknown", "x", TRUE)}

\* Lines that may stand last without a '\n'
MCLast == {Item("client_scale", 12, FALSE), Item("client_scale", 1, FALSE),
           Item("cluster_mode", "client", FALSE),
           Item("database_repo", "path", FALSE)}

MCClusterFiles ==
    {<<Item("cluster_mode", "client", TRUE), Item("server_port_base", b, TRUE),
       Item("local_sequence_number", n, TRUE), Item("client_scale", s, TRUE)>> :
          b \in {5002, 65534}, n \in {1, 2, 6}, s \in {1, 5, 6}}

Reordered(f) ==
    {[k \in DOMAIN f |-> f[p[k]]] :
        p \in {q \in [DOMAIN f -> DOMAIN f] : Cardinality({q[k] : k \in DOMAIN f}) = 4}}

MCFiles ==
    LET short == UNION {[1..n -> MCLines] : n \in 0..2}
        long == {Append(f, l) : f \in {g \in short : Len(g) = 2},
                                l \in MCLines \cup MCLast}
    IN short \cup long \cup UNION {Reordered(f) : f \in MCClusterFiles}

MCCommands == {<<>>, <<"-d">>, <<"-f", "-p">>, <<"-s">>, <<"-c", "-s">>, <<"-w">>}
=============================================================================
