----------------------------- MODULE MCRequests -----------------------------
\* An instance of Requests.  The lists are made of some spellings of four
\* resources, among them one at the limit of length whose canonical form is over
\* it, and of URLs and lines that are not accepted.
EXTENDS Requests, TLC

MCPlain == [form |-> "ok", scheme |-> "http", caps |-> FALSE, secret |-> FALSE,
            host |-> "pub", port |-> NoPort, path |-> "/", extra |-> 0]
MCTls   == [MCPlain EXCEPT !.port = 443]
MCLoud  == [MCPlain EXCEPT !.caps = TRUE, !.port = 80, !.path = ""]
MCHttps == [MCPlain EXCEPT !.scheme = "https", !.path = ""]
MCBoth  == [MCPlain EXCEPT !.scheme = "https", !.port = 443, !.extra = 4]
MCEdge  == [MCPlain EXCEPT !.host = "a.long-host.x", !.path = ""]
MCOver  == [MCEdge EXCEPT !.path = "/"]
MCBlank == [MCPlain EXCEPT !.form = "blank"]
MCPriv  == [MCPlain EXCEPT !.host = "priv"]

MCSpellings == {MCPlain, MCTls, MCLoud, MCHttps, MCBoth, MCEdge, MCOver, MCBlank, MCPriv}
MCPairs     == {MCPlain, MCLoud, MCHttps, MCBoth} \X {MCPlain, MCTls, MCLoud, MCBoth}
                 \cup {<<MCEdge, MCOver>>, <<MCPlain, MCEdge>>, <<MCBlank, MCHttps>>,
                       <<MCTls, MCPriv>>}
MCTriples   == {<<MCHttps, MCPlain, MCBoth>>, <<MCLoud, MCTls, MCPlain>>,
                <<MCPlain, MCTls, MCHttps>>}
MCLists     == {<<>>} \cup {<<u>> : u \in MCSpellings} \cup MCPairs
                 \cup MCTriples \cup {Append(l, MCPlain) : l \in MCTriples}

MCChars == [t \in Schemes \cup {"other"} \cup Hosts \cup {NoHost} \cup Paths \cup {"", "/"}
              |-> Len(t)]

\* Two short headers, and one that is cut to one of them.
CONSTANTS a, b, long
MCFirst64 == [h \in {a, b, long} |-> IF h = b THEN b ELSE a]

Symmetry == Permutations(Reqs) \cup Permutations(Runs)
=============================================================================
