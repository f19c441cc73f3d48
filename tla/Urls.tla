-------------------------------- MODULE Urls --------------------------------
(***************************************************************************)
(* services/urls.py and the validators of models.RunRequest: which lists   *)
(* of URLs are accepted, and the list of canonical URLs a run works on.    *)
(*                                                                         *)
(* A URL is split into the parts that canonicalise() tells apart.  `caps'  *)
(* says that the scheme or the host is written with capitals; a query is   *)
(* kept as it is and is left out.  What is found by looking at characters  *)
(* or addresses is a property of the URL (`form') or of its host.  Its     *)
(* length is that of its parts and of what is written but not kept         *)
(* (`extra').                                                              *)
(***************************************************************************)
EXTENDS Integers, Sequences, Functions, FiniteSets

CONSTANTS
  Hosts,       \* host names and addresses, in lower case
  Private,     \* those that _check_host_is_public refuses
  NoHost,      \* for a URL without one
  Paths,       \* paths other than "" and "/"
  Chars,       \* the length of each scheme, host and path
  MaxUrls,     \* config.max_urls_per_run
  MaxUrlChars  \* config.max_url_chars

Schemes == {"http", "https"}    \* ALLOWED_SCHEMES
NoPort  == 0                    \* parts.port is None; ports are positive here

ASSUME UrlAssumption ==
  /\ Private \subseteq Hosts /\ NoHost \notin Hosts
  /\ Chars \in [Schemes \cup {"other"} \cup Hosts \cup {NoHost} \cup Paths \cup {"", "/"} -> Nat]
  /\ Chars["/"] = Chars[""] + 1
  /\ MaxUrls \in Nat /\ MaxUrlChars \in Nat

Url == [form     : {"ok", "blank", "malformed"},
        scheme   : Schemes \cup {"other"},
        caps     : BOOLEAN,
        secret   : BOOLEAN,               \* embedded credentials
        host     : Hosts \cup {NoHost},
        port     : Nat,
        path     : Paths \cup {"", "/"},
        extra    : Int]                   \* a fragment, zeros before the port, a lone
                                          \* "?"; below 0 if lower() makes the host longer

DefaultPort(scheme) == IF scheme = "http" THEN 80 ELSE 443

\* Digits of a port, with its colon.
PortChars(port) ==
  IF port = NoPort THEN 0 ELSE 1 + Cardinality({d \in {1, 10, 100, 1000, 10000} : d <= port})

\* len(url), of the URL as it is written.
Length(u) ==
  Chars[u.scheme] + 3 + Chars[u.host] + PortChars(u.port) + Chars[u.path] + u.extra

TooLong(u) == Length(u) > MaxUrlChars

\* Whether canonicalise() raises UrlRejected.
Rejected(u) ==
  \/ u.form # "ok"
  \/ TooLong(u)
  \/ u.scheme \notin Schemes
  \/ u.secret
  \/ u.host \notin Hosts \ Private

\* Mutated form of Canonicalise: any well-known port is dropped.
CanonicaliseAnyPort(u) ==
  [u EXCEPT !.caps  = FALSE,
            !.port  = IF @ \in {80, 443} THEN NoPort ELSE @,
            !.path  = IF @ = "" THEN "/" ELSE @,
            !.extra = 0]

\* What canonicalise() returns for a URL it accepts, which may be longer by the
\* "/": its length is not looked at again.
Canonicalise(u) ==
  [u EXCEPT !.caps  = FALSE,
            !.port  = IF @ = DefaultPort(u.scheme) THEN NoPort ELSE @,
            !.path  = IF @ = "" THEN "/" ELSE @,
            !.extra = 0]

\* _check_urls drops blank lines before anything is counted.
Candidates(raw) ==
  LET kept[n \in 0 .. Len(raw)] ==
        IF n = 0 THEN <<>>
        ELSE IF raw[n].form = "blank" THEN kept[n - 1] ELSE Append(kept[n - 1], raw[n])
  IN  kept[Len(raw)]

ListRejected(raw) ==
  LET urls == Candidates(raw)
  IN  \/ Len(urls) \notin 1 .. MaxUrls
      \/ \E i \in 1 .. Len(urls) : Rejected(urls[i])

\* One turn of the loop of normalise_many.
KeepNew(out, u) ==
  LET url == Canonicalise(u)
  IN  IF url \in Range(out) THEN out ELSE Append(out, url)

\* What the loop makes of a list: `out' after its first n turns.
KeepFirst(submitted) ==
  LET out[n \in 0 .. Len(submitted)] ==
        IF n = 0 THEN <<>> ELSE KeepNew(out[n - 1], submitted[n])
  IN  out[Len(submitted)]

NormaliseMany(raw) == KeepFirst(Candidates(raw))
-----------------------------------------------------------------------------
\* What a request for the URL asks for: the reference the canonical form is
\* held against.
Port(u) == IF u.port = NoPort THEN DefaultPort(u.scheme) ELSE u.port
SameResource(u, v) ==
  /\ u.scheme = v.scheme /\ u.host = v.host /\ Port(u) = Port(v)
  /\ u.path = v.path \/ {u.path, v.path} = {"", "/"}
=============================================================================
