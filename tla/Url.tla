-------------------------------- MODULE Url --------------------------------
(***************************************************************************)
(* The Url class: a text is taken apart into a scheme, a user and          *)
(* password, a host, a port, a path, a query and a fragment, and put       *)
(* together again for curl.  What the service signed has to come out as    *)
(* it went in.                                                             *)
(*                                                                         *)
(* A text is a sequence of the separators and of whole words.              *)
(***************************************************************************)
EXTENDS Integers, Sequences

SchemeEnd == <<":", "/", "/">>

\* std::string::find: the first place of piece in text, 0 for npos.
IsAt(piece, text, i) == i + Len(piece) - 1 <= Len(text) /\ SubSeq(text, i, i + Len(piece) - 1) = piece
Find(piece, text) ==
    IF \E i \in DOMAIN text : IsAt(piece, text, i)
    THEN CHOOSE i \in DOMAIN text : IsAt(piece, text, i) /\ \A j \in 1 .. i - 1 : ~IsAt(piece, text, j)
    ELSE 0
Has(piece, text) == Find(piece, text) # 0

\* substr(0, pos) and substr(pos + n), which are everything and nothing where there is no such pos.
Before(piece, text) == IF Has(piece, text) THEN SubSeq(text, 1, Find(piece, text) - 1) ELSE text
After(piece, text) ==
    IF Has(piece, text) THEN SubSeq(text, Find(piece, text) + Len(piece), Len(text)) ELSE <<>>

\* ::tolower for every character.
LowerWord(word) == CASE word = "HTTPS" -> "https" [] word = "HOST" -> "host" [] OTHER -> word
Lower(text) == [i \in DOMAIN text |-> LowerWord(text[i])]
\* atoi, and the number printed again: what is not a number is 0.
Decimal(text) == IF text[1] \in {"443", "8443"} THEN <<text[1]>> ELSE <<"0">>

-----------------------------------------------------------------------------
\* userinfo@host:port; no port is INVALID_PORT.
SetAuthority(authority) ==
    LET userInfo == IF Has(<<"@">>, authority) THEN Before(<<"@">>, authority) ELSE <<>>
        address  == IF Has(<<"@">>, authority) THEN After(<<"@">>, authority) ELSE authority
        port     == After(<<":">>, address)
    IN  [userName |-> Before(<<":">>, userInfo), password |-> After(<<":">>, userInfo),
         host |-> Lower(Before(<<":">>, address)), port |-> IF port = <<>> THEN <<>> ELSE Decimal(port)]

\* A plausible bug: the fragment is copied and not erased.
WithoutFragment_Copied(rest) == rest

WithoutFragment(rest) == Before(<<"#">>, rest)

FromString(url) ==
    LET rest       == IF Has(SchemeEnd, url) THEN After(SchemeEnd, url) ELSE url
        noFragment == WithoutFragment(rest)
        noQuery    == Before(<<"?">>, noFragment)
    IN  [scheme |-> IF Has(SchemeEnd, url) THEN Lower(Before(SchemeEnd, url)) ELSE <<>>,
         authority |-> SetAuthority(Before(<<"/">>, noQuery)),
         path |-> <<"/">> \o After(<<"/">>, noQuery),
         query |-> After(<<"?">>, noFragment), fragment |-> After(<<"#">>, rest)]

IsValid(url) ==
    LET a == url.authority IN a.host # <<>> /\ (a.userName = <<>> => a.password = <<>>)

\* A part with the separator that goes with it, if there is such a part.
Led(separator, part) == IF part = <<>> THEN <<>> ELSE separator \o part
Ended(part, separator) == IF part = <<>> THEN <<>> ELSE part \o separator

Authority(url) ==
    LET a == url.authority IN Ended(a.userName \o Led(<<":">>, a.password), <<"@">>) \o a.host \o Led(<<":">>, a.port)

\* Nothing at all of a url without a host.
UrlToString(url) ==
    IF ~IsValid(url) THEN <<>>
    ELSE Ended(url.scheme, SchemeEnd) \o Authority(url) \o url.path \o Led(<<"?">>, url.query) \o Led(<<"#">>, url.fragment)

-----------------------------------------------------------------------------
(* The endpoint of a client.                                               *)

Punctuation == {":", "/", "@", "?", "#", "[", "]", " "}
IsValidEndpoint(endpoint) ==
    LET host == FromString(endpoint).authority.host
    IN  host # <<>> /\ \A i \in DOMAIN host : host[i] \notin Punctuation

\* GetHostString: scheme and authority, http where none is given.
HostString(endpoint) ==
    LET url == FromString(endpoint)
    IN  (IF url.scheme = <<>> THEN <<"http">> ELSE url.scheme) \o SchemeEnd \o (IF IsValid(url) THEN Authority(url) ELSE <<>>)

\* addUrl: the path of the operation at the host; no request has parameters.
AddUrl(host, path) == [host EXCEPT !.path = <<path>>]
=============================================================================
