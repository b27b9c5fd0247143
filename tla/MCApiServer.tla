----------------------------- MODULE MCApiServer -----------------------------
EXTENDS ApiServer

Value(f, padded) == [fields |-> f, padded |-> padded]
K == Value(<<"k">>, FALSE)
L == Value(<<"l">>, FALSE)
Env(appEnv, disabled, external, internal) ==
    [appEnv |-> appEnv, disabled |-> disabled, external |-> external, internal |-> internal]

Production == Value(<<"production">>, FALSE)
Development == Value(<<"development">>, FALSE)

MCEnvironments ==
    {Env(Production, FALSE, Value(<<"k">>, TRUE), L),
     Env(Production, FALSE, Value(<<"k">>, TRUE), K),
     Env(Production, FALSE, Value(<<>>, TRUE), L),
     Env(Production, FALSE, Value(<<"a", "b">>, FALSE), Value(<<"l">>, TRUE)),
     Env(Value(<<"Production">>, TRUE), TRUE, K, L),
     Env(Development, TRUE, Value(<<>>, FALSE), Value(<<>>, FALSE))}

Addr(form, net) == [form |-> form, net |-> net, zone |-> FALSE]

MCAddresses ==
    {Addr("4", "global"), Addr("mapped", "global"), Addr("6", "global"),
     Addr("4", "private"), Addr("mapped", "loopback"), Addr("4", "shared"),
     Addr("6", "nat64"), Addr("6", "uniqueLocal"), Addr("6", "6to4"),
     [form |-> "6", net |-> "linkLocal", zone |-> TRUE]}

Name(n) == [literal |-> FALSE, name |-> n]
Literal(a) == [literal |-> TRUE, name |-> "address", address |-> a]
URL(scheme, host, extra) ==
    [parses |-> TRUE, scheme |-> scheme, host |-> host, extra |-> extra, utf8 |-> TRUE]

MCTarget ==
    [remote  |-> URL("https", Name("remote"), FALSE),
     local   |-> URL("https", Name("local"), FALSE),
     latin1  |-> [URL("https", Name("remote"), FALSE) EXCEPT !.utf8 = FALSE],
     literal |-> URL("https", Literal(Addr("mapped", "private")), FALSE)]

P(field, content, chars, bytes) ==
    [field |-> field, content |-> content, chars |-> chars, bytes |-> bytes, cut |-> FALSE]
Cut(p) == [p EXCEPT !.cut = TRUE]

\* With limits of two characters of a text (eight bytes), two images of two bytes,
\* and two characters or bytes of a URL: at each limit and one above, and at one of
\* the two that differ but not at the other.
MCTexts ==
    {P("text", NoText, 0, 0), P("text", NoText, 2, 2),
     P("text", "plain", 2, 8), P("text", "plain", 3, 3), P("text", "plain", 3, 9),
     P("text", "unstorable", 1, 1), Cut(P("text", "plain", 1, 1))}
MCImages ==
    {P("images", "png", 2, 2), P("images", "jpeg", 1, 2), P("images", "gif", 1, 1),
     P("images", "png", 2, 3), P("images", "png", 3, 3), Cut(P("images", "png", 1, 1))}
MCURLs ==
    {P("webhook_url", u, 2, 2) : u \in DOMAIN MCTarget \cup {NoURL}}
    \cup {P("webhook_url", "remote", 2, 3), P("webhook_url", "remote", 3, 3),
          Cut(P("webhook_url", "remote", 1, 1))}
MCParts == MCTexts \cup MCImages \cup MCURLs \cup {P("caption", "plain", 1, 1)}

\* Every form of one part; every part before and after a fine one of each field; and
\* of three parts those with one of each field, or with two images and one part more.
Text  == P("text", "plain", 2, 8)
Image == P("images", "png", 2, 2)
Hook  == P("webhook_url", "remote", 2, 2)
Fine  == {Text, Image, Hook}

MCBodies ==
    {<<>>} \cup {<<p>> : p \in MCParts} \cup (Fine \X MCParts) \cup (MCParts \X Fine)
    \cup {<<Text, Image, u>> : u \in MCURLs}
    \cup {<<P("images", "jpeg", 1, 2), Image, p>> : p \in MCImages \cup Fine}
=============================================================================
