-------------------------- MODULE MCTunnelConfigs --------------------------
EXTENDS TunnelConfigs
In(proxy, net, sec, key) == [proxy |-> proxy, net |-> net, sec |-> sec, key |-> key]
MCLists == {<<>>, <<"h1">>, <<"h2", "a1">>, <<"a2">>, <<"v6", "a1">>}
\* cleartext, VMess, TLS with and without a pin, Reality with and without a key, a
\* security of neither kind, and a protocol of neither
MCOffers == {In("vless", "tcp", "none", FALSE), In("vmess", "tcp", "none", TRUE),
             In("vless", "ws", "tls", TRUE), In("vless", "tcp", "tls", FALSE),
             In("vless", "tcp", "tls", TRUE), In("vless", "tcp", "reality", FALSE),
             In("vless", "tcp", "reality", TRUE), In("vless", "tcp", "other", TRUE),
             In("other", "tcp", "tls", TRUE)}
=============================================================================
