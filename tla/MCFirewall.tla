------------------------------ MODULE MCFirewall ------------------------------
(* Firewall on nodes of two kinds: one whose interface outlives the application *)
(* and brings its own DNS (wireguard), one of tun2socks (xray).                 *)
EXTENDS Firewall

CONSTANTS wg, xray

=============================================================================
