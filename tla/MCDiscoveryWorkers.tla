--------------------------- MODULE MCDiscoveryWorkers ---------------------------
(***************************************************************************)
(* Instances of DiscoveryWorkers for TLC.  Each topology is a constant     *)
(* function from a host to the addresses its neighbour tables hold.        *)
(***************************************************************************)
EXTENDS DiscoveryWorkers

CONSTANTS h1, h2, h3, h4, h5, h6, w1, w2, w3

\* Seeds h1 and h2 know each other and share neighbour h3; behind h3 lies h6.
\* h4 is the server's own address, h5 an address outside the allowed networks.
CampusNeighbors ==
    [h \in {h1, h2, h3, h4, h5, h6} |->
        CASE h = h1 -> {h2, h3}
          [] h = h2 -> {h3, h5}
          [] h = h3 -> {h4, h6}
          [] h = h6 -> {h1}
          [] OTHER  -> {}]

\* From seed h1: h1 - h4 - h5.  From seed h2: h2 - h3 - h4 - h5.
DiamondNeighbors ==
    [h \in {h1, h2, h3, h4, h5} |->
        CASE h = h1 -> {h4}
          [] h = h2 -> {h3}
          [] h = h3 -> {h4}
          [] h = h4 -> {h5}
          [] OTHER  -> {}]
=============================================================================
