--------------------------- MODULE MCAppleSession ---------------------------
EXTENDS AppleSession
MCHosts == Commands \cup {"daemon","library"}
MCStores == {"disk", "memory"}
MCLibraryOps == {"authenticate", "restore", "locate"}
=============================================================================
