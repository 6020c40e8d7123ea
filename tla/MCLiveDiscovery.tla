---------------------------- MODULE MCLiveDiscovery ----------------------------
EXTENDS LiveDiscovery

CONSTANTS worker, importer, n1
================================================================================
