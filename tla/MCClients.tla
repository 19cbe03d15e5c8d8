------------------------------ MODULE MCClients ------------------------------
EXTENDS Clients
CONSTANTS d1, d2
MCDevices == {d1, d2}
OneDevice == {d1}
EnvUnset == {0}
EnvSet == {0} \union Ids
==============================================================================
