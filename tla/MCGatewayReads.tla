-------------------------- MODULE MCGatewayReads --------------------------
EXTENDS GatewayReads
MCTouched == {<<1, 0>>, <<2, 0>>, <<2, 1>>, <<3, 1>>}
=============================================================================
