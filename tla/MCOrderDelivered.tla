-------------------------- MODULE MCOrderDelivered --------------------------
EXTENDS OrderDelivered, TLC

CONSTANTS none, w1, w2
=============================================================================
