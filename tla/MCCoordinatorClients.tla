------------------------ MODULE MCCoordinatorClients ------------------------
EXTENDS CoordinatorClients
CONSTANT item

MCItems == {item}
MCTimeStamps == 1 .. 4
=============================================================================
