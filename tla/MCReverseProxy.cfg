SPECIFICATION FairSpec
CONSTANTS
  w1 = w1
  w2 = w2
  w3 = w3
  Worker <- MCWorker
  Prefix <- MCPrefix
  Dest <- d
  Uris <- MCUris
  Web <- MCWeb
  Names <- MCNames
  Refusing <- MCRefusing
  Local <- MCLocal
  MaxClients = 1
INVARIANTS TypeOK BodyIntact 
 
