\* Two auctions, prices up to 1 and 2, a bid under way at a time.
SPECIFICATION Spec
CONSTANTS
  Auctions = {"108", "109"}  None = None
  EndOf <- OneAfterTheOther
  Start <- FromOne
  Servers <- HubAndOther
  Bids = {"b"}  Frames = 1
  MaxPrice <- OneAndTwo  MaxTime = 1
INVARIANTS
  TypeOK
  ShownPriceIsOurs
PROPERTIES
  ModalAtItsEnd
CHECK_DEADLOCK FALSE
