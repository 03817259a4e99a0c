\* The same instance, against docs/rest-websocket-api-contract.md:441.
SPECIFICATION Spec
CONSTANTS
  Auctions = {"108", "109"}  None = None
  EndOf <- OneAfterTheOther
  Start <- FromOne
  Servers <- HubAndOther
  Bids = {"b"}  Frames = 1
  MaxPrice <- OneAndTwo  MaxTime = 1
PROPERTIES
  PriceNeverFalls
CHECK_DEADLOCK FALSE
