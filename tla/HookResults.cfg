SPECIFICATION Spec
CONSTANTS
  Count = 2
  Reporting = {2}
  Events = {"OnChat", "ConnectionAcceptance", "VehicleTTHook", "OnThink", "OnVehiclePurchase", "Invoke", "Killed", "Sound_Heard", "Can_Activate", "DA_Chat_Event", "DA_Damage_Request_Event", "DA_Custom_Purchase_Request_Event", "DA_Kill_Event"}
  Answers <- SomeAnswers
  MaxWalks = 2
  MaxSlots = 2
INVARIANTS
  TypeOK
  RefusalStands
  RefusalHasCause
  WordsCount
  NothingElseLeft
