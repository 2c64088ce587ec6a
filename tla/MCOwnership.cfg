SPECIFICATION Spec
CONSTANTS
  ann = ann
  bob = bob
  north = north
  south = south
  Procs = {web, admin}
  Reps = {ann, bob}
  Leaders = {bob}
  Admin = Admin
  Pods = {north, south}
  PodsOf <- TwoPods
  Contacts = {cy}
  Forms = {form}
  None = None
  Asked = {"assign", "claim", "next", "setPod", "launch", "remove", "pods", "hand", "strand"}
  MaxRequests = 3
INVARIANTS TypeOK CampaignsHaveSomeone
PROPERTIES HeldUntilGiven
SYMMETRY AnyProcess
CHECK_DEADLOCK FALSE
