SPECIFICATION FairSpec
CONSTANTS
  n1 = n1
  n2 = n2
  Net = {n1, n2}
  NoNet = NoNet
  NoModel = NoModel
  Models <- SomeModels
  Page = 12
  PublicSize = 20
  Allow = {"Hang"}
PROPERTIES
  SubmissionEnds
