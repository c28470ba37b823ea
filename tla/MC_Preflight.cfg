SPECIFICATION Spec
CONSTANTS
  Objects <- MCObjects
  Clusters <- MCClusters
  Services <- MCServices
  MaxChanges = 2
INVARIANTS
  TypeOK
  BlockersShow
  NoFalseAlarm
  OneAnswerPerService
  RefusedListsUnjudged
