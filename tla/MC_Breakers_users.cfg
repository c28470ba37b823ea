CONSTANTS
  Clusters <- MCClusters
  Rules = {"removed flag", "removed gate", "locked gate", "proxy flag", "kubelet field", "kubelet gate", "kubelet locked"}
  Rule <- MCRule
  Plugins = {1, 2, 3, 4}
  Plugin <- MCPlugin
  Paths <- MCPaths
  Cap = 1
  PluginCap = 3
SPECIFICATION Spec
INVARIANT EveryUserReported
